--------------------------- MODULE DispatchProofs ---------------------------
(***************************************************************************)
(* What a run keeps, whatever file trees there are, however deep targets   *)
(* run one another, and however often each of them changes what the next   *)
(* is handed.                                                              *)
(*                                                                         *)
(* A target is handed its environment in two halves and a PATH, and knows  *)
(* nothing of those it is inside of.  The invariant says of every frame    *)
(* that what it was handed is what the frames around it say: each of them  *)
(* stays as it was while it waits, so only the innermost can disturb it.   *)
(*                                                                         *)
(* No target is inside itself, so no run is deeper than there are targets. *)
(***************************************************************************)
EXTENDS Dispatch, FiniteSetTheorems, SequenceTheorems, WellFoundedInduction, TLAPS

-----------------------------------------------------------------------------
(* Sequences, and what Keep leaves of one.                                 *)

\* A set of naturals that is closed under one step, from 0 up to n, has n.
LEMMA UpTo ==
  ASSUME NEW n \in Nat, NEW P, 0 \in P, \A k \in 1 .. n : k - 1 \in P => k \in P
  PROVE  \A k \in 0 .. n : k \in P
<1> SUFFICES ASSUME NEW k \in 0 .. n, k \notin P
             PROVE  FALSE
  OBVIOUS
<1> DEFINE Missing == {m \in 0 .. n : m \notin P}
<1>1. Missing # {} /\ Missing \subseteq Nat
  OBVIOUS
<1>2. PICK m \in Missing : \A j \in Missing : <<j, m>> \notin OpToRel(<, Nat)
  BY <1>1, NatLessThanWellFounded, WFMin, Zenon
<1>3. m \in 1 .. n /\ m \notin P
  OBVIOUS
<1>4. m - 1 \in Missing
  BY <1>3
<1>5. <<m - 1, m>> \notin OpToRel(<, Nat)
  BY <1>2, <1>4
<1>6. m - 1 \in Nat /\ m \in Nat /\ m - 1 < m
  BY <1>3
<1> QED BY <1>5, <1>6 DEF OpToRel

KeptOf(s, T) ==
  CHOOSE f : f = [n \in 0 .. Len(s) |->
    IF n = 0 THEN <<>> ELSE IF s[n] \in T THEN f[n - 1] ELSE Append(f[n - 1], s[n])]

\* Keep is what its recursion says.
LEMMA KeptIs ==
  ASSUME NEW S, NEW s \in Seq(S), NEW T
  PROVE  /\ Keep(s, T) = KeptOf(s, T)[Len(s)]
         /\ KeptOf(s, T)[0] = <<>>
         /\ \A n \in 1 .. Len(s) :
              KeptOf(s, T)[n] = IF s[n] \in T THEN KeptOf(s, T)[n - 1]
                                ELSE Append(KeptOf(s, T)[n - 1], s[n])
<1> DEFINE Step(f, n) == IF n = 0 THEN <<>> ELSE IF s[n] \in T THEN f[n - 1] ELSE Append(f[n - 1], s[n])
           P == {m \in 0 .. Len(s) : \E f : f = [n \in 0 .. m |-> Step(f, n)]}
<1>1. Len(s) \in Nat
  OBVIOUS
<1>2. 0 \in P
  <2>1. [n \in 0 .. 0 |-> <<>>] = [n \in 0 .. 0 |-> Step([i \in 0 .. 0 |-> <<>>], n)]
    OBVIOUS
  <2>2. \E f : f = [n \in 0 .. 0 |-> Step(f, n)]
    BY <2>1
  <2> QED BY <1>1, <2>2
<1>3. ASSUME NEW m \in 1 .. Len(s), m - 1 \in P
      PROVE  m \in P
  <2>1. PICK f : f = [n \in 0 .. m - 1 |-> Step(f, n)]
    BY <1>3
  <2> DEFINE g == [n \in 0 .. m |-> IF n = m THEN Step(f, m) ELSE f[n]]
  <2>2. \A n \in 0 .. m : g[n] = Step(g, n)
    <3> TAKE n \in 0 .. m
    <3>1. CASE n = m
      BY <3>1, <1>1
    <3>2. CASE n # m
      <4>1. n \in 0 .. m - 1 /\ f[n] = Step(f, n) /\ g[n] = f[n]
        <5>1. n \in 0 .. m - 1
          BY <3>2, <1>1
        <5>2. f[n] = Step(f, n)
          <6> HIDE DEF Step
          <6> QED BY <2>1, <5>1
        <5>3. g[n] = f[n]
          BY <3>2
        <5> QED BY <5>1, <5>2, <5>3
      <4>2. n # 0 => n - 1 \in 0 .. m /\ n - 1 # m /\ g[n - 1] = f[n - 1]
        BY <4>1, <1>1
      <4> QED BY <4>1, <4>2
    <3> QED BY <3>1, <3>2
  <2>3. g = [n \in 0 .. m |-> Step(g, n)]
    BY <2>2
  <2>4. \E h : h = [n \in 0 .. m |-> Step(h, n)]
    BY <2>3
  <2> QED BY <2>4
<1>4. Len(s) \in P
  <2> HIDE DEF P
  <2>1. \A k \in 1 .. Len(s) : k - 1 \in P => k \in P
    BY <1>3
  <2>2. \A k \in 0 .. Len(s) : k \in P
    BY <1>1, <1>2, <2>1, UpTo
  <2> QED BY <1>1, <2>2
<1>5. KeptOf(s, T) = [n \in 0 .. Len(s) |-> Step(KeptOf(s, T), n)]
  BY <1>4 DEF KeptOf
<1>6. \A n \in 0 .. Len(s) : KeptOf(s, T)[n] = Step(KeptOf(s, T), n)
  <2> HIDE DEF Step
  <2> QED BY <1>5
<1>7. Keep(s, T) = KeptOf(s, T)[Len(s)]
  BY DEF Keep, KeptOf
<1> QED BY <1>1, <1>6, <1>7

\* Who is on a sequence, and ahead of whom, when it grows.
LEMMA AppendAhead ==
  ASSUME NEW S, NEW q \in Seq(S), NEW x \in S
  PROVE  /\ Append(q, x) \in Seq(S) /\ ToSet(Append(q, x)) = ToSet(q) \cup {x}
         /\ \A d, e : Ahead(q, d, e) => Ahead(Append(q, x), d, e)
         /\ \A e : e # x /\ e \notin ToSet(q) => Ahead(Append(q, x), x, e)
<1> DEFINE r == Append(q, x)
<1>1. /\ r \in Seq(S) /\ Len(r) = Len(q) + 1 /\ Len(q) \in Nat /\ r[Len(q) + 1] = x
      /\ DOMAIN q = 1 .. Len(q) /\ DOMAIN r = 1 .. Len(q) + 1
      /\ \A i \in 1 .. Len(q) : r[i] = q[i]
  OBVIOUS
<1> HIDE DEF r
<1>2. ToSet(r) = ToSet(q) \cup {x}
  BY <1>1 DEF ToSet
<1>3. ASSUME NEW d, NEW e, Ahead(q, d, e)
      PROVE  Ahead(r, d, e)
  <2>1. PICK i \in 1 .. Len(q) : q[i] = d /\ \A j \in 1 .. i : q[j] # e
    BY <1>1, <1>3 DEF Ahead
  <2>2. i \in DOMAIN r /\ r[i] = d /\ \A j \in 1 .. i : r[j] # e
    BY <1>1, <2>1
  <2> QED BY <2>2 DEF Ahead
<1>4. ASSUME NEW e, e # x, e \notin ToSet(q)
      PROVE  Ahead(r, x, e)
  <2>1. \A j \in 1 .. Len(q) + 1 : r[j] # e
    BY <1>1, <1>4 DEF ToSet
  <2>2. Len(q) + 1 \in DOMAIN r
    BY <1>1
  <2> QED BY <1>1, <2>1, <2>2 DEF Ahead
<1> QED BY <1>1, <1>2, <1>3, <1>4 DEF r

LEMMA ConcatAhead ==
  ASSUME NEW S, NEW a \in Seq(S), NEW b \in Seq(S)
  PROVE  /\ a \o b \in Seq(S) /\ ToSet(a \o b) = ToSet(a) \cup ToSet(b)
         /\ \A d, e : Ahead(a, d, e) => Ahead(a \o b, d, e)
         /\ \A d, e : e \notin ToSet(a) /\ Ahead(b, d, e) => Ahead(a \o b, d, e)
         /\ \A d, e : e \notin ToSet(a) /\ d \in ToSet(a) => Ahead(a \o b, d, e)
<1> DEFINE r == a \o b
<1>1. /\ r \in Seq(S) /\ Len(r) = Len(a) + Len(b) /\ Len(a) \in Nat /\ Len(b) \in Nat
      /\ DOMAIN a = 1 .. Len(a) /\ DOMAIN b = 1 .. Len(b) /\ DOMAIN r = 1 .. Len(a) + Len(b)
      /\ \A i \in 1 .. Len(a) : r[i] = a[i]
      /\ \A i \in 1 .. Len(b) : r[Len(a) + i] = b[i]
  OBVIOUS
<1> HIDE DEF r
<1>2. \A i \in DOMAIN r : i \in DOMAIN a \/ \E k \in DOMAIN b : i = Len(a) + k
  <2> SUFFICES ASSUME NEW i \in 1 .. Len(a) + Len(b), i \notin 1 .. Len(a)
               PROVE  \E k \in 1 .. Len(b) : i = Len(a) + k
    BY <1>1
  <2>1. i - Len(a) \in 1 .. Len(b) /\ i = Len(a) + (i - Len(a))
    BY <1>1
  <2> QED BY <2>1
<1>3. ToSet(r) = ToSet(a) \cup ToSet(b)
  <2>1. ToSet(r) \subseteq ToSet(a) \cup ToSet(b)
    BY <1>1, <1>2 DEF ToSet
  <2>2. ToSet(a) \subseteq ToSet(r)
    BY <1>1 DEF ToSet
  <2>3. ToSet(b) \subseteq ToSet(r)
    <3>1. \A k \in DOMAIN b : Len(a) + k \in DOMAIN r
      BY <1>1
    <3> QED BY <1>1, <3>1 DEF ToSet
  <2> QED BY <2>1, <2>2, <2>3
<1>4. ASSUME NEW d, NEW e, Ahead(a, d, e)
      PROVE  Ahead(r, d, e)
  <2>1. PICK i \in 1 .. Len(a) : a[i] = d /\ \A j \in 1 .. i : a[j] # e
    BY <1>1, <1>4 DEF Ahead
  <2>2. i \in DOMAIN r /\ r[i] = d /\ \A j \in 1 .. i : r[j] # e
    BY <1>1, <2>1
  <2> QED BY <2>2 DEF Ahead
<1>5. ASSUME NEW d, NEW e, e \notin ToSet(a), Ahead(b, d, e)
      PROVE  Ahead(r, d, e)
  <2>1. PICK i \in 1 .. Len(b) : b[i] = d /\ \A j \in 1 .. i : b[j] # e
    BY <1>1, <1>5 DEF Ahead
  <2>2. Len(a) + i \in DOMAIN r /\ r[Len(a) + i] = d
    BY <1>1, <2>1
  <2>3. ASSUME NEW j \in 1 .. Len(a) + i
        PROVE  r[j] # e
    <3>1. CASE j \in 1 .. Len(a)
      BY <1>1, <1>5, <3>1 DEF ToSet
    <3>2. CASE j \notin 1 .. Len(a)
      <4>1. j - Len(a) \in 1 .. i /\ j - Len(a) \in 1 .. Len(b) /\ j = Len(a) + (j - Len(a))
        BY <1>1, <3>2
      <4>2. r[j] = b[j - Len(a)]
        BY <1>1, <4>1
      <4> QED BY <2>1, <4>1, <4>2
    <3> QED BY <3>1, <3>2
  <2> QED BY <2>2, <2>3 DEF Ahead
<1>6. ASSUME NEW d, NEW e, e \notin ToSet(a), d \in ToSet(a)
      PROVE  Ahead(r, d, e)
  <2>1. PICK i \in 1 .. Len(a) : a[i] = d
    BY <1>1, <1>6 DEF ToSet
  <2>2. \A j \in 1 .. Len(a) : r[j] # e
    BY <1>1, <1>6 DEF ToSet
  <2>3. i \in DOMAIN r /\ r[i] = d /\ \A j \in 1 .. i : r[j] # e
    BY <1>1, <2>1, <2>2
  <2> QED BY <2>3 DEF Ahead
<1> QED BY <1>1, <1>3, <1>4, <1>5, <1>6 DEF r

\* Keep takes out what it is to take out, and leaves the rest in its order.
LEMMA KeepIs ==
  ASSUME NEW S, NEW s \in Seq(S), NEW T
  PROVE  /\ Keep(s, T) \in Seq(S) /\ ToSet(Keep(s, T)) = ToSet(s) \ T
         /\ \A d, e : d \notin T /\ Ahead(s, d, e) => Ahead(Keep(s, T), d, e)
<1> DEFINE k(n) == KeptOf(s, T)[n]
           Some(n) == {s[i] : i \in 1 .. n}
           First(n, d, e) == \E i \in 1 .. n : s[i] = d /\ \A j \in 1 .. i : s[j] # e
           Right(n) == /\ k(n) \in Seq(S) /\ ToSet(k(n)) = Some(n) \ T
                       /\ \A d, e : d \notin T /\ First(n, d, e) => Ahead(k(n), d, e)
           P == {n \in 0 .. Len(s) : Right(n)}
<1>1. Len(s) \in Nat /\ DOMAIN s = 1 .. Len(s) /\ \A i \in 1 .. Len(s) : s[i] \in S
  OBVIOUS
<1>2. /\ Keep(s, T) = k(Len(s)) /\ k(0) = <<>>
      /\ \A n \in 1 .. Len(s) : k(n) = IF s[n] \in T THEN k(n - 1) ELSE Append(k(n - 1), s[n])
  BY KeptIs
<1> HIDE DEF k
<1>3. 0 \in P
  <2>1. k(0) \in Seq(S) /\ ToSet(k(0)) = {}
    <3>1. <<>> \in Seq(S) /\ DOMAIN <<>> = {}
      OBVIOUS
    <3>2. ToSet(<<>>) = {}
      BY <3>1 DEF ToSet
    <3> QED BY <1>2, <3>1, <3>2
  <2>2. 1 .. 0 = {}
    OBVIOUS
  <2>3. Some(0) = {} /\ \A d, e : ~First(0, d, e)
    BY <2>2
  <2> HIDE DEF Some, First
  <2> QED BY <1>1, <2>1, <2>3
<1>4. ASSUME NEW n \in 1 .. Len(s), n - 1 \in P
      PROVE  n \in P
  <2>1. Right(n - 1) /\ n \in 0 .. Len(s) /\ n - 1 \in Nat
    BY <1>1, <1>4
  <2>2. Some(n) = Some(n - 1) \cup {s[n]}
    <3>1. 1 .. n = (1 .. n - 1) \cup {n}
      BY <2>1
    <3> QED BY <3>1
  <2>3. ASSUME NEW d, NEW e, First(n, d, e)
        PROVE  First(n - 1, d, e) \/ (s[n] = d /\ d # e /\ e \notin Some(n - 1))
    <3>1. PICK i \in 1 .. n : s[i] = d /\ \A j \in 1 .. i : s[j] # e
      BY <2>3
    <3>2. CASE i = n
      BY <3>1, <3>2, <2>1
    <3>3. CASE i # n
      <4>1. i \in 1 .. n - 1
        BY <3>3, <2>1
      <4> QED BY <3>1, <4>1
    <3> QED BY <3>2, <3>3
  <2> HIDE DEF First, Some
  <2>4. CASE s[n] \in T
    <3>1. k(n) = k(n - 1)
      BY <1>2, <2>4
    <3>2. ToSet(k(n)) = Some(n) \ T
      BY <2>1, <2>2, <2>4, <3>1
    <3>3. \A d, e : d \notin T /\ First(n, d, e) => Ahead(k(n), d, e)
      BY <2>1, <2>3, <2>4, <3>1
    <3> QED BY <2>1, <3>1, <3>2, <3>3
  <2>5. CASE s[n] \notin T
    <3>1. k(n) = Append(k(n - 1), s[n]) /\ s[n] \in S /\ k(n - 1) \in Seq(S)
      BY <1>1, <1>2, <2>1, <2>5
    <3>2. /\ k(n) \in Seq(S) /\ ToSet(k(n)) = ToSet(k(n - 1)) \cup {s[n]}
          /\ \A d, e : Ahead(k(n - 1), d, e) => Ahead(k(n), d, e)
          /\ \A e : e # s[n] /\ e \notin ToSet(k(n - 1)) => Ahead(k(n), s[n], e)
      BY <3>1, AppendAhead
    <3>3. ToSet(k(n)) = Some(n) \ T
      BY <2>1, <2>2, <2>5, <3>2
    <3>4. \A d, e : d \notin T /\ First(n, d, e) => Ahead(k(n), d, e)
      BY <2>1, <2>3, <3>2
    <3> QED BY <2>1, <3>2, <3>3, <3>4
  <2> QED BY <2>4, <2>5
<1>5. Len(s) \in P
  <2> HIDE DEF P
  <2>1. \A n \in 1 .. Len(s) : n - 1 \in P => n \in P
    BY <1>4
  <2>2. \A n \in 0 .. Len(s) : n \in P
    BY <1>1, <1>3, <2>1, UpTo
  <2> QED BY <1>1, <2>2
<1>6. Some(Len(s)) = ToSet(s) /\ \A d, e : Ahead(s, d, e) => First(Len(s), d, e)
  BY <1>1 DEF ToSet, Ahead
<1> HIDE DEF First, Some
<1> QED BY <1>2, <1>5, <1>6

-----------------------------------------------------------------------------
(* The inductive invariant.                                                *)

\* What a frame was handed is what the frames it is inside of say.
HandedTo(i) ==
  /\ frames[i].exported = IF EnvWithin(i - 1) # None THEN EnvWithin(i - 1) ELSE process.var
  /\ frames[i].exported = None => frames[i].defaults = FileWithin(i - 1)
  /\ Searches(frames[i].path, i - 1)

IInv == TypeOK /\ NotInsideItself /\ \A i \in DOMAIN frames : HandedTo(i)

LEMMA FrameTypes ==
  ASSUME TypeOK
  PROVE  /\ frames \in Seq(FrameType) /\ Len(frames) \in Nat /\ DOMAIN frames = 1 .. Len(frames)
         /\ \A i \in 1 .. Len(frames) : frames[i] \in FrameType
         /\ process.path \in Seq(PathDirs)
         /\ \A i \in 0 .. Len(frames) : Level(i) \in Seq(PathDirs)
<1>1. /\ frames \in Seq(FrameType) /\ Len(frames) \in Nat /\ DOMAIN frames = 1 .. Len(frames)
      /\ \A i \in 1 .. Len(frames) : frames[i] \in FrameType
  <2>1. frames \in Seq(FrameType)
    BY DEF TypeOK
  <2> QED BY <2>1
<1>2. process.path \in Seq(PathDirs)
  BY DispatchAssumption DEF TypeOK
<1>3. \A i \in 1 .. Len(frames) : frames[i].added \in Seq(PathDirs)
  BY <1>1 DEF FrameType
<1> QED BY <1>1, <1>2, <1>3 DEF Level

-----------------------------------------------------------------------------
(* Who says what the variable is, one frame more.                          *)

LEMMA Greatest ==
  ASSUME NEW n \in Nat, NEW W \in SUBSET (1 .. n), W # {}
  PROVE  /\ (CHOOSE i \in W : \A j \in W : j <= i) \in W
         /\ \A k \in W : k <= (CHOOSE i \in W : \A j \in W : j <= i)
<1>1. ASSUME \A i \in W : \E j \in W : ~(j <= i)
      PROVE  FALSE
  <2> DEFINE P == {m \in 0 .. n : \E j \in W : m < j}
  <2>1. \A j \in W : j \in 1 .. n
    OBVIOUS
  <2>2. 0 \in P
    <3>1. PICK j : j \in W
      OBVIOUS
    <3>2. 0 < j
      BY <2>1, <3>1
    <3> QED BY <3>1, <3>2
  <2>3. ASSUME NEW k \in 1 .. n, k - 1 \in P
        PROVE  k \in P
    <3>1. PICK j \in W : k - 1 < j
      BY <2>3
    <3>2. PICK l \in W : ~(l <= j)
      BY <1>1
    <3>3. k < l
      BY <2>1, <3>1, <3>2
    <3> QED BY <3>3
  <2>4. n \in P
    <3> HIDE DEF P
    <3>1. \A k \in 1 .. n : k - 1 \in P => k \in P
      BY <2>3
    <3>2. \A k \in 0 .. n : k \in P
      BY <2>2, <3>1, UpTo
    <3> QED BY <3>2
  <2> QED BY <2>1, <2>4
<1>2. \E i \in W : \A j \in W : j <= i
  BY <1>1
<1> QED BY <1>2

LEMMA InnermostMore ==
  ASSUME NEW n \in Nat, NEW said, NEW more, DOMAIN said = 1 .. n, DOMAIN more = 1 .. n + 1,
         \A i \in 1 .. n : more[i] = said[i]
  PROVE  Innermost(more) = IF more[n + 1] # None THEN more[n + 1] ELSE Innermost(said)
<1> DEFINE W == {i \in DOMAIN said : said[i] # None}
           V == {i \in DOMAIN more : more[i] # None}
           top(X) == CHOOSE i \in X : \A j \in X : j <= i
<1>1. 1 .. n + 1 = (1 .. n) \cup {n + 1} /\ W \in SUBSET (1 .. n)
  OBVIOUS
<1>2. CASE more[n + 1] # None
  <2>1. V = W \cup {n + 1}
    BY <1>1, <1>2
  <2>2. \A i \in V : (\A j \in V : j <= i) <=> i = n + 1
    BY <1>1, <2>1
  <2>3. V # {} /\ top(V) = n + 1
    <3> HIDE DEF V
    <3> QED BY <2>1, <2>2
  <2>4. Innermost(more) = IF V = {} THEN None ELSE more[top(V)]
    BY DEF Innermost
  <2> HIDE DEF V, top
  <2> QED BY <1>2, <2>3, <2>4
<1>3. CASE more[n + 1] = None
  <2>1. V = W
    BY <1>1, <1>3
  <2>2. W # {} => top(W) \in 1 .. n
    <3> HIDE DEF W
    <3> QED BY <1>1, Greatest
  <2>3. Innermost(more) = IF V = {} THEN None ELSE more[top(V)]
    BY DEF Innermost
  <2>4. Innermost(said) = IF W = {} THEN None ELSE said[top(W)]
    BY DEF Innermost
  <2> HIDE DEF V, W, top
  <2> QED BY <1>3, <2>1, <2>2, <2>3, <2>4
<1> QED BY <1>2, <1>3

FileSays(i) == IF preview \/ frames[i].files = <<>> THEN None ELSE Last(frames[i].files)

LEMMA SaysMore ==
  ASSUME NEW n \in Nat
  PROVE  /\ EnvWithin(n + 1) = IF frames[n + 1].env # None THEN frames[n + 1].env ELSE EnvWithin(n)
         /\ FileWithin(n + 1) = IF FileSays(n + 1) # None THEN FileSays(n + 1) ELSE FileWithin(n)
         /\ EnvWithin(0) = None /\ FileWithin(0) = None
<1>1. n + 1 \in 1 .. n + 1 /\ 1 .. n \subseteq 1 .. n + 1 /\ 1 .. 0 = {}
  OBVIOUS
<1>2. EnvWithin(n + 1) = IF frames[n + 1].env # None THEN frames[n + 1].env ELSE EnvWithin(n)
  <2> DEFINE said == [i \in 1 .. n |-> frames[i].env]
             more == [i \in 1 .. n + 1 |-> frames[i].env]
  <2>1. /\ DOMAIN said = 1 .. n /\ DOMAIN more = 1 .. n + 1 /\ more[n + 1] = frames[n + 1].env
        /\ \A i \in 1 .. n : more[i] = said[i]
    BY <1>1
  <2>2. EnvWithin(n) = Innermost(said) /\ EnvWithin(n + 1) = Innermost(more)
    BY DEF EnvWithin
  <2> HIDE DEF said, more
  <2> QED BY <2>1, <2>2, InnermostMore
<1>3. FileWithin(n + 1) = IF FileSays(n + 1) # None THEN FileSays(n + 1) ELSE FileWithin(n)
  <2> DEFINE said == [i \in 1 .. n |-> FileSays(i)]
             more == [i \in 1 .. n + 1 |-> FileSays(i)]
  <2>1. /\ DOMAIN said = 1 .. n /\ DOMAIN more = 1 .. n + 1 /\ more[n + 1] = FileSays(n + 1)
        /\ \A i \in 1 .. n : more[i] = said[i]
    BY <1>1
  <2>2. FileWithin(n) = Innermost(said) /\ FileWithin(n + 1) = Innermost(more)
    BY DEF FileWithin, FileSays
  <2> HIDE DEF said, more
  <2> QED BY <2>1, <2>2, InnermostMore
<1>4. \A f : DOMAIN f = {} => Innermost(f) = None
  BY DEF Innermost
<1>5. EnvWithin(0) = None /\ FileWithin(0) = None
  BY <1>1, <1>4 DEF EnvWithin, FileWithin
<1> QED BY <1>2, <1>3, <1>5

\* What the frames up to n say does not change while they do not.
LEMMA SaysSame ==
  ASSUME NEW n \in Nat, preview' = preview, process' = process,
         \A i \in 1 .. n : frames'[i] = frames[i]
  PROVE  /\ EnvWithin(n)' = EnvWithin(n) /\ FileWithin(n)' = FileWithin(n)
         /\ \A i \in 0 .. n : Level(i)' = Level(i)
<1>1. [i \in 1 .. n |-> frames[i].env]' = [i \in 1 .. n |-> frames[i].env]
  OBVIOUS
<1>2. [i \in 1 .. n |-> FileSays(i)]' = [i \in 1 .. n |-> FileSays(i)]
  BY DEF FileSays
<1> QED BY <1>1, <1>2 DEF EnvWithin, FileWithin, FileSays, Level

-----------------------------------------------------------------------------
(* What a frame builds, and hands over.                                    *)

\* Searching what a frame builds is searching one level more.
LEMMA BuiltSearches ==
  ASSUME TypeOK, NEW i \in DOMAIN frames, Searches(frames[i].path, i - 1)
  PROVE  Searches(Built(frames[i]).path, i) /\ Built(frames[i]).path \in Seq(PathDirs)
<1> DEFINE added == frames[i].added
           given == frames[i].path
           kept  == Keep(given, ToSet(added))
<1>1. /\ i \in 1 .. Len(frames) /\ Len(frames) \in Nat /\ i - 1 \in Nat /\ i # 0
      /\ added \in Seq(PathDirs) /\ given \in Seq(PathDirs) /\ Level(i) = added
  BY FrameTypes DEF FrameType, Level
<1>2. Built(frames[i]).path = added \o kept
  BY DEF Built
<1>3. Searches(given, i - 1)
  OBVIOUS
<1> HIDE DEF added, given
<1>4. /\ kept \in Seq(PathDirs) /\ ToSet(kept) = ToSet(given) \ ToSet(added)
      /\ \A d, e : d \notin ToSet(added) /\ Ahead(given, d, e) => Ahead(kept, d, e)
  BY <1>1, KeepIs
<1> HIDE DEF kept
<1>5. /\ added \o kept \in Seq(PathDirs) /\ ToSet(added \o kept) = ToSet(added) \cup ToSet(kept)
      /\ \A d, e : Ahead(added, d, e) => Ahead(added \o kept, d, e)
      /\ \A d, e : e \notin ToSet(added) /\ Ahead(kept, d, e) => Ahead(added \o kept, d, e)
      /\ \A d, e : e \notin ToSet(added) /\ d \in ToSet(added) => Ahead(added \o kept, d, e)
  BY <1>1, <1>4, ConcatAhead
<1>6. 0 .. i = (0 .. i - 1) \cup {i}
  BY <1>1
<1>7. ToSet(added \o kept) = UNION {ToSet(Level(j)) : j \in 0 .. i}
  <2>1. ToSet(added \o kept) = ToSet(Level(i)) \cup ToSet(given)
    BY <1>1, <1>4, <1>5
  <2>2. ToSet(given) = UNION {ToSet(Level(j)) : j \in 0 .. i - 1}
    BY <1>3 DEF Searches
  <2>3. UNION {ToSet(Level(j)) : j \in 0 .. i} = ToSet(Level(i)) \cup UNION {ToSet(Level(j)) : j \in 0 .. i - 1}
    BY <1>6
  <2> QED BY <2>1, <2>2, <2>3
<1>8. ASSUME NEW d \in PathDirs, NEW e \in PathDirs, AheadWithin(i, d, e)
      PROVE  Ahead(added \o kept, d, e)
  <2>1. PICK l \in 0 .. i : Ahead(Level(l), d, e) /\ \A j \in l + 1 .. i : e \notin ToSet(Level(j))
    BY <1>8 DEF AheadWithin
  <2>2. CASE l = i
    BY <1>1, <1>5, <2>1, <2>2
  <2>3. CASE l # i
    <3>1. l \in 0 .. i - 1 /\ l + 1 .. i - 1 \subseteq l + 1 .. i /\ i \in l + 1 .. i
      BY <1>1, <2>3
    <3>2. e \notin ToSet(added)
      BY <1>1, <2>1, <3>1
    <3>3. AheadWithin(i - 1, d, e)
      BY <2>1, <3>1 DEF AheadWithin
    <3>4. Ahead(given, d, e)
      BY <1>3, <3>3 DEF Searches
    <3> QED BY <1>4, <1>5, <3>2, <3>4
  <2> QED BY <2>2, <2>3
<1> QED BY <1>2, <1>5, <1>7, <1>8 DEF Searches

\* What a frame builds is what it and the frames around it say, and so is what it
\* hands over, in its two halves.
LEMMA BuiltSays ==
  ASSUME IInv, NEW i \in DOMAIN frames
  PROVE  /\ Built(frames[i]).var = IF EnvWithin(i) # None THEN EnvWithin(i)
                                   ELSE IF process.var # None THEN process.var ELSE FileWithin(i)
         /\ HandedOver(frames[i]).exported = IF EnvWithin(i) # None THEN EnvWithin(i) ELSE process.var
         /\ HandedOver(frames[i]).exported = None => HandedOver(frames[i]).defaults = FileWithin(i)
         /\ HandedOver(frames[i]).path = Built(frames[i]).path
         /\ HandedOver(frames[i]).exported \in {None} \cup FromEnv
         /\ HandedOver(frames[i]).defaults \in {None} \cup FromFile
<1> DEFINE f == frames[i]
           file == IF preview \/ f.files = <<>> THEN f.defaults ELSE Last(f.files)
<1>1. /\ i \in 1 .. Len(frames) /\ i - 1 \in Nat /\ (i - 1) + 1 = i
      /\ f.files \in Seq(FromFile) /\ f.defaults \in {None} \cup FromFile
      /\ f.env \in {None} \cup FromEnv /\ f.exported \in {None} \cup FromEnv
  BY FrameTypes DEF IInv, FrameType
<1>2. /\ f.exported = IF EnvWithin(i - 1) # None THEN EnvWithin(i - 1) ELSE process.var
      /\ f.exported = None => f.defaults = FileWithin(i - 1)
  BY DEF IInv, HandedTo
<1>3. /\ EnvWithin(i) = IF f.env # None THEN f.env ELSE EnvWithin(i - 1)
      /\ FileWithin(i) = IF FileSays(i) # None THEN FileSays(i) ELSE FileWithin(i - 1)
  BY <1>1, SaysMore
<1>4. f.files # <<>> => Last(f.files) \in FromFile
  BY <1>1 DEF Last
<1>5. FileSays(i) = IF preview \/ f.files = <<>> THEN None ELSE Last(f.files)
  BY DEF FileSays
<1>6. file \in {None} \cup FromFile /\ (f.exported = None => file = FileWithin(i))
  BY <1>1, <1>2, <1>3, <1>4, <1>5, DispatchAssumption
<1>7. Built(f).var = IF f.env # None THEN f.env ELSE IF f.exported # None THEN f.exported ELSE file
  BY DEF Built
<1>8. /\ HandedOver(f).path = Built(f).path
      /\ HandedOver(f).exported = IF f.exported = None /\ f.env = None THEN None ELSE Built(f).var
      /\ HandedOver(f).defaults = IF f.exported = None /\ f.env = None THEN Built(f).var ELSE None
  BY DEF HandedOver
<1> HIDE DEF f, file
<1>9. Built(f).var = IF EnvWithin(i) # None THEN EnvWithin(i)
                     ELSE IF process.var # None THEN process.var ELSE FileWithin(i)
  BY <1>2, <1>3, <1>6, <1>7
<1>10. /\ HandedOver(f).exported = IF EnvWithin(i) # None THEN EnvWithin(i) ELSE process.var
       /\ HandedOver(f).exported = None => HandedOver(f).defaults = FileWithin(i)
  BY <1>2, <1>3, <1>6, <1>7, <1>8
<1>11. HandedOver(f).exported \in {None} \cup FromEnv /\ HandedOver(f).defaults \in {None} \cup FromFile
  BY <1>1, <1>6, <1>7, <1>8
<1> QED BY <1>8, <1>9, <1>10, <1>11 DEF f

-----------------------------------------------------------------------------
(* The steps.                                                              *)

\* A frame is as it was handed when it was so, and nothing around it changes.
LEMMA HandedSame ==
  ASSUME NEW i \in Nat \ {0}, NEW f, preview' = preview, process' = process,
         \A j \in 1 .. i - 1 : frames'[j] = frames[j],
         f.exported = IF EnvWithin(i - 1) # None THEN EnvWithin(i - 1) ELSE process.var,
         f.exported = None => f.defaults = FileWithin(i - 1),
         Searches(f.path, i - 1),
         frames'[i].exported = f.exported, frames'[i].defaults = f.defaults, frames'[i].path = f.path
  PROVE  HandedTo(i)'
<1>1. i - 1 \in Nat
  OBVIOUS
<1>2. /\ EnvWithin(i - 1)' = EnvWithin(i - 1) /\ FileWithin(i - 1)' = FileWithin(i - 1)
      /\ \A j \in 0 .. i - 1 : Level(j)' = Level(j)
  BY <1>1, SaysSame
<1>3. {ToSet(Level(j)) : j \in 0 .. i - 1}' = {ToSet(Level(j)) : j \in 0 .. i - 1}
  BY <1>2
<1>4. \A d, e : AheadWithin(i - 1, d, e)' = AheadWithin(i - 1, d, e)
  <2>1. \A l \in 0 .. i - 1 : \A j \in l + 1 .. i - 1 : j \in 0 .. i - 1
    BY <1>1
  <2> QED BY <1>2, <2>1 DEF AheadWithin
<1>5. Searches(frames[i].path, i - 1)'
  BY <1>3, <1>4 DEF Searches
<1> QED BY <1>2, <1>5 DEF HandedTo

\* A frame is put on: the target is not one under way, and what it is handed is
\* what those under way say.
LEMMA PushKeeps ==
  ASSUME IInv, fixed' = fixed, catalog' = catalog,
         NEW called \in {t.name : t \in catalog}, \A i \in DOMAIN frames : frames[i].name # called,
         NEW h, h.exported \in {None} \cup FromEnv, h.defaults \in {None} \cup FromFile, h.path \in Seq(PathDirs),
         h.exported = IF EnvWithin(Len(frames)) # None THEN EnvWithin(Len(frames)) ELSE process.var,
         h.exported = None => h.defaults = FileWithin(Len(frames)),
         Searches(h.path, Len(frames)),
         frames' = Append(frames, Frame(called, h))
  PROVE  /\ frames' \in Seq(FrameType)' /\ NotInsideItself'
         /\ (\A i \in DOMAIN frames : HandedTo(i))' /\ frames' # <<>>
<1> DEFINE n == Len(frames)
           f == Frame(called, h)
<1>1. frames \in Seq(FrameType) /\ n \in Nat /\ DOMAIN frames = 1 .. n
  BY FrameTypes DEF IInv
<1>2. f \in FrameType
  <2>1. <<>> \in Seq(PathDirs) /\ <<>> \in Seq(FromFile)
    OBVIOUS
  <2> QED BY <2>1 DEF Frame, FrameType
<1>3. /\ f.exported = h.exported /\ f.defaults = h.defaults /\ f.path = h.path /\ f.name = called
  BY DEF Frame
<1>4. FrameType' = FrameType /\ preview' = preview /\ process' = process
  BY DEF fixed, FrameType
<1> HIDE DEF f
<1>5. /\ frames' = Append(frames, f) /\ Append(frames, f) \in Seq(FrameType)
      /\ DOMAIN Append(frames, f) = 1 .. n + 1 /\ Append(frames, f)[n + 1] = f
      /\ \A i \in 1 .. n : Append(frames, f)[i] = frames[i]
  <2>1. frames' = Append(frames, f)
    BY DEF f
  <2> QED BY <1>1, <1>2, <2>1
<1> HIDE DEF n
<1>6. /\ DOMAIN frames' = 1 .. n + 1 /\ frames'[n + 1] = f /\ \A i \in 1 .. n : frames'[i] = frames[i]
  BY <1>5
<1>7. frames' \in Seq(FrameType)' /\ frames' # <<>>
  <2>1. 1 \in DOMAIN frames' /\ DOMAIN <<>> = {}
    BY <1>1, <1>6
  <2> QED BY <1>4, <1>5, <2>1
<1>8. NotInsideItself'
  <2>1. NotInsideItself
    BY DEF IInv
  <2> QED BY <1>1, <1>3, <1>6, <2>1 DEF NotInsideItself
<1>9. ASSUME NEW i \in 1 .. n + 1
      PROVE  HandedTo(i)'
  <2>1. i \in Nat \ {0} /\ \A j \in 1 .. i - 1 : frames'[j] = frames[j]
    BY <1>1, <1>6
  <2>2. CASE i \in 1 .. n
    <3>1. HandedTo(i) /\ frames'[i] = frames[i]
      BY <1>1, <1>6, <2>2 DEF IInv
    <3> QED BY <1>4, <2>1, <3>1, HandedSame DEF HandedTo
  <2>3. CASE i = n + 1
    <3>1. i - 1 = n /\ frames'[i] = f
      BY <1>1, <1>6, <2>3
    <3>2. /\ f.exported = IF EnvWithin(n) # None THEN EnvWithin(n) ELSE process.var
          /\ f.exported = None => f.defaults = FileWithin(n)
          /\ Searches(f.path, n)
      BY <1>3 DEF n
    <3> QED BY <1>4, <2>1, <3>1, <3>2, HandedSame
  <2> QED BY <1>1, <2>2, <2>3
<1> QED BY <1>6, <1>7, <1>8, <1>9

\* The innermost target says more: what it was handed stays as it is.
LEMMA TopKeeps ==
  ASSUME IInv, fixed' = fixed, catalog' = catalog, frames # <<>>,
         NEW f \in FrameType, f.name = Top.name, f.exported = Top.exported, f.defaults = Top.defaults,
         f.path = Top.path, frames' = [frames EXCEPT ![Len(frames)] = f]
  PROVE  /\ frames' \in Seq(FrameType)' /\ NotInsideItself'
         /\ (\A i \in DOMAIN frames : HandedTo(i))' /\ frames' # <<>>
<1> DEFINE n == Len(frames)
<1>1. frames \in Seq(FrameType) /\ n \in Nat \ {0} /\ DOMAIN frames = 1 .. n
  <2>1. frames \in Seq(FrameType) /\ DOMAIN frames = 1 .. n
    BY FrameTypes DEF IInv
  <2> QED BY <2>1
<1>2. FrameType' = FrameType /\ preview' = preview /\ process' = process
  BY DEF fixed, FrameType
<1>3. /\ frames' \in Seq(FrameType) /\ DOMAIN frames' = 1 .. n /\ frames'[n] = f
      /\ \A i \in 1 .. n - 1 : frames'[i] = frames[i]
  <2>1. frames' = [frames EXCEPT ![n] = f]
    OBVIOUS
  <2> HIDE DEF n
  <2>2. \A i \in 1 .. n : frames[i] \in FrameType
    BY <1>1, FrameTypes DEF IInv, n
  <2>3. frames' = [i \in 1 .. n |-> IF i = n THEN f ELSE frames[i]]
    BY <1>1, <2>1
  <2>4. /\ DOMAIN frames' = 1 .. n /\ n \in 1 .. n /\ frames'[n] = f
        /\ \A i \in 1 .. n - 1 : i \in 1 .. n /\ frames'[i] = frames[i]
    BY <1>1, <2>3
  <2>5. frames' \in [1 .. n -> FrameType]
    BY <2>2, <2>3
  <2> QED BY <1>1, <2>4, <2>5
<1>4. /\ f.name = frames[n].name /\ f.exported = frames[n].exported
      /\ f.defaults = frames[n].defaults /\ f.path = frames[n].path
  BY DEF Top
<1> HIDE DEF n
<1>5. \A i \in 1 .. n : frames'[i].name = frames[i].name
  <2>1. \A i \in 1 .. n : i = n \/ i \in 1 .. n - 1
    BY <1>1
  <2> QED BY <1>3, <1>4, <2>1
<1>6. NotInsideItself'
  <2>1. NotInsideItself
    BY DEF IInv
  <2> QED BY <1>1, <1>3, <1>5, <2>1 DEF NotInsideItself
<1>7. ASSUME NEW i \in 1 .. n
      PROVE  HandedTo(i)'
  <2>1. i \in Nat \ {0} /\ \A j \in 1 .. i - 1 : frames'[j] = frames[j]
    BY <1>1, <1>3
  <2>2. HandedTo(i)
    BY <1>1 DEF IInv
  <2>3. /\ frames'[i].exported = frames[i].exported /\ frames'[i].defaults = frames[i].defaults
        /\ frames'[i].path = frames[i].path
    <3>1. i = n \/ i \in 1 .. n - 1
      BY <1>1
    <3> QED BY <1>3, <1>4, <3>1
  <2> QED BY <1>2, <2>1, <2>2, <2>3, HandedSame DEF HandedTo
<1>8. frames' # <<>>
  <2>1. n \in DOMAIN frames' /\ DOMAIN <<>> = {}
    BY <1>1, <1>3
  <2> QED BY <2>1
<1> QED BY <1>2, <1>3, <1>6, <1>7, <1>8

\* The innermost target is over: those it was inside of are as they were.
LEMMA PopKeeps ==
  ASSUME IInv, fixed' = fixed, catalog' = catalog, frames # <<>>, frames' = Front(frames)
  PROVE  /\ frames' \in Seq(FrameType)' /\ NotInsideItself' /\ (\A i \in DOMAIN frames : HandedTo(i))'
         /\ (Len(frames) = 1) = (frames' = <<>>)
<1> DEFINE n == Len(frames)
<1>1. frames \in Seq(FrameType) /\ n \in Nat \ {0} /\ DOMAIN frames = 1 .. n
  <2>1. frames \in Seq(FrameType) /\ DOMAIN frames = 1 .. n
    BY FrameTypes DEF IInv
  <2> QED BY <2>1
<1>2. FrameType' = FrameType /\ preview' = preview /\ process' = process
  BY DEF fixed, FrameType
<1>3. /\ frames' \in Seq(FrameType) /\ Len(frames') = n - 1 /\ DOMAIN frames' = 1 .. n - 1
      /\ \A i \in 1 .. n - 1 : frames'[i] = frames[i]
  <2>1. frames' = SubSeq(frames, 1, n - 1)
    BY DEF Front
  <2> QED BY <1>1, <2>1
<1> HIDE DEF n
<1>4. NotInsideItself'
  <2>1. NotInsideItself
    BY DEF IInv
  <2> QED BY <1>1, <1>3, <2>1 DEF NotInsideItself
<1>5. ASSUME NEW i \in 1 .. n - 1
      PROVE  HandedTo(i)'
  <2>1. i \in Nat \ {0} /\ i \in 1 .. n /\ \A j \in 1 .. i : frames'[j] = frames[j]
    BY <1>1, <1>3
  <2>2. HandedTo(i) /\ frames'[i] = frames[i]
    BY <1>1, <1>3, <2>1 DEF IInv
  <2> QED BY <1>2, <2>1, <2>2, HandedSame DEF HandedTo
<1>6. (n = 1) = (frames' = <<>>)
  <2>1. n = 1 => frames' = <<>>
    BY <1>3
  <2>2. n # 1 => frames' # <<>>
    <3>1. n # 1 => Len(frames') # 0
      BY <1>1, <1>3
    <3> QED BY <3>1
  <2> QED BY <2>1, <2>2
<1> QED BY <1>2, <1>3, <1>4, <1>5, <1>6 DEF n

LEMMA InitHolds == Init => IInv
<1> SUFFICES ASSUME Init
             PROVE  IInv
  OBVIOUS
<1>1. TypeOK
  <2>1. <<>> \in Seq(FrameType)
    OBVIOUS
  <2> QED BY <2>1, DispatchAssumption DEF Init, TypeOK
<1>2. DOMAIN frames = {}
  <2>1. DOMAIN <<>> = {}
    OBVIOUS
  <2> QED BY <2>1 DEF Init
<1> QED BY <1>1, <1>2 DEF IInv, NotInsideItself

\* run_with_chain puts on a target of the catalog that is not under way.
LEMMA EntersOne ==
  ASSUME NEW caller, NEW name, NEW h, Enters(caller, name, h)
  PROVE  \E called \in {t.name : t \in catalog} :
           frames' = Append(frames, Frame(called, h)) /\ \A i \in DOMAIN frames : frames[i].name # called
<1> DEFINE t == Resolve(catalog, caller, name)
           u == CHOOSE v \in t : TRUE
<1>1. /\ t # {} /\ \A v \in t, i \in DOMAIN frames : frames[i].name # v.name
      /\ frames' = Append(frames, Frame(u.name, h))
  BY DEF Enters, Chain
<1>2. t \subseteq catalog
  BY DEF Resolve, Named
<1>3. u \in t
  BY <1>1
<1> HIDE DEF t, u
<1> QED BY <1>1, <1>2, <1>3

\* A property of the innermost target.
LEMMA LineKeeps ==
  ASSUME IInv, Line, EnvFile \/ Env \/ AddPath
  PROVE  IInv'
<1>1. /\ fixed' = fixed /\ catalog' = catalog /\ status' = status /\ frames # <<>> /\ lines' \in 0 .. MaxLines
      /\ MaxLines \in Nat /\ lines \in 0 .. MaxLines
  BY DispatchAssumption DEF IInv, TypeOK, Line
<1>2. /\ Len(frames) \in DOMAIN frames /\ Len(frames) \in Nat /\ Top \in FrameType
  BY <1>1, FrameTypes DEF IInv, Top
<1>3. \E f \in FrameType :
        /\ f.name = Top.name /\ f.exported = Top.exported /\ f.defaults = Top.defaults /\ f.path = Top.path
        /\ frames' = [frames EXCEPT ![Len(frames)] = f]
  <2>1. CASE EnvFile
    <3> DEFINE f == [Top EXCEPT !["files"] = Append(Top.files, <<Len(frames), "file", Len(Top.files)>>)]
    <3>1. Append(Top.files, <<Len(frames), "file", Len(Top.files)>>) \in Seq(FromFile)
      BY <1>2 DEF FrameType, FromFile
    <3>2. f \in FrameType
      BY <1>2, <3>1 DEF FrameType
    <3>3. f.name = Top.name /\ f.exported = Top.exported /\ f.defaults = Top.defaults /\ f.path = Top.path
      BY <1>2 DEF FrameType
    <3>4. frames' = [frames EXCEPT ![Len(frames)] = f]
      BY <1>2, <2>1 DEF EnvFile, With, Top
    <3> QED BY <3>2, <3>3, <3>4
  <2>2. CASE Env
    <3> DEFINE f == [Top EXCEPT !["env"] = <<Len(frames), "env">>]
    <3>1. <<Len(frames), "env">> \in {None} \cup FromEnv
      BY <1>2 DEF FromEnv
    <3>2. f \in FrameType
      BY <1>2, <3>1 DEF FrameType
    <3>3. f.name = Top.name /\ f.exported = Top.exported /\ f.defaults = Top.defaults /\ f.path = Top.path
      BY <1>2 DEF FrameType
    <3>4. frames' = [frames EXCEPT ![Len(frames)] = f]
      BY <1>2, <2>2 DEF Env, With, Top
    <3> QED BY <3>2, <3>3, <3>4
  <2>3. CASE AddPath
    <3>1. PICK d \in PathDirs : frames' = [frames EXCEPT ![Len(frames)]["added"] = Append(Top.added, d)]
      BY <2>3 DEF AddPath, With
    <3> DEFINE f == [Top EXCEPT !["added"] = Append(Top.added, d)]
    <3>2. Append(Top.added, d) \in Seq(PathDirs)
      BY <1>2 DEF FrameType
    <3>3. f \in FrameType
      BY <1>2, <3>2 DEF FrameType
    <3>4. f.name = Top.name /\ f.exported = Top.exported /\ f.defaults = Top.defaults /\ f.path = Top.path
      BY <1>2 DEF FrameType
    <3>5. frames' = [frames EXCEPT ![Len(frames)] = f]
      BY <1>2, <3>1 DEF Top
    <3> QED BY <3>3, <3>4, <3>5
  <2> QED BY <2>1, <2>2, <2>3
<1>4. /\ frames' \in Seq(FrameType)' /\ NotInsideItself'
      /\ (\A i \in DOMAIN frames : HandedTo(i))' /\ frames' # <<>>
  BY <1>1, <1>3, TopKeeps
<1> QED BY <1>1, <1>4 DEF IInv, TypeOK, fixed, Line

LEMMA StartKeeps ==
  ASSUME IInv, NEW name \in Names, Start(name)
  PROVE  IInv'
<1>1. status = "found" /\ fixed' = fixed /\ catalog' = catalog /\ lines' = lines /\ frames = <<>>
  BY DEF Start, IInv, TypeOK
<1>2. CASE frames' = frames /\ status' = "failed"
  <2>1. FrameType' = FrameType
    BY <1>1 DEF FrameType
  <2>2. DOMAIN frames = {} /\ DOMAIN frames' = {}
    <3>1. DOMAIN <<>> = {}
      OBVIOUS
    <3> QED BY <1>1, <1>2, <3>1
  <2> QED BY <1>1, <1>2, <2>1, <2>2 DEF IInv, TypeOK, NotInsideItself, fixed
<1>3. CASE /\ status' = "running"
           /\ Enters(None, name, [exported |-> process.var, defaults |-> None, path |-> process.path])
  <2> DEFINE h == [exported |-> process.var, defaults |-> None, path |-> process.path]
  <2>1. PICK called \in {t.name : t \in catalog} :
          frames' = Append(frames, Frame(called, h)) /\ \A i \in DOMAIN frames : frames[i].name # called
    BY <1>3, EntersOne
  <2>2. EnvWithin(0) = None /\ FileWithin(0) = None /\ Len(frames) = 0
    BY <1>1, SaysMore
  <2>3. /\ h.exported \in {None} \cup FromEnv /\ h.defaults \in {None} \cup FromFile
        /\ h.path \in Seq(PathDirs)
    <3>1. process.var \in {None} \cup FromEnv
      BY DEF IInv, TypeOK, FromEnv
    <3> QED BY <3>1, FrameTypes DEF IInv
  <2>4. /\ h.exported = IF EnvWithin(Len(frames)) # None THEN EnvWithin(Len(frames)) ELSE process.var
        /\ h.exported = None => h.defaults = FileWithin(Len(frames))
    BY <2>2
  <2>5. Searches(h.path, Len(frames))
    <3>1. 0 .. 0 = {0} /\ Level(0) = h.path
      BY DEF Level
    <3>2. UNION {ToSet(Level(i)) : i \in 0 .. 0} = ToSet(h.path)
      BY <3>1
    <3>3. \A d, e : AheadWithin(0, d, e) => Ahead(h.path, d, e)
      BY <3>1 DEF AheadWithin
    <3> QED BY <2>2, <3>2, <3>3 DEF Searches
  <2> HIDE DEF h
  <2>6. /\ frames' \in Seq(FrameType)' /\ NotInsideItself'
        /\ (\A i \in DOMAIN frames : HandedTo(i))' /\ frames' # <<>>
    BY <1>1, <2>1, <2>3, <2>4, <2>5, PushKeeps
  <2> QED BY <1>1, <1>3, <2>6 DEF IInv, TypeOK, fixed
<1> QED BY <1>2, <1>3 DEF Start

LEMMA CallKeeps ==
  ASSUME IInv, NEW name \in Names, Call(name)
  PROVE  IInv'
<1>1. /\ fixed' = fixed /\ catalog' = catalog /\ status' = status /\ frames # <<>> /\ lines' \in 0 .. MaxLines
  BY DispatchAssumption DEF IInv, TypeOK, Line, Call
<1>2. CASE frames' = frames
  <2>1. FrameType' = FrameType /\ preview' = preview /\ process' = process
    BY <1>1 DEF FrameType, fixed
  <2>2. ASSUME NEW i \in DOMAIN frames
        PROVE  HandedTo(i)'
    <3>1. i \in Nat \ {0} /\ \A j \in 1 .. i : frames'[j] = frames[j]
      BY <1>2, FrameTypes DEF IInv
    <3>2. HandedTo(i) /\ frames'[i] = frames[i]
      BY <1>2 DEF IInv
    <3> QED BY <2>1, <3>1, <3>2, HandedSame DEF HandedTo
  <2> QED BY <1>1, <1>2, <2>1, <2>2 DEF IInv, TypeOK, NotInsideItself, fixed
<1>3. CASE Enters(Top.name, name, HandedOver(Top))
  <2> DEFINE h == HandedOver(Top)
  <2>1. PICK called \in {t.name : t \in catalog} :
          frames' = Append(frames, Frame(called, h)) /\ \A i \in DOMAIN frames : frames[i].name # called
    BY <1>3, EntersOne
  <2>2. Len(frames) \in DOMAIN frames /\ Top = frames[Len(frames)] /\ HandedTo(Len(frames)) /\ TypeOK
    BY <1>1, FrameTypes DEF IInv, Top
  <2>3. /\ h.exported = IF EnvWithin(Len(frames)) # None THEN EnvWithin(Len(frames)) ELSE process.var
        /\ h.exported = None => h.defaults = FileWithin(Len(frames))
        /\ h.exported \in {None} \cup FromEnv /\ h.defaults \in {None} \cup FromFile
        /\ h.path = Built(Top).path
    BY <2>2, BuiltSays
  <2>4. Searches(h.path, Len(frames)) /\ h.path \in Seq(PathDirs)
    BY <2>2, <2>3, BuiltSearches DEF HandedTo
  <2> HIDE DEF h
  <2>5. /\ frames' \in Seq(FrameType)' /\ NotInsideItself'
        /\ (\A i \in DOMAIN frames : HandedTo(i))' /\ frames' # <<>>
    BY <1>1, <2>1, <2>3, <2>4, PushKeeps
  <2> QED BY <1>1, <2>5 DEF IInv, TypeOK, fixed
<1> QED BY <1>2, <1>3 DEF Call

\* Every step of a run keeps the inductive invariant.
LEMMA StepKeeps == IInv /\ [Next]_vars => IInv'
<1> SUFFICES ASSUME IInv, [Next]_vars
             PROVE  IInv'
  OBVIOUS
<1>1. CASE Find
  <2>1. /\ status = "asked" /\ status' \in {"found", "failed"} /\ fixed' = fixed
        /\ lines' = lines /\ frames' = frames /\ frames = <<>>
    BY <1>1 DEF Find, IInv, TypeOK
  <2>2. DOMAIN frames' = {} /\ frames' \in Seq(FrameType)' /\ frames' = <<>>
    <3>1. DOMAIN <<>> = {} /\ \A S : <<>> \in Seq(S)
      OBVIOUS
    <3> QED BY <2>1, <3>1
  <2> QED BY <2>1, <2>2 DEF IInv, TypeOK, NotInsideItself, fixed
<1>2. CASE \E name \in Names : Start(name)
  BY <1>2, StartKeeps
<1>3. CASE \E name \in Names : Call(name)
  BY <1>3, CallKeeps
<1>4. CASE EnvFile \/ Env \/ AddPath
  BY <1>4, LineKeeps DEF EnvFile, Env, AddPath
<1>5. CASE Return
  <2>1. /\ status = "running" /\ fixed' = fixed /\ catalog' = catalog /\ lines' = lines /\ frames # <<>>
        /\ frames' = Front(frames) /\ status' = IF Len(frames) = 1 THEN "over" ELSE "running"
    BY <1>5 DEF Return, IInv, TypeOK
  <2>2. /\ frames' \in Seq(FrameType)' /\ NotInsideItself' /\ (\A i \in DOMAIN frames : HandedTo(i))'
        /\ (Len(frames) = 1) = (frames' = <<>>)
    BY <2>1, PopKeeps
  <2> QED BY <2>1, <2>2 DEF IInv, TypeOK, fixed
<1>6. CASE UNCHANGED vars
  <2>1. fixed' = fixed /\ catalog' = catalog /\ frames' = frames /\ status' = status /\ lines' = lines
    BY <1>6 DEF vars
  <2>2. FrameType' = FrameType /\ preview' = preview /\ process' = process
    BY <2>1 DEF FrameType, fixed
  <2>3. ASSUME NEW i \in DOMAIN frames
        PROVE  HandedTo(i)'
    <3>1. i \in Nat \ {0} /\ \A j \in 1 .. i : frames'[j] = frames[j]
      BY <2>1, FrameTypes DEF IInv
    <3>2. HandedTo(i) /\ frames'[i] = frames[i]
      BY <2>1 DEF IInv
    <3> QED BY <2>2, <3>1, <3>2, HandedSame DEF HandedTo
  <2> QED BY <2>1, <2>2, <2>3 DEF IInv, TypeOK, NotInsideItself, fixed
<1> QED BY <1>1, <1>2, <1>3, <1>4, <1>5, <1>6 DEF Next

LEMMA Inductive == Spec => []IInv
<1> QED BY InitHolds, StepKeeps, PTL DEF Spec

-----------------------------------------------------------------------------
(* The theorems.                                                           *)

\* Every value has the type its declaration gives it, and a target is under way
\* exactly while the run is.
THEOREM TypeCorrect == Spec => []TypeOK
<1>1. IInv => TypeOK
  BY DEF IInv
<1> QED BY <1>1, Inductive, PTL

\* No target is under way inside itself, whatever names it is called by and however
\* many targets there are (dispatch.rs, run_with_chain).
THEOREM NotInsideItselfAlways == Spec => []NotInsideItself
<1>1. IInv => NotInsideItself
  BY DEF IInv
<1> QED BY <1>1, Inductive, PTL

\* However deep a target is, what its programs see of the variable is the innermost
\* `.env`, then the shell's, then the innermost file, though it was handed over in two
\* halves at every call between (env.rs handed_over, runfile-env build_env).
THEOREM PrecedenceAlways == Spec => []Precedence
<1>1. ASSUME IInv, frames # <<>>
      PROVE  Len(frames) \in DOMAIN frames /\ Top = frames[Len(frames)]
  BY <1>1, FrameTypes DEF IInv, Top
<1>2. IInv => Precedence
  BY <1>1, BuiltSays DEF Precedence
<1> QED BY <1>2, Inductive, PTL

\* However deep a target is, PATH is searched as if the directories of every target
\* around it had only ever been added in front, the innermost first: moving one that
\* is there already loses none and puts none behind what it stood ahead of, unless
\* an inner target said so (runfile-env, apply_add_to_path).
THEOREM LookupOrderAlways == Spec => []LookupOrder
<1>1. ASSUME IInv, frames # <<>>
      PROVE  Len(frames) \in DOMAIN frames /\ Top = frames[Len(frames)] /\ TypeOK /\ HandedTo(Len(frames))
  BY <1>1, FrameTypes DEF IInv, Top
<1>2. IInv => LookupOrder
  BY <1>1, BuiltSearches DEF LookupOrder, HandedTo
<1> QED BY <1>2, Inductive, PTL

-----------------------------------------------------------------------------
(* Where a machine-wide target is offered.                                 *)

LEMMA StrictPrefixIs ==
  ASSUME NEW S, NEW s \in Seq(S), NEW t \in Seq(S)
  PROVE  Below(s, t) <=> Len(s) < Len(t) /\ \A i \in 1 .. Len(s) : s[i] = t[i]
<1> DEFINE m == Len(s)
           n == Len(t)
<1>1. m \in Nat /\ n \in Nat /\ SubSeq(s, 1, m) = s
  OBVIOUS
<1>2. m <= n => SubSeq(t, 1, m) \in Seq(S) /\ Len(SubSeq(t, 1, m)) = m /\ \A i \in 1 .. m : SubSeq(t, 1, m)[i] = t[i]
  BY <1>1
<1>3. m <= n => (s = SubSeq(t, 1, m) <=> \A i \in 1 .. m : s[i] = t[i])
  <2> SUFFICES ASSUME m <= n, \A i \in 1 .. m : s[i] = t[i]
               PROVE  s = SubSeq(t, 1, m)
    BY <1>2
  <2> QED BY <1>2, SeqEqual
<1>4. m = n => SubSeq(t, 1, m) = t
  BY <1>1
<1>5. Below(s, t) <=> m <= n /\ SubSeq(s, 1, m) = SubSeq(t, 1, m) /\ s # t
  BY DEF Below, IsStrictPrefix, IsPrefix
<1>6. s = t => m = n
  OBVIOUS
<1> HIDE DEF m, n
<1> QED BY <1>1, <1>3, <1>4, <1>5, <1>6 DEF m, n

\* Whether what a directory's `_shared.run` says lets a walk in.
Lets(scopes, d, here) == SharedIn(d) \notin DOMAIN scopes \/ Covers(scopes[SharedIn(d)], here)

\* The walk gets as far as a directory when every level on the way lets it in.
LEMMA WalkedIs ==
  ASSUME NEW scopes, NEW tree, NEW dir, NEW here,
         Len(tree.dir) \in Nat, Len(dir) \in Nat, Len(tree.dir) <= Len(dir)
  PROVE  Walked(scopes, tree, dir, here) <=>
           \A i \in Len(tree.dir) .. Len(dir) : Lets(scopes, SubSeq(dir, 1, i), here)
<1> DEFINE a == Len(tree.dir)
           b == Len(dir)
           ok(i) == Lets(scopes, SubSeq(dir, 1, i), here)
           Step(f, i) == (i = a \/ f[i - 1]) /\ ok(i)
           in == CHOOSE f : f = [i \in a .. b |-> Step(f, i)]
           all == [i \in a .. b |-> \A j \in a .. i : ok(j)]
<1>1. a \in Nat /\ b \in Nat /\ a <= b
  OBVIOUS
<1>2. Walked(scopes, tree, dir, here) = in[b]
  BY DEF Walked, Lets
<1> HIDE DEF a, b, ok
<1>3. ASSUME NEW i \in a .. b
      PROVE  all[i] = Step(all, i)
  <2>1. CASE i = a
    <3>1. a .. a = {a}
      BY <1>1
    <3>2. all[a] = (\A j \in a .. a : ok(j))
      BY <2>1
    <3>3. (\A j \in a .. a : ok(j)) <=> ok(a)
      BY <3>1
    <3> QED BY <2>1, <3>2, <3>3
  <2>2. CASE i # a
    <3>1. i - 1 \in a .. b /\ a .. i = (a .. i - 1) \cup {i}
      BY <1>1, <2>2
    <3>2. all[i - 1] = (\A j \in a .. i - 1 : ok(j)) /\ all[i] = (\A j \in a .. i : ok(j))
      BY <3>1
    <3> QED BY <2>2, <3>1, <3>2
  <2> QED BY <2>1, <2>2
<1>4. all = [i \in a .. b |-> Step(all, i)]
  <2> HIDE DEF Step
  <2>1. all = [i \in a .. b |-> all[i]]
    OBVIOUS
  <2> HIDE DEF all
  <2> QED BY <1>3, <2>1
<1>5. in = [i \in a .. b |-> Step(in, i)]
  <2> HIDE DEF all, Step
  <2> QED BY <1>4
<1>6. \A i \in a .. b : in[i] = Step(in, i)
  <2> HIDE DEF Step, in
  <2> QED BY <1>5
<1> HIDE DEF in, all
<1> DEFINE P == {k \in 0 .. b - a : in[a + k] <=> \A j \in a .. a + k : ok(j)}
<1>7. 0 \in P
  <2>1. a + 0 = a /\ a .. a = {a} /\ a \in a .. b /\ 0 \in 0 .. b - a
    BY <1>1
  <2>2. in[a] = ((a = a \/ in[a - 1]) /\ ok(a))
    BY <1>6, <2>1
  <2> QED BY <2>1, <2>2
<1>8. ASSUME NEW k \in 1 .. b - a, k - 1 \in P
      PROVE  k \in P
  <2>1. /\ k \in 0 .. b - a /\ a + k \in a .. b /\ a + k # a /\ (a + k) - 1 = a + (k - 1)
        /\ a .. a + k = (a .. a + (k - 1)) \cup {a + k}
    BY <1>1
  <2>2. in[a + k] = (in[a + (k - 1)] /\ ok(a + k))
    BY <1>6, <2>1
  <2>3. in[a + (k - 1)] <=> \A j \in a .. a + (k - 1) : ok(j)
    BY <1>8
  <2> QED BY <2>1, <2>2, <2>3
<1>9. b - a \in P
  <2> HIDE DEF P
  <2>1. b - a \in Nat /\ b - a \in 0 .. b - a
    BY <1>1
  <2>2. \A k \in 1 .. b - a : k - 1 \in P => k \in P
    BY <1>8
  <2>3. \A k \in 0 .. b - a : k \in P
    BY <1>7, <2>1, <2>2, UpTo
  <2> QED BY <2>1, <2>3
<1>10. a + (b - a) = b
  BY <1>1
<1> QED BY <1>2, <1>9, <1>10 DEF a, b, ok

LEMMA FrontIs ==
  ASSUME NEW S, NEW s \in Seq(S), Len(s) # 0
  PROVE  /\ Front(s) \in Seq(S) /\ Len(Front(s)) = Len(s) - 1
         /\ \A i \in 1 .. Len(s) - 1 : Front(s)[i] = s[i]
<1> DEFINE n == Len(s)
           r == Front(s)
<1>1. s \in Seq(S) /\ n \in Nat \ {0} /\ DOMAIN s = 1 .. n
  OBVIOUS
<1>2. r = SubSeq(s, 1, n - 1)
  BY DEF Front
<1> HIDE DEF r
<1>3. r \in Seq(S) /\ Len(r) = n - 1 /\ \A i \in 1 .. n - 1 : r[i] = s[i]
  BY <1>1, <1>2
<1> QED BY <1>3 DEF r

\* The record of a target is what the tree it was collected from makes it.
TargetOf(tree, f) == [name |-> NameOf(tree, f), path |-> f, anchor |-> tree.anchor, origin |-> tree.origin]

\* A file below one of the machine-wide directories.
MachineWide(S, h, g) ==
  /\ Home \in Seq(S) /\ h \in Seq(S) /\ Len(h) = Len(Home) + 1 /\ \A i \in 1 .. Len(Home) : h[i] = Home[i]
  /\ g \in Seq(S) /\ Below(h, g)

\* The levels the walk goes down through are those below the home directory.
LEMMA LevelsAre ==
  ASSUME NEW S, NEW h, NEW g, MachineWide(S, h, g)
  PROVE  /\ Len(h) \in Nat /\ Len(Dir(g)) \in Nat /\ Len(h) <= Len(Dir(g))
         /\ \A i \in 0 .. Len(Dir(g)) : Below(Home, SubSeq(Dir(g), 1, i)) <=> i \in Len(h) .. Len(Dir(g))
<1> DEFINE m == Len(Home)
           dir == Dir(g)
<1>0. /\ Home \in Seq(S) /\ h \in Seq(S) /\ g \in Seq(S) /\ Below(h, g)
      /\ Len(h) = Len(Home) + 1 /\ \A i \in 1 .. Len(Home) : h[i] = Home[i]
  BY DEF MachineWide
<1>1. Below(h, g) <=> Len(h) < Len(g) /\ \A i \in 1 .. Len(h) : h[i] = g[i]
  BY <1>0, StrictPrefixIs
<1>2. m \in Nat /\ Len(h) = m + 1 /\ \A i \in 1 .. m : h[i] = Home[i]
  BY <1>0
<1> HIDE DEF m, dir
<1>3. Len(h) < Len(g) /\ \A i \in 1 .. Len(h) : h[i] = g[i]
  BY <1>0, <1>1
<1>4. /\ dir \in Seq(S) /\ Len(dir) = Len(g) - 1 /\ Len(dir) \in Nat /\ m + 1 <= Len(dir)
      /\ \A i \in 1 .. m : dir[i] = Home[i]
  <2>1. Len(g) \in Nat /\ m + 1 < Len(g)
    BY <1>0, <1>2, <1>3
  <2>2. dir \in Seq(S) /\ Len(dir) = Len(g) - 1 /\ \A i \in 1 .. Len(g) - 1 : dir[i] = g[i]
    BY <1>0, <1>2, <2>1, FrontIs DEF Dir, dir
  <2>3. \A i \in 1 .. m : i \in 1 .. Len(h) /\ i \in 1 .. Len(g) - 1
    BY <1>2, <2>1
  <2> QED BY <1>2, <1>3, <2>1, <2>2, <2>3
<1>5. ASSUME NEW i \in 0 .. Len(dir)
      PROVE  Below(Home, SubSeq(dir, 1, i)) <=> i \in m + 1 .. Len(dir)
  <2> DEFINE sub == SubSeq(dir, 1, i)
  <2>1. sub \in Seq(S) /\ Len(sub) = i /\ \A j \in 1 .. i : sub[j] = dir[j]
    BY <1>4
  <2> HIDE DEF sub
  <2>2. Below(Home, sub) <=> Len(Home) < Len(sub) /\ \A j \in 1 .. Len(Home) : Home[j] = sub[j]
    BY <1>0, <2>1, StrictPrefixIs
  <2>3. m = Len(Home)
    BY DEF m
  <2>4. m < i => \A j \in 1 .. m : j \in 1 .. i
    BY <1>2
  <2>5. Below(Home, sub) <=> m < i
    BY <1>4, <2>1, <2>2, <2>3, <2>4
  <2>6. m < i <=> i \in m + 1 .. Len(dir)
    BY <1>2, <1>4
  <2> QED BY <2>5, <2>6 DEF sub
<1>6. m + 1 .. Len(dir) = Len(h) .. Len(dir) /\ Len(h) \in Nat /\ Len(h) <= Len(dir)
  BY <1>2, <1>4
<1> QED BY <1>4, <1>5, <1>6 DEF dir

LEMMA OfferedIn ==
  ASSUME NEW w \in Worlds, NEW here, NEW tree \in Trees(w.files, here)
  PROVE  Collected(w.files, w.scopes, tree, here, TRUE) =
           {t \in Collected(w.files, w.scopes, tree, here, FALSE) :
              t.origin = "global" =>
                \A f \in {t.path} \cup {SharedIn(d) : d \in SharedChain(w.files, t)} : Covers(w.scopes[f], here)}
<1> DEFINE Said(t) == \A f \in {t.path} \cup {SharedIn(d) : d \in SharedChain(w.files, t)} : Covers(w.scopes[f], here)
           Into(g) == Walked(w.scopes, tree, Dir(g), here) /\ Covers(w.scopes[g], here)
           there == {g \in w.files : Below(tree.dir, g) /\ Last(g) # Shared}
<1>1. /\ Collected(w.files, w.scopes, tree, here, TRUE) =
           {TargetOf(tree, g) : g \in {g \in there : tree.origin = "global" => Into(g)}}
      /\ Collected(w.files, w.scopes, tree, here, FALSE) = {TargetOf(tree, g) : g \in there}
  BY DEF Collected, TargetOf
<1>2. \A g : TargetOf(tree, g).origin = tree.origin /\ TargetOf(tree, g).path = g
  BY DEF TargetOf
<1>3. ASSUME tree.origin = "global", NEW g \in there
      PROVE  Into(g) <=> Said(TargetOf(tree, g))
  <2>1. \E n : tree.dir = Append(Home, n) /\ tree.anchor = Home
    BY <1>3 DEF Trees, Tree, GlobalDirs
  <2>2. PICK n : tree.dir = Append(Home, n) /\ tree.anchor = Home
    BY <2>1
  <2> DEFINE S == ToSet(Home) \cup {n} \cup ToSet(g)
  <2>3. DOMAIN w.scopes = w.files /\ g \in w.files /\ Below(tree.dir, g) /\ n \in S
    BY WorldsAssumption
  <2>4. Home \in Seq(S)
    <3>1. ToSet(Home) \subseteq S /\ Home \in Seq(ToSet(Home))
      BY WorldsAssumption
    <3> HIDE DEF S
    <3> QED BY <3>1, SeqMonotonic
  <2>5. g \in Seq(S)
    <3>1. ToSet(g) \subseteq S /\ g \in Seq(ToSet(g))
      BY WorldsAssumption
    <3> HIDE DEF S
    <3> QED BY <3>1, SeqMonotonic
  <2> HIDE DEF S
  <2>6. MachineWide(S, tree.dir, g) /\ tree.anchor = Home
    <3>1. /\ Append(Home, n) \in Seq(S) /\ Len(Append(Home, n)) = Len(Home) + 1
          /\ \A i \in 1 .. Len(Home) : Append(Home, n)[i] = Home[i]
      BY <2>3, <2>4
    <3> QED BY <2>2, <2>3, <2>4, <2>5, <3>1 DEF MachineWide
  <2> DEFINE h == tree.dir
             dir == Dir(g)
             sub(i) == SubSeq(dir, 1, i)
             levels == Len(h) .. Len(dir)
             every == 0 .. Len(dir)
             chain == SharedChain(w.files, TargetOf(tree, g))
  <2>7. /\ Len(h) \in Nat /\ Len(dir) \in Nat /\ Len(h) <= Len(dir)
        /\ \A i \in every : Below(Home, sub(i)) <=> i \in levels
    BY <2>6, LevelsAre
  <2>8. Walked(w.scopes, tree, dir, here) <=> \A i \in levels : Lets(w.scopes, sub(i), here)
    BY <2>7, WalkedIs
  <2>9. chain = {d \in {sub(i) : i \in every} : Below(Home, d) /\ SharedIn(d) \in w.files}
    BY <2>6 DEF TargetOf, SharedChain, AtOrAbove
  <2>10. levels \subseteq every
    BY <2>7
  <2>11. (\A i \in levels : Lets(w.scopes, sub(i), here)) <=> \A d \in chain : Covers(w.scopes[SharedIn(d)], here)
    <3> HIDE DEF dir, sub, levels, every, chain
    <3> QED BY <2>3, <2>7, <2>9, <2>10 DEF Lets
  <2>12. Into(g) <=> (\A i \in levels : Lets(w.scopes, sub(i), here)) /\ Covers(w.scopes[g], here)
    BY <2>8
  <2>13. Said(TargetOf(tree, g)) <=> Covers(w.scopes[g], here) /\ \A d \in chain : Covers(w.scopes[SharedIn(d)], here)
    <3> HIDE DEF chain
    <3> QED BY <1>2 DEF chain
  <2> HIDE DEF Into, Said, levels, sub, chain
  <2> QED BY <2>11, <2>12, <2>13
<1> HIDE DEF Said, Into, there
<1>4. {TargetOf(tree, g) : g \in {g \in there : tree.origin = "global" => Into(g)}}
        = {t \in {TargetOf(tree, g) : g \in there} : t.origin = "global" => Said(t)}
  BY <1>2, <1>3
<1>5. Collected(w.files, w.scopes, tree, here, TRUE)
        = {t \in Collected(w.files, w.scopes, tree, here, FALSE) : t.origin = "global" => Said(t)}
  BY <1>1, <1>4
<1> QED BY <1>5 DEF Said

\* What is discovered is what the trees hold.
FoundIs == status = "found" => catalog = Targets(world.files, world.scopes, from, TRUE)

LEMMA FoundHolds == Spec => [](FoundIs /\ world \in Worlds)
<1>1. Init => FoundIs /\ world \in Worlds
  BY DEF Init, FoundIs
<1>2. FoundIs /\ world \in Worlds /\ [Next]_vars => (FoundIs /\ world \in Worlds)'
  <2> SUFFICES ASSUME FoundIs, world \in Worlds, [Next]_vars
               PROVE  FoundIs' /\ (world \in Worlds)'
    OBVIOUS
  <2>1. CASE Find
    <3>1. Discover(world.files, world.scopes, from, TRUE).targets = Targets(world.files, world.scopes, from, TRUE)
      BY DEF Discover
    <3> QED BY <2>1, <3>1 DEF Find, FoundIs, fixed
  <2>2. CASE UNCHANGED vars
    BY <2>2 DEF vars, fixed, FoundIs
  <2>3. CASE Next /\ ~Find
    <3>1. fixed' = fixed /\ (status' # "found" \/ (status' = status /\ catalog' = catalog))
      BY <2>3 DEF Next, Start, Call, EnvFile, Env, AddPath, Return, Line
    <3> QED BY <3>1 DEF fixed, FoundIs
  <2> QED BY <2>1, <2>2, <2>3
<1> QED BY <1>1, <1>2, PTL DEF Spec

\* Whatever trees there are and wherever somebody stands, a machine-wide target is
\* offered exactly when it and every `_shared.run` above it say so: pruning on the way
\* down (lib.rs, walk_runs) is no more and no less than asking the whole chain.
THEOREM OfferedWhereSaidAlways == Spec => []OfferedWhereSaid
<1>1. ASSUME FoundIs, world \in Worlds, status = "found"
      PROVE  OfferedWhereSaid
  <2> DEFINE trees == Trees(world.files, from)
             Said(t) == t.origin = "global" =>
                          \A f \in {t.path} \cup {SharedIn(d) : d \in SharedChain(world.files, t)} :
                            Covers(world.scopes[f], from)
             run(tree) == Collected(world.files, world.scopes, tree, from, TRUE)
             lint(tree) == Collected(world.files, world.scopes, tree, from, FALSE)
  <2>1. \A tree \in trees : run(tree) = {t \in lint(tree) : Said(t)}
    BY <1>1, OfferedIn
  <2>2. catalog = UNION {run(tree) : tree \in trees}
    BY <1>1 DEF FoundIs, Targets
  <2>3. Targets(world.files, world.scopes, from, FALSE) = UNION {lint(tree) : tree \in trees}
    BY DEF Targets
  <2>4. OfferedWhereSaid <=> catalog = {t \in Targets(world.files, world.scopes, from, FALSE) : Said(t)}
    BY <1>1 DEF OfferedWhereSaid
  <2> HIDE DEF trees, Said, run, lint
  <2>5. ASSUME NEW t
        PROVE  t \in catalog <=> t \in Targets(world.files, world.scopes, from, FALSE) /\ Said(t)
    <3>1. t \in catalog <=> \E tree \in trees : t \in run(tree)
      BY <2>2
    <3>2. t \in Targets(world.files, world.scopes, from, FALSE) <=> \E tree \in trees : t \in lint(tree)
      BY <2>3
    <3> QED BY <2>1, <3>1, <3>2
  <2> QED BY <2>4, <2>5
<1>2. FoundIs /\ world \in Worlds => OfferedWhereSaid
  BY <1>1 DEF OfferedWhereSaid
<1> QED BY <1>2, FoundHolds, PTL

-----------------------------------------------------------------------------
(* What an editor says of a project's file.                                *)

\* What comes below a prefix, and a prefix of a prefix.
LEMMA Rest ==
  ASSUME NEW S, NEW p \in Seq(S), NEW n \in Seq(S)
  PROVE  /\ p \o n \in Seq(S) /\ SubSeq(p \o n, Len(p) + 1, Len(p \o n)) = n
         /\ n # <<>> => Below(p, p \o n)
         /\ Below(p, n) => p \o SubSeq(n, Len(p) + 1, Len(n)) = n
<1> DEFINE k == Len(p)
           l == Len(n)
           r == p \o n
<1>1. k \in Nat /\ l \in Nat /\ p \in Seq(S) /\ n \in Seq(S) /\ DOMAIN p = 1 .. k /\ DOMAIN n = 1 .. l
  OBVIOUS
<1>2. /\ r \in Seq(S) /\ Len(r) = k + l
      /\ \A i \in 1 .. k : r[i] = p[i]
      /\ \A i \in 1 .. l : r[k + i] = n[i]
  BY <1>1
<1>3. Below(p, n) <=> k < l /\ \A i \in 1 .. k : p[i] = n[i]
  BY StrictPrefixIs
<1>4. Below(p, r) <=> k < Len(r) /\ \A i \in 1 .. k : p[i] = r[i]
  BY <1>2, StrictPrefixIs
<1> HIDE DEF k, l, r
<1>5. SubSeq(r, k + 1, Len(r)) = n
  <2> DEFINE q == SubSeq(r, k + 1, k + l)
  <2>1. q \in Seq(S) /\ Len(q) = l /\ \A i \in 1 .. l : q[i] = r[k + i]
    <3>1. \A i \in k + 1 .. k + l : r[i] \in S
      <4>1. \A i \in k + 1 .. k + l : i - k \in 1 .. l /\ i = k + (i - k) /\ i \in 1 .. Len(r)
        BY <1>1, <1>2
      <4> QED BY <1>2, <4>1
    <3>2. /\ q \in Seq(S) /\ Len(q) = (IF k + 1 <= k + l THEN k + l - (k + 1) + 1 ELSE 0)
          /\ \A i \in 1 .. k + l - (k + 1) + 1 : q[i] = r[k + 1 + i - 1]
      BY <1>1, <3>1, SubSeqProperties
    <3>3. Len(q) = l
      BY <1>1, <3>2
    <3>4. ASSUME NEW i \in 1 .. l
          PROVE  q[i] = r[k + i]
      <4>1. i \in 1 .. k + l - (k + 1) + 1 /\ k + 1 + i - 1 = k + i
        BY <1>1
      <4> QED BY <3>2, <4>1
    <3> QED BY <3>2, <3>3, <3>4
  <2> HIDE DEF q
  <2>2. q = n
    BY <1>1, <1>2, <2>1, SeqEqual DEF l
  <2> QED BY <1>2, <2>2 DEF q
<1>6. n # <<>> => l # 0
  BY <1>1 DEF l
<1>7. n # <<>> => Below(p, r)
  BY <1>1, <1>2, <1>4, <1>6
<1>8. ASSUME Below(p, n)
      PROVE  p \o SubSeq(n, k + 1, l) = n
  <2> DEFINE q == SubSeq(n, k + 1, l)
             s == p \o q
  <2>1. k < l /\ \A i \in 1 .. k : p[i] = n[i]
    BY <1>3, <1>8
  <2>2. q \in Seq(S) /\ Len(q) = l - k /\ \A i \in 1 .. l - k : q[i] = n[k + i]
    <3>1. \A i \in k + 1 .. l : n[i] \in S
      <4>1. \A i \in k + 1 .. l : i \in 1 .. l
        BY <1>1
      <4> QED BY <1>1, <4>1
    <3>2. /\ q \in Seq(S) /\ Len(q) = (IF k + 1 <= l THEN l - (k + 1) + 1 ELSE 0)
          /\ \A i \in 1 .. l - (k + 1) + 1 : q[i] = n[k + 1 + i - 1]
      BY <1>1, <3>1, SubSeqProperties
    <3>3. Len(q) = l - k
      BY <1>1, <2>1, <3>2
    <3>4. ASSUME NEW i \in 1 .. l - k
          PROVE  q[i] = n[k + i]
      <4>1. i \in 1 .. l - (k + 1) + 1 /\ k + 1 + i - 1 = k + i
        BY <1>1
      <4> QED BY <3>2, <4>1
    <3> QED BY <3>2, <3>3, <3>4
  <2> HIDE DEF q
  <2>3. /\ s \in Seq(S) /\ Len(s) = k + (l - k)
        /\ \A i \in 1 .. k : s[i] = p[i]
        /\ \A i \in 1 .. l - k : s[k + i] = q[i]
    BY <1>1, <2>2 DEF k
  <2> HIDE DEF s
  <2>4. Len(s) = l /\ \A i \in 1 .. l : i \in 1 .. k \/ (i - k \in 1 .. l - k /\ i = k + (i - k))
    BY <1>1, <2>1, <2>3
  <2>5. \A i \in 1 .. l : s[i] = n[i]
    BY <2>1, <2>2, <2>3, <2>4
  <2>6. s = n
    BY <1>1, <2>3, <2>4, <2>5, SeqEqual DEF l
  <2> QED BY <2>6 DEF s, q
<1> QED BY <1>2, <1>5, <1>7, <1>8 DEF k, l, r

\* What stands above a file: every prefix of it but itself.
LEMMA AboveIs ==
  ASSUME NEW S, NEW x \in Seq(S), Len(x) # 0
  PROVE  /\ AtOrAbove(Dir(x)) \subseteq Seq(S)
         /\ \A e \in Seq(S) : e \in AtOrAbove(Dir(x)) <=> Below(e, x)
<1> DEFINE n == Len(x)
           y == Dir(x)
<1>1. n \in Nat \ {0} /\ x \in Seq(S)
  OBVIOUS
<1>2. y \in Seq(S) /\ Len(y) = n - 1 /\ \A i \in 1 .. n - 1 : y[i] = x[i]
  BY FrontIs DEF Dir
<1> HIDE DEF y
<1>3. ASSUME NEW i \in 0 .. n - 1
      PROVE  /\ SubSeq(y, 1, i) \in Seq(S) /\ Len(SubSeq(y, 1, i)) = i
             /\ \A j \in 1 .. i : SubSeq(y, 1, i)[j] = x[j]
  <2>1. SubSeq(y, 1, i) \in Seq(S) /\ Len(SubSeq(y, 1, i)) = i /\ \A j \in 1 .. i : SubSeq(y, 1, i)[j] = y[j]
    BY <1>1, <1>2
  <2>2. \A j \in 1 .. i : j \in 1 .. n - 1
    BY <1>1
  <2> QED BY <1>2, <2>1, <2>2
<1>4. AtOrAbove(y) = {SubSeq(y, 1, i) : i \in 0 .. n - 1}
  BY <1>2 DEF AtOrAbove
<1>5. ASSUME NEW e \in Seq(S)
      PROVE  e \in AtOrAbove(y) <=> Below(e, x)
  <2>1. Below(e, x) <=> Len(e) < n /\ \A i \in 1 .. Len(e) : e[i] = x[i]
    BY <1>1, StrictPrefixIs
  <2>2. Len(e) \in Nat
    OBVIOUS
  <2> HIDE DEF n
  <2>3. ASSUME e \in AtOrAbove(y)
        PROVE  Below(e, x)
    <3>1. PICK i \in 0 .. n - 1 : e = SubSeq(y, 1, i)
      BY <1>4, <2>3
    <3>2. Len(e) = i /\ \A j \in 1 .. i : e[j] = x[j]
      BY <1>3, <3>1
    <3> QED BY <1>1, <2>1, <3>2
  <2>4. ASSUME Below(e, x)
        PROVE  e \in AtOrAbove(y)
    <3>1. Len(e) \in 0 .. n - 1
      BY <1>1, <2>1, <2>2, <2>4
    <3> DEFINE q == SubSeq(y, 1, Len(e))
    <3>2. q \in Seq(S) /\ Len(q) = Len(e) /\ \A j \in 1 .. Len(e) : q[j] = x[j]
      BY <1>3, <3>1
    <3> HIDE DEF q
    <3>3. e = q
      BY <2>1, <2>4, <3>2, SeqEqual
    <3> QED BY <1>4, <3>1, <3>3 DEF q
  <2> QED BY <2>3, <2>4
<1> QED BY <1>3, <1>4, <1>5 DEF y

LEMMA BelowBelow ==
  ASSUME NEW S, NEW a \in Seq(S), NEW b \in Seq(S), NEW c \in Seq(S), Below(a, b), Below(b, c)
  PROVE  Below(a, c)
<1>1. Len(a) < Len(b) /\ \A i \in 1 .. Len(a) : a[i] = b[i]
  BY StrictPrefixIs
<1>2. Len(b) < Len(c) /\ \A i \in 1 .. Len(b) : b[i] = c[i]
  BY StrictPrefixIs
<1>3. Len(a) \in Nat /\ Len(b) \in Nat /\ Len(c) \in Nat
  OBVIOUS
<1>4. Len(a) < Len(c) /\ \A i \in 1 .. Len(a) : i \in 1 .. Len(b)
  BY <1>1, <1>2, <1>3
<1>5. \A i \in 1 .. Len(a) : a[i] = c[i]
  BY <1>1, <1>2, <1>4
<1>6. Below(a, c) <=> Len(a) < Len(c) /\ \A i \in 1 .. Len(a) : a[i] = c[i]
  BY StrictPrefixIs
<1> QED BY <1>4, <1>5, <1>6

\* Whatever is below a directory below another is below that one too.
LEMMA BelowBoth ==
  ASSUME NEW S, NEW r \in Seq(S), NEW d \in Seq(S), NEW x \in Seq(S), NEW y \in Seq(S),
         Len(r) <= Len(d), Below(r, x), Below(d, x), Below(d, y)
  PROVE  Below(r, y)
<1>1. Len(r) \in Nat /\ Len(d) \in Nat /\ Len(x) \in Nat /\ Len(y) \in Nat
  OBVIOUS
<1>2. \A i \in 1 .. Len(r) : r[i] = x[i]
  BY StrictPrefixIs
<1>3. \A i \in 1 .. Len(d) : d[i] = x[i]
  BY StrictPrefixIs
<1>4. Len(d) < Len(y) /\ \A i \in 1 .. Len(d) : d[i] = y[i]
  BY StrictPrefixIs
<1>5. Len(r) < Len(y) /\ \A i \in 1 .. Len(r) : i \in 1 .. Len(d)
  BY <1>1, <1>4
<1>6. \A i \in 1 .. Len(r) : r[i] = y[i]
  BY <1>2, <1>3, <1>4, <1>5
<1> QED BY <1>5, <1>6, StrictPrefixIs

\* The project somebody stands in is where they stand or above.
LEMMA UpwardIn ==
  ASSUME NEW S, NEW d \in Seq(S), NEW files
  PROVE  FindUpward(files, d) = None \/ FindUpward(files, d) \in AtOrAbove(d)
<1> DEFINE found == {e \in AtOrAbove(d) : e # Home /\ Exists(files, Runfiles(e))}
           W == {Len(e) + 1 : e \in found}
           m == CHOOSE i \in W : \A j \in W : j <= i
<1>1. \A e \in found : Len(e) + 1 \in 1 .. Len(d) + 1 /\ Len(e) \in Nat
  <2>1. \A i \in 0 .. Len(d) : Len(SubSeq(d, 1, i)) = i
    OBVIOUS
  <2>2. \A e \in found : \E i \in 0 .. Len(d) : e = SubSeq(d, 1, i)
    BY DEF AtOrAbove
  <2> HIDE DEF found
  <2> QED BY <2>1, <2>2
<1>2. CASE found # {}
  <2>1. Len(d) + 1 \in Nat /\ W \in SUBSET (1 .. Len(d) + 1) /\ W # {}
    <3> HIDE DEF found
    <3> QED BY <1>1, <1>2
  <2>2. m \in W /\ \A k \in W : k <= m
    <3> HIDE DEF W
    <3> QED BY <2>1, Greatest
  <2>3. \E e \in found : \A u \in found : Len(u) <= Len(e)
    <3> HIDE DEF found, m
    <3>1. PICK e \in found : m = Len(e) + 1
      BY <2>2
    <3>2. \A u \in found : Len(u) + 1 <= Len(e) + 1
      BY <2>2, <3>1
    <3> QED BY <1>1, <3>2
  <2>4. FindUpward(files, d) = CHOOSE e \in found : \A u \in found : Len(u) <= Len(e)
    BY <1>2 DEF FindUpward
  <2>5. FindUpward(files, d) \in found
    <3> HIDE DEF found
    <3> QED BY <2>3, <2>4
  <2> QED BY <2>5
<1>3. CASE found = {}
  BY <1>3 DEF FindUpward
<1> QED BY <1>2, <1>3

LEMMA PartsAre ==
  ASSUME NEW w \in Worlds
  PROVE  /\ Home \in Seq(Parts(w)) /\ GlobalNames \subseteq Parts(w) /\ "runfiles" \in Parts(w)
         /\ \A f \in w.files : f \in Seq(Parts(w)) /\ f # <<>>
         /\ \A n \in Names : n \in Seq(Parts(w)) /\ n # <<>>
<1> DEFINE S == Parts(w)
<1>1. ToSet(Home) \subseteq S /\ GlobalNames \subseteq S /\ "runfiles" \in GlobalNames
  BY DEF Parts, GlobalNames
<1>2. \A f \in w.files : ToSet(f) \subseteq S
  BY DEF Parts
<1>3. \A n \in Names : ToSet(n) \subseteq S
  BY DEF Parts
<1> HIDE DEF S
<1>4. Home \in Seq(S)
  BY <1>1, WorldsAssumption, SeqMonotonic
<1>5. ASSUME NEW f \in w.files
      PROVE  f \in Seq(S) /\ f # <<>>
  <2>1. f \in Seq(ToSet(f)) /\ f # <<>>
    BY WorldsAssumption
  <2> QED BY <1>2, <2>1, SeqMonotonic
<1>6. ASSUME NEW n \in Names
      PROVE  n \in Seq(S) /\ n # <<>>
  <2>1. n \in Seq(ToSet(n)) /\ n # <<>>
    BY WorldsAssumption
  <2> QED BY <1>3, <2>1, SeqMonotonic
<1> QED BY <1>1, <1>4, <1>5, <1>6 DEF S

\* The trees of a project, and the targets in them, whoever asks and from wherever.
Rooted(files, root) ==
  (IF root = None THEN {}
   ELSE {Tree(Runfiles(root), root, <<>>, "local")}
        \cup {Tree(Runfiles(p), p, <<Last(p)>>, "included") : p \in Subprojects(files, root)})
  \cup {Tree(g, Home, <<>>, "global") : g \in GlobalDirs(files)}
Holds(tree, g) == Below(tree.dir, g) /\ Last(g) # Shared
Seen(files, root) ==
  UNION {{TargetOf(tree, g) : g \in {g \in files : Holds(tree, g)}} : tree \in Rooted(files, root)}

LEMMA SeenIs ==
  ASSUME NEW files, NEW scopes, NEW here
  PROVE  Targets(files, scopes, here, FALSE) = Seen(files, FindUpward(files, here))
<1> DEFINE trees == Rooted(files, FindUpward(files, here))
<1>1. Trees(files, here) = trees
  BY DEF Trees, Rooted
<1>2. \A tree : Collected(files, scopes, tree, here, FALSE) =
                  {TargetOf(tree, g) : g \in {g \in files : Holds(tree, g)}}
  BY DEF Collected, TargetOf, Holds
<1>3. Targets(files, scopes, here, FALSE) = UNION {Collected(files, scopes, tree, here, FALSE) : tree \in trees}
  BY <1>1 DEF Targets
<1>4. Seen(files, FindUpward(files, here)) =
        UNION {{TargetOf(tree, g) : g \in {g \in files : Holds(tree, g)}} : tree \in trees}
  BY DEF Seen
<1> DEFINE of(tree) == {TargetOf(tree, g) : g \in {g \in files : Holds(tree, g)}}
           col(tree) == Collected(files, scopes, tree, here, FALSE)
<1>5. UNION {col(tree) : tree \in trees} = UNION {of(tree) : tree \in trees}
  <2>1. \A tree : col(tree) = of(tree)
    BY <1>2
  <2> HIDE DEF trees, of, col
  <2> QED BY <2>1
<1> QED BY <1>3, <1>4, <1>5

LEMMA SeenOne ==
  ASSUME NEW files, NEW root, NEW u
  PROVE  u \in Seen(files, root) <=>
           \E tree \in Rooted(files, root), g \in files : Holds(tree, g) /\ u = TargetOf(tree, g)
BY DEF Seen

\* Where a tree is, and what it puts in front of a name.
LEMMA RootedTypes ==
  ASSUME NEW w \in Worlds, NEW root \in Seq(Parts(w)), NEW tree \in Rooted(w.files, root)
  PROVE  /\ tree.dir \in Seq(Parts(w)) /\ tree.prefix \in Seq(Parts(w))
         /\ tree.origin = "local" => tree.anchor = root /\ tree.dir = Runfiles(root)
<1> DEFINE S == Parts(w)
<1>1. /\ Home \in Seq(S) /\ GlobalNames \subseteq S /\ "runfiles" \in S
      /\ \A f \in w.files : f \in Seq(S)
  BY PartsAre
<1> HIDE DEF S
<1>2. root \in Seq(S)
  BY DEF S
<1>3. CASE tree = Tree(Runfiles(root), root, <<>>, "local")
  <2>1. Append(root, "runfiles") \in Seq(S) /\ <<>> \in Seq(S)
    BY <1>1, <1>2
  <2> QED BY <1>3, <2>1 DEF Tree, Runfiles, S
<1>4. ASSUME NEW p \in Subprojects(w.files, root), tree = Tree(Runfiles(p), p, <<Last(p)>>, "included")
      PROVE  tree.dir \in Seq(S) /\ tree.prefix \in Seq(S) /\ tree.origin # "local"
  <2>1. \E f \in w.files : p \in AtOrAbove(f)
    BY DEF Subprojects
  <2>2. PICK f \in w.files : p \in AtOrAbove(f)
    BY <2>1
  <2>3. f \in Seq(S)
    BY <1>1
  <2>4. PICK i \in 0 .. Len(f) : p = SubSeq(f, 1, i)
    BY <2>2 DEF AtOrAbove
  <2>5. p \in Seq(S)
    BY <2>3, <2>4
  <2>6. Below(root, p)
    BY DEF Subprojects
  <2>7. Len(root) < Len(p) /\ Len(root) \in Nat /\ Len(p) \in Nat
    BY <1>2, <2>5, <2>6, StrictPrefixIs
  <2>8. Last(p) \in S /\ Append(p, "runfiles") \in Seq(S)
    BY <1>1, <2>5, <2>7 DEF Last
  <2>9. <<Last(p)>> \in Seq(S)
    BY <2>8
  <2> QED BY <1>4, <2>8, <2>9 DEF Tree, Runfiles
<1>5. ASSUME NEW g \in GlobalDirs(w.files), tree = Tree(g, Home, <<>>, "global")
      PROVE  tree.dir \in Seq(S) /\ tree.prefix \in Seq(S) /\ tree.origin # "local"
  <2>1. \E n \in GlobalNames : g = Append(Home, n)
    BY DEF GlobalDirs
  <2>2. g \in Seq(S) /\ <<>> \in Seq(S)
    BY <1>1, <2>1
  <2> QED BY <1>5, <2>2 DEF Tree
<1>6. \/ tree = Tree(Runfiles(root), root, <<>>, "local")
      \/ \E p \in Subprojects(w.files, root) : tree = Tree(Runfiles(p), p, <<Last(p)>>, "included")
      \/ \E g \in GlobalDirs(w.files) : tree = Tree(g, Home, <<>>, "global")
  BY DEF Rooted
<1> QED BY <1>3, <1>4, <1>5, <1>6 DEF S

LEMMA SeenTypes ==
  ASSUME NEW w \in Worlds, NEW root \in Seq(Parts(w)), NEW u \in Seen(w.files, root)
  PROVE  /\ u.path \in w.files /\ u.path \in Seq(Parts(w)) /\ u.path # <<>> /\ Last(u.path) # Shared
         /\ u.name \in Seq(Parts(w))
         /\ u.origin = "local" => u.anchor = root /\ Below(Runfiles(root), u.path)
<1> DEFINE S == Parts(w)
<1>1. PICK tree \in Rooted(w.files, root), g \in w.files : Holds(tree, g) /\ u = TargetOf(tree, g)
  BY SeenOne
<1>2. /\ tree.dir \in Seq(S) /\ tree.prefix \in Seq(S)
      /\ tree.origin = "local" => tree.anchor = root /\ tree.dir = Runfiles(root)
  BY RootedTypes
<1>3. g \in Seq(S) /\ g # <<>>
  BY PartsAre
<1>4. u.path = g /\ u.name = NameOf(tree, g) /\ u.anchor = tree.anchor /\ u.origin = tree.origin
  BY <1>1 DEF TargetOf
<1>5. Below(tree.dir, g) /\ Last(g) # Shared
  BY <1>1 DEF Holds
<1> HIDE DEF S
<1>6. NameOf(tree, g) \in Seq(S)
  <2> DEFINE k == Len(tree.dir)
  <2>1. k < Len(g) /\ k \in Nat /\ Len(g) \in Nat
    BY <1>2, <1>3, <1>5, StrictPrefixIs
  <2> HIDE DEF k
  <2>2. \A i \in k + 1 .. Len(g) : g[i] \in S
    BY <1>3, <2>1
  <2>3. SubSeq(g, k + 1, Len(g)) \in Seq(S)
    BY <1>3, <2>1, <2>2, SubSeqProperties
  <2> QED BY <1>2, <2>3 DEF NameOf, k
<1> QED BY <1>2, <1>3, <1>4, <1>5, <1>6 DEF S

\* To an editor that places a file where the run does, there is all the run has.
LEMMA Placed ==
  ASSUME FoundIs, world \in Worlds, status = "found",
         NEW t \in catalog, t.origin = "local", Understood(t)
  PROVE  /\ t.anchor \in Seq(Parts(world))
         /\ Editors(t).targets = Seen(world.files, t.anchor)
         /\ catalog \subseteq Seen(world.files, t.anchor)
<1> DEFINE S == Parts(world)
           root == FindUpward(world.files, from)
           run(tree) == Collected(world.files, world.scopes, tree, from, TRUE)
           all(tree) == Collected(world.files, world.scopes, tree, from, FALSE)
           trees == Trees(world.files, from)
<1>1. catalog \subseteq Seen(world.files, root)
  <2>1. \A tree : run(tree) \subseteq all(tree)
    BY DEF Collected
  <2>2. catalog = UNION {run(tree) : tree \in trees}
    BY DEF FoundIs, Targets
  <2>3. Targets(world.files, world.scopes, from, FALSE) = UNION {all(tree) : tree \in trees}
    BY DEF Targets
  <2>4. Targets(world.files, world.scopes, from, FALSE) = Seen(world.files, root)
    BY SeenIs
  <2> HIDE DEF run, all, trees, root
  <2> QED BY <2>1, <2>2, <2>3, <2>4
<1>2. PICK tree \in Rooted(world.files, root), g \in world.files : Holds(tree, g) /\ t = TargetOf(tree, g)
  BY <1>1, SeenOne
<1>3. t.path = g /\ t.anchor = tree.anchor /\ tree.origin = "local"
  BY <1>2 DEF TargetOf
<1>4. root # None /\ t.anchor = root
  BY <1>3 DEF Rooted, Tree
<1>5. FindUpward(world.files, Dir(t.path)) = root
  BY <1>4 DEF Understood
<1>6. t.path \in Seq(S) /\ Len(t.path) # 0
  BY <1>3, PartsAre
<1> HIDE DEF root, S
<1>7. Dir(t.path) \in Seq(S) /\ AtOrAbove(Dir(t.path)) \subseteq Seq(S)
  BY <1>6, FrontIs, AboveIs DEF Dir
<1>8. root \in Seq(S)
  BY <1>4, <1>5, <1>7, UpwardIn
<1>9. Editors(t).targets = Targets(world.files, world.scopes, Dir(t.path), FALSE)
  BY DEF Editors, Discover
<1>10. Targets(world.files, world.scopes, Dir(t.path), FALSE) = Seen(world.files, root)
  BY <1>5, SeenIs
<1> QED BY <1>1, <1>4, <1>8, <1>9, <1>10 DEF S

\* What TargetNames takes off a name is what Resolve puts back.
LEMMA NamesAgree ==
  ASSUME NEW w \in Worlds, NEW root \in Seq(Parts(w)), NEW some \in SUBSET Seen(w.files, root),
         NEW t \in some, \A u \in Seen(w.files, root) : u.path = t.path => u = t, NEW n \in Names
  PROVE  /\ Resolve(some, t.name, n) # {} => n \in TargetNames(Seen(w.files, root), t.path)
         /\ n \in TargetNames(Seen(w.files, root), t.path) => Resolve(Seen(w.files, root), t.name, n) # {}
<1> DEFINE S == Parts(w)
           E == Seen(w.files, root)
           P == PrefixOf(t.name)
           Bare(v) == SubSeq(v.name, Len(P) + 1, Len(v.name))
<1>1. \A v \in E : v.name \in Seq(S)
  BY SeenTypes
<1>2. n \in Seq(S) /\ n # <<>>
  BY PartsAre
<1>3. \A u \in E : u.path = t.path <=> u = t
  OBVIOUS
<1>4. TargetNames(E, t.path) =
        {v.name : v \in E} \cup UNION {{SubSeq(v.name, Len(PrefixOf(u.name)) + 1, Len(v.name)) :
            v \in {v \in E : PrefixOf(u.name) # <<>> /\ Below(PrefixOf(u.name), v.name)}} :
            u \in {v \in E : v.path = t.path}}
  BY DEF TargetNames, Below
<1> HIDE DEF E, S
<1>5. t \in E /\ some \subseteq E
  BY DEF E
<1>6. {v \in E : v.path = t.path} = {t}
  BY <1>3, <1>5
<1>7. TargetNames(E, t.path) =
        {v.name : v \in E} \cup {Bare(v) : v \in {v \in E : P # <<>> /\ Below(P, v.name)}}
  <2> DEFINE siblings(u) == {SubSeq(v.name, Len(PrefixOf(u.name)) + 1, Len(v.name)) :
                               v \in {v \in E : PrefixOf(u.name) # <<>> /\ Below(PrefixOf(u.name), v.name)}}
  <2>1. TargetNames(E, t.path) = {v.name : v \in E} \cup UNION {siblings(u) : u \in {t}}
    BY <1>4, <1>6
  <2>2. siblings(t) = {Bare(v) : v \in {v \in E : P # <<>> /\ Below(P, v.name)}}
    OBVIOUS
  <2> HIDE DEF siblings, Bare, P
  <2>3. UNION {siblings(u) : u \in {t}} = siblings(t)
    OBVIOUS
  <2> QED BY <2>1, <2>2, <2>3
<1>8. n \in TargetNames(E, t.path) <=>
        \/ \E v \in E : n = v.name
        \/ \E v \in E : P # <<>> /\ Below(P, v.name) /\ n = Bare(v)
  <2> HIDE DEF P, Bare
  <2> QED BY <1>7
<1>9. \A c : Resolve(c, t.name, n) # {} =>
               (\E v \in c : n = v.name) \/ \E v \in c : P # <<>> /\ v.name = P \o n
  BY DEF Resolve, Named
<1>10. \A c : (\E v \in c : n = v.name) \/ (t.name # None /\ \E v \in c : P # <<>> /\ v.name = P \o n)
                => Resolve(c, t.name, n) # {}
  BY DEF Resolve, Named
<1>11. P # <<>> => P \in Seq(S)
  <2>1. t.name \in Seq(S)
    BY <1>1, <1>5
  <2>2. CASE Len(t.name) # 0
    BY <2>1, <2>2, FrontIs DEF PrefixOf
  <2>3. CASE Len(t.name) = 0
    BY <2>1, <2>3 DEF PrefixOf, Front
  <2> QED BY <2>2, <2>3
<1> HIDE DEF P
<1>12. ASSUME NEW v \in E, P # <<>>
       PROVE  v.name = P \o n <=> Below(P, v.name) /\ n = Bare(v)
  <2>1. P \in Seq(S) /\ v.name \in Seq(S)
    BY <1>1, <1>11, <1>12
  <2>2. v.name = P \o n => Below(P, v.name) /\ n = Bare(v)
    BY <1>2, <2>1, Rest
  <2>3. Below(P, v.name) => P \o Bare(v) = v.name
    BY <2>1, Rest
  <2> QED BY <2>2, <2>3
<1> HIDE DEF Bare
<1>13. t.name # None
  BY <1>1, <1>5, WorldsAssumption DEF S
<1>14. Resolve(some, t.name, n) # {} => n \in TargetNames(E, t.path)
  <2> SUFFICES ASSUME Resolve(some, t.name, n) # {}
               PROVE  n \in TargetNames(E, t.path)
    OBVIOUS
  <2>1. (\E v \in some : n = v.name) \/ \E v \in some : P # <<>> /\ v.name = P \o n
    BY <1>9
  <2> QED BY <1>5, <1>8, <1>12, <2>1
<1>15. n \in TargetNames(E, t.path) => Resolve(E, t.name, n) # {}
  BY <1>8, <1>10, <1>12, <1>13
<1> QED BY <1>14, <1>15 DEF E

\* The chain of a `_shared.run` that is asked of any target below it.
LEMMA ChainsAgree ==
  ASSUME NEW w \in Worlds, NEW root \in Seq(Parts(w)), NEW t \in Seen(w.files, root), t.origin = "local",
         \A u, v \in Seen(w.files, root) : u.path = v.path => u = v, NEW d \in SharedChain(w.files, t)
  PROVE  ChainAbove(w.files, Seen(w.files, root), SharedIn(d)) = {e \in SharedChain(w.files, t) : Below(e, d)}
<1> DEFINE S == Parts(w)
           E == Seen(w.files, root)
           below == {v \in E : Below(d, v.path)}
           c == CHOOSE v \in below : TRUE
           R == Runfiles(root)
           Over(e) == Below(root, e) /\ SharedIn(e) \in w.files
<1>1. \A v \in E : v.path \in w.files /\ v.path \in Seq(S) /\ Len(v.path) # 0 /\ Last(v.path) # Shared
  <2>1. ASSUME NEW v \in E
        PROVE  v.path \in w.files /\ v.path \in Seq(S) /\ Len(v.path) # 0 /\ Last(v.path) # Shared
    <3>1. v.path \in w.files /\ v.path \in Seq(S) /\ v.path # <<>> /\ Last(v.path) # Shared
      BY SeenTypes
    <3> HIDE DEF E, S
    <3> QED BY <3>1
  <2> QED BY <2>1
<1>2. t.anchor = root /\ Below(R, t.path)
  BY SeenTypes
<1>3. root \in Seq(S) /\ R \in Seq(S) /\ Len(R) = Len(root) + 1 /\ Len(root) \in Nat
  <2>1. "runfiles" \in S /\ root \in Seq(S)
    BY PartsAre
  <2> HIDE DEF S
  <2> QED BY <2>1 DEF Runfiles
<1>4. \A x \in w.files : Holds(Tree(R, root, <<>>, "local"), x) =>
                          TargetOf(Tree(R, root, <<>>, "local"), x) \in E
  <2>1. root # None
    BY WorldsAssumption
  <2>2. Tree(R, root, <<>>, "local") \in Rooted(w.files, root)
    BY <2>1 DEF Rooted
  <2> HIDE DEF R
  <2> QED BY <2>2, SeenOne
<1> HIDE DEF S, E, R
<1>5. t \in E /\ (\A u, v \in E : u.path = v.path => u = v)
  BY DEF E
<1>6. \A v \in E : \A e \in Seq(S) : e \in AtOrAbove(Dir(v.path)) <=> Below(e, v.path)
  BY <1>1, AboveIs
<1>7. \A v \in E : AtOrAbove(Dir(v.path)) \subseteq Seq(S)
  BY <1>1, AboveIs
<1>8. d \in Seq(S) /\ Below(d, t.path) /\ Below(root, d)
  <2>1. d \in AtOrAbove(Dir(t.path)) /\ Below(t.anchor, d)
    BY DEF SharedChain
  <2> QED BY <1>2, <1>5, <1>6, <1>7, <2>1
<1>9. Len(R) <= Len(d)
  <2>1. Len(root) < Len(d) /\ Len(d) \in Nat
    BY <1>3, <1>8, StrictPrefixIs
  <2> QED BY <1>3, <2>1
<1>10. ASSUME NEW v \in below
       PROVE  v \in E /\ v.anchor = root
  <2>1. v \in E /\ Below(d, v.path)
    OBVIOUS
  <2>2. Below(R, v.path)
    BY <1>1, <1>2, <1>3, <1>5, <1>8, <1>9, <2>1, BelowBoth
  <2> DEFINE u == TargetOf(Tree(R, root, <<>>, "local"), v.path)
  <2>3. u.path = v.path /\ u.anchor = root
    BY DEF TargetOf, Tree
  <2>4. Holds(Tree(R, root, <<>>, "local"), v.path)
    BY <1>1, <2>1, <2>2 DEF Holds, Tree
  <2>5. u \in E
    BY <1>1, <1>4, <2>1, <2>4
  <2> HIDE DEF u
  <2> QED BY <1>5, <2>1, <2>3, <2>5
<1>11. t \in below
  BY <1>5, <1>8
<1>12. c \in below
  <2> HIDE DEF below
  <2> QED BY <1>11
<1>13. c \in E /\ c.anchor = root /\ Below(d, c.path)
  BY <1>10, <1>12
<1> DEFINE chain(v) == SharedChain(w.files, v)
<1>14. ASSUME NEW v \in E, v.anchor = root, Below(d, v.path), NEW e
       PROVE  e \in chain(v) /\ Below(e, d) <=> e \in Seq(S) /\ Over(e) /\ Below(e, d)
  <2>1. e \in chain(v) <=> e \in AtOrAbove(Dir(v.path)) /\ Over(e)
    BY <1>14 DEF SharedChain
  <2>2. e \in Seq(S) /\ Below(e, d) => Below(e, v.path)
    BY <1>1, <1>8, <1>14, BelowBelow
  <2> HIDE DEF chain, Over
  <2> QED BY <1>6, <1>7, <2>1, <2>2
<1>15. Dir(SharedIn(d)) = d
  <2>1. Append(d, Shared) \in Seq(S \cup {Shared}) /\ Len(Append(d, Shared)) = Len(d) + 1
    BY <1>8
  <2> QED BY <1>8 DEF Dir, SharedIn, Front
<1>16. ChainAbove(w.files, E, SharedIn(d)) = {e \in chain(c) : e # d /\ IsPrefix(e, d)}
  <2>1. below # {}
    BY <1>11
  <2>2. below = {v \in E : Below(Dir(SharedIn(d)), v.path)}
    BY <1>15
  <2> HIDE DEF below
  <2> QED BY <1>15, <2>1, <2>2 DEF ChainAbove, c
<1>17. \A e : Below(e, d) <=> e # d /\ IsPrefix(e, d)
  BY DEF Below, IsStrictPrefix
<1> HIDE DEF below, c, chain, Over
<1>18. ASSUME NEW e
       PROVE  e \in ChainAbove(w.files, E, SharedIn(d)) <=> e \in chain(t) /\ Below(e, d)
  <2>1. e \in ChainAbove(w.files, E, SharedIn(d)) <=> e \in chain(c) /\ Below(e, d)
    BY <1>16, <1>17
  <2>2. e \in chain(c) /\ Below(e, d) <=> e \in Seq(S) /\ Over(e) /\ Below(e, d)
    BY <1>13, <1>14
  <2>3. e \in chain(t) /\ Below(e, d) <=> e \in Seq(S) /\ Over(e) /\ Below(e, d)
    BY <1>2, <1>5, <1>8, <1>14
  <2> QED BY <2>1, <2>2, <2>3
<1> QED BY <1>16, <1>17, <1>18 DEF E, chain

\* For any project's file that an editor can place: what it underlines, what it leaves
\* alone and what it says a `_shared.run` inherits is what a run of the file does.
THEOREM EditorAgreesAlways == Spec => []EditorAgrees
<1>1. ASSUME FoundIs, world \in Worlds, status = "found",
             NEW t \in catalog, t.origin = "local", Understood(t)
      PROVE  /\ \A n \in Names :
                  /\ Resolve(catalog, t.name, n) # {} => n \in TargetNames(Editors(t).targets, t.path)
                  /\ n \in TargetNames(Editors(t).targets, t.path) => Resolve(Editors(t).targets, t.name, n) # {}
             /\ \A d \in SharedChain(world.files, t) :
                  ChainAbove(world.files, Editors(t).targets, SharedIn(d)) =
                    {e \in SharedChain(world.files, t) : Below(e, d)}
  <2> DEFINE E == Seen(world.files, t.anchor)
  <2>1. t.anchor \in Seq(Parts(world)) /\ Editors(t).targets = E /\ catalog \subseteq E
    BY <1>1, Placed
  <2>2. \A u, v \in E : u.path = v.path => u = v
    BY <1>1, <2>1 DEF Understood
  <2>3. t \in E /\ \A u \in E : u.path = t.path => u = t
    BY <2>1, <2>2
  <2>4. \A n \in Names :
          /\ Resolve(catalog, t.name, n) # {} => n \in TargetNames(E, t.path)
          /\ n \in TargetNames(E, t.path) => Resolve(E, t.name, n) # {}
    BY <1>1, <2>1, <2>3, NamesAgree
  <2>5. \A d \in SharedChain(world.files, t) :
          ChainAbove(world.files, E, SharedIn(d)) = {e \in SharedChain(world.files, t) : Below(e, d)}
    BY <1>1, <2>1, <2>2, <2>3, ChainsAgree
  <2> QED BY <2>1, <2>4, <2>5
<1>2. FoundIs /\ world \in Worlds => EditorAgrees
  BY <1>1 DEF EditorAgrees
<1> QED BY <1>2, FoundHolds, PTL

-----------------------------------------------------------------------------
(* How deep a run is.                                                       *)

\* What a function makes of a finite set is finite.
LEMMA FiniteImage ==
  ASSUME NEW S, IsFiniteSet(S), NEW f, f = [x \in S |-> f[x]]
  PROVE  IsFiniteSet({f[x] : x \in S})
<1> DEFINE T == {f[x] : x \in S}
<1>1. f \in [S -> T]
  <2>1. \A x \in S : f[x] \in T
    OBVIOUS
  <2> HIDE DEF T
  <2> QED BY <2>1
<1>2. \A y \in T : \E x \in S : f[x] = y
  OBVIOUS
<1> HIDE DEF T
<1>3. f \in Surjection(S, T)
  BY <1>1, <1>2 DEF Surjection
<1>4. IsFiniteSet(T)
  BY <1>3, FS_Surjection
<1> QED BY <1>4 DEF T

\* A finite tree of files has finitely many targets, wherever somebody stands.
LEMMA FiniteTargets ==
  ASSUME NEW w \in Worlds, NEW here, NEW scoped
  PROVE  IsFiniteSet(Targets(w.files, w.scopes, here, scoped))
<1> DEFINE files == w.files
           root  == FindUpward(files, here)
           paths == UNION {AtOrAbove(f) : f \in files}
<1>1. IsFiniteSet(files) /\ \A f \in files : Len(f) \in Nat
  BY WorldsAssumption
<1> HIDE DEF files, root
<1>2. IsFiniteSet(paths)
  <2>1. ASSUME NEW f \in files
        PROVE  IsFiniteSet(AtOrAbove(f))
    <3> DEFINE cut == [i \in 0 .. Len(f) |-> SubSeq(f, 1, i)]
    <3>1. IsFiniteSet(0 .. Len(f))
      BY <1>1, FS_Interval
    <3>2. cut = [x \in 0 .. Len(f) |-> cut[x]] /\ AtOrAbove(f) = {cut[i] : i \in 0 .. Len(f)}
      BY DEF AtOrAbove
    <3> HIDE DEF cut
    <3> QED BY <3>1, <3>2, FiniteImage
  <2> DEFINE above == [f \in files |-> AtOrAbove(f)]
             all   == {above[f] : f \in files}
  <2>2. above = [x \in files |-> above[x]] /\ paths = UNION all
    OBVIOUS
  <2>3. \A T \in all : IsFiniteSet(T)
    BY <2>1
  <2>4. IsFiniteSet(all)
    <3> HIDE DEF above
    <3> QED BY <1>1, <2>2, FiniteImage
  <2> HIDE DEF all, paths
  <2> QED BY <2>2, <2>3, <2>4, FS_UNION
<1>3. IsFiniteSet(Trees(files, here))
  <2> DEFINE below == Subprojects(files, root)
             sub   == [p \in below |-> Tree(Runfiles(p), p, <<Last(p)>>, "included")]
             home  == GlobalDirs(files)
             glob  == [g \in home |-> Tree(g, Home, <<>>, "global")]
             own   == Tree(Runfiles(root), root, <<>>, "local")
  <2>1. IsFiniteSet(below)
    <3>1. below \in SUBSET paths
      BY DEF Subprojects
    <3> HIDE DEF paths, below
    <3> QED BY <1>2, <3>1, FS_Subset
  <2>2. IsFiniteSet(home)
    <3> DEFINE three == {Append(Home, ".runfiles"), Append(Home, "Runfiles"), Append(Home, "runfiles")}
    <3>1. home \in SUBSET three
      BY DEF GlobalDirs, GlobalNames
    <3>2. three = (({} \cup {Append(Home, ".runfiles")}) \cup {Append(Home, "Runfiles")}) \cup {Append(Home, "runfiles")}
      OBVIOUS
    <3>3. IsFiniteSet(three)
      <4> HIDE DEF three
      <4> QED BY <3>2, FS_EmptySet, FS_AddElement
    <3> HIDE DEF three, home
    <3> QED BY <3>1, <3>3, FS_Subset
  <2>3. sub = [x \in below |-> sub[x]] /\ glob = [x \in home |-> glob[x]]
    OBVIOUS
  <2> DEFINE subs  == {sub[p] : p \in below}
             globs == {glob[g] : g \in home}
  <2>4. IsFiniteSet(subs) /\ IsFiniteSet(globs)
    <3> HIDE DEF below, home, sub, glob
    <3> QED BY <2>1, <2>2, <2>3, FiniteImage
  <2>5. Trees(files, here) \in SUBSET ((subs \cup globs) \cup {own})
    BY DEF Trees, root
  <2> HIDE DEF subs, globs, own
  <2>6. IsFiniteSet((subs \cup globs) \cup {own})
    BY <2>4, FS_Union, FS_AddElement
  <2> QED BY <2>5, <2>6, FS_Subset
<1> DEFINE trees == Trees(files, here)
           pairs == trees \X files
           of    == [p \in pairs |-> TargetOf(p[1], p[2])]
<1>4. of = [x \in pairs |-> of[x]]
  OBVIOUS
<1>5. Targets(files, w.scopes, here, scoped) \in SUBSET {of[p] : p \in pairs}
  <2>1. ASSUME NEW tree \in trees, NEW t \in Collected(files, w.scopes, tree, here, scoped)
        PROVE  t \in {of[p] : p \in pairs}
    <3>1. PICK g \in files : t = TargetOf(tree, g)
      BY DEF Collected, TargetOf
    <3>2. <<tree, g>> \in pairs /\ of[<<tree, g>>] = t
      BY <3>1
    <3> QED BY <3>2
  <2> HIDE DEF of, pairs
  <2> QED BY <2>1 DEF Targets
<1>6. IsFiniteSet(pairs)
  BY <1>1, <1>3, FS_Product
<1>7. IsFiniteSet({of[p] : p \in pairs})
  <2> HIDE DEF of, pairs
  <2> QED BY <1>4, <1>6, FiniteImage
<1>8. IsFiniteSet(Targets(files, w.scopes, here, scoped))
  <2> HIDE DEF of, pairs
  <2> QED BY <1>5, <1>7, FS_Subset
<1> QED BY <1>8 DEF files

LEMMA FiniteCatalog == Spec => [](world \in Worlds /\ IsFiniteSet(catalog))
<1>1. Init => world \in Worlds /\ IsFiniteSet(catalog)
  BY FS_EmptySet DEF Init
<1>2. world \in Worlds /\ IsFiniteSet(catalog) /\ [Next]_vars => (world \in Worlds /\ IsFiniteSet(catalog))'
  <2> SUFFICES ASSUME world \in Worlds, IsFiniteSet(catalog), [Next]_vars
               PROVE  world' \in Worlds /\ IsFiniteSet(catalog')
    OBVIOUS
  <2>1. CASE Find
    <3>1. IsFiniteSet(Discover(world.files, world.scopes, from, TRUE).targets)
      BY FiniteTargets DEF Discover
    <3> QED BY <2>1, <3>1 DEF Find, fixed
  <2>2. CASE UNCHANGED vars
    BY <2>2 DEF vars, fixed
  <2>3. CASE Next /\ ~Find
    <3>1. fixed' = fixed /\ catalog' = catalog
      BY <2>3 DEF Next, Start, Call, EnvFile, Env, AddPath, Return, Line
    <3> QED BY <3>1 DEF fixed
  <2> QED BY <2>1, <2>2, <2>3
<1> QED BY <1>1, <1>2, PTL DEF Spec

\* There are finitely many targets, and no more of them under way at once.
DepthBound == IsFiniteSet(catalog) /\ Len(frames) <= Cardinality(catalog)

\* Targets that run one another are never more of them under way at once than there
\* are, however they call each other and by whatever names: the chain run_with_chain
\* looks a target up in is what keeps the stack of a run from growing without end.
THEOREM DepthBounded == Spec => []DepthBound
<1>1. ASSUME IInv, IsFiniteSet(catalog)
      PROVE  DepthBound
  <2> DEFINE deep == 1 .. Len(frames)
             own  == [i \in deep |-> CHOOSE t \in catalog : t.name = frames[i].name]
  <2>1. /\ Len(frames) \in Nat /\ DOMAIN frames = deep
        /\ \A i \in deep : frames[i].name \in {t.name : t \in catalog}
    <3>1. frames \in Seq(FrameType)
      BY <1>1 DEF IInv, TypeOK
    <3>2. \A h \in FrameType : h.name \in {t.name : t \in catalog}
      BY DEF FrameType
    <3> QED BY <3>1, <3>2
  <2>2. \A i \in deep : own[i] \in catalog /\ own[i].name = frames[i].name
    <3> SUFFICES ASSUME NEW i \in deep
                 PROVE  \E t \in catalog : t.name = frames[i].name
      OBVIOUS
    <3> QED BY <2>1
  <2>3. own = [i \in deep |-> own[i]]
    OBVIOUS
  <2> HIDE DEF own
  <2>4. own \in [deep -> catalog]
    BY <2>2, <2>3
  <2>5. \A i, j \in deep : own[i] = own[j] => i = j
    BY <1>1, <2>1, <2>2 DEF IInv, NotInsideItself
  <2>6. own \in Injection(deep, catalog)
    BY <2>4, <2>5 DEF Injection, IsInjective
  <2>7. Cardinality(deep) <= Cardinality(catalog)
    BY <1>1, <2>6, FS_Injection
  <2>8. Cardinality(deep) = Len(frames)
    <3>1. ASSUME NEW n \in Nat
          PROVE  Cardinality(1 .. n) = n
      <4>1. Cardinality(1 .. n) = IF 1 > n THEN 0 ELSE n - 1 + 1
        BY FS_Interval
      <4> QED BY <4>1
    <3> QED BY <2>1, <3>1
  <2> QED BY <1>1, <2>7, <2>8 DEF DepthBound
<1>2. IInv /\ world \in Worlds /\ IsFiniteSet(catalog) => DepthBound
  BY <1>1
<1> QED BY <1>2, Inductive, FiniteCatalog, PTL
=============================================================================
