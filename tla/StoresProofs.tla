---------------------------- MODULE StoresProofs ----------------------------
(***************************************************************************)
(* Proofs about the three stores and the read side on top of them, for any *)
(* number of rows, every filter, limit and offset, and ints of any width:  *)
(* they answer alike, the pagination describes the page, and a client that *)
(* pages through the instances of the gorm store misses none.              *)
(***************************************************************************)
EXTENDS Stores, SequenceTheorems, FiniteSetTheorems, TLAPS

-----------------------------------------------------------------------------
(* Facts about numbers. *)

LEMMA MinOfTwo ==
  ASSUME NEW a \in Int, NEW b \in Int
  PROVE  Min({a, b}) = IF a <= b THEN a ELSE b
  <1>1. CASE a <= b
    <2>1. \E x \in {a, b} : \A y \in {a, b} : x <= y
      BY <1>1
    <2>2. Min({a, b}) \in {a, b} /\ \A y \in {a, b} : Min({a, b}) <= y
      BY <2>1 DEF Min
    <2> QED
      BY <1>1, <2>2
  <1>2. CASE ~(a <= b)
    <2>1. \E x \in {a, b} : \A y \in {a, b} : x <= y
      BY <1>2
    <2>2. Min({a, b}) \in {a, b} /\ \A y \in {a, b} : Min({a, b}) <= y
      BY <2>1 DEF Min
    <2> QED
      BY <1>2, <2>2
  <1> QED
    BY <1>1, <1>2

LEMMA PositiveIs ==
  ASSUME NEW n \in Int
  PROVE  Max({n, 0}) = (IF n >= 0 THEN n ELSE 0) /\ Positive(n) = Max({n, 0})
         /\ Positive(n) \in Nat
  <1>1. \E x \in {n, 0} : \A y \in {n, 0} : x >= y
    <2>1. CASE n >= 0
      BY <2>1
    <2>2. CASE ~(n >= 0)
      BY <2>2
    <2> QED
      BY <2>1, <2>2
  <1>2. Max({n, 0}) \in {n, 0} /\ \A y \in {n, 0} : Max({n, 0}) >= y
    BY <1>1 DEF Max
  <1>3. Max({n, 0}) = IF n >= 0 THEN n ELSE 0
    BY <1>2
  <1> QED
    BY <1>3 DEF Positive

\* The first of some ids.
LEMMA FirstOf ==
  ASSUME NEW ids \in SUBSET Nat, ids # {}
  PROVE  Min(ids) \in ids
  <1>1. PICK k \in ids : \A j \in ids : ~ (<<j, k>> \in OpToRel(<, Nat))
    BY NatLessThanWellFounded, WFMin
  <1>2. OpToRel(<, Nat) = {ss \in Nat \X Nat : ss[1] < ss[2]}
    BY DEF OpToRel
  <1>3. \A j \in ids : k <= j
    <2> SUFFICES ASSUME NEW j \in ids, ~(k <= j) PROVE FALSE
      OBVIOUS
    <2>1. j < k /\ j \in Nat /\ k \in Nat
      OBVIOUS
    <2>2. <<j, k>> \in {ss \in Nat \X Nat : ss[1] < ss[2]}
      BY <2>1
    <2> QED
      BY <1>1, <1>2, <2>2
  <1>4. \E x \in ids : \A y \in ids : x <= y
    BY <1>3
  <1> QED
    BY <1>4 DEF Min

\* A sum that an int can hold does not wrap.
LEMMA NoOverflow ==
  ASSUME NEW a \in Nat, NEW b \in Nat, a + b <= MaxInt
  PROVE  Plus(a, b) = a + b
  <1>1. MaxInt \in Nat
    BY IntsAssumption
  <1> DEFINE m == MaxInt
             x == a + b + m + 1
             w == 2 * (m + 1)
  <1>2. x \in Nat /\ w \in Nat \ {0} /\ x < w
    BY <1>1
  <1>3. x % w = x
    <2> HIDE DEF x, w
    <2> QED
      BY <1>2
  <1>4. x - (m + 1) = a + b
    BY <1>1
  <1> QED
    BY <1>1, <1>3, <1>4 DEF Plus

-----------------------------------------------------------------------------
(***************************************************************************)
(* Facts about listings: a listing has every row once, a page is a stretch *)
(* of it.                                                                  *)
(***************************************************************************)
Enumerates(s, ids) ==
  /\ s \in Seq(ids) /\ Len(s) = Cardinality(ids)
  /\ \A j, k \in DOMAIN s : s[j] = s[k] => j = k
  /\ \A i \in ids : \E j \in DOMAIN s : s[j] = i

LEMMA SetToSeqsEnumerate ==
  ASSUME NEW ids, IsFiniteSet(ids), NEW s \in SetToSeqs(ids)
  PROVE  Enumerates(s, ids)
  <1> DEFINE n == Cardinality(ids)
  <1>1. n \in Nat
    BY FS_CardinalityType
  <1>2. s \in [1 .. n -> ids] /\ \A i, j \in 1 .. n : i # j => s[i] # s[j]
    BY DEF SetToSeqs
  <1>3. s \in Injection(1 .. n, ids)
    BY <1>2 DEF Injection, IsInjective
  <1>4. Cardinality(1 .. n) = n
    BY <1>1, FS_Interval
  <1>5. s \in Surjection(1 .. n, ids)
    BY <1>3, <1>4, FS_Injection
  <1>6. s \in Seq(ids) /\ Len(s) = n /\ DOMAIN s = 1 .. n
    BY <1>1, <1>2
  <1>7. \A i \in ids : \E j \in 1 .. n : s[j] = i
    BY <1>5 DEF Surjection
  <1> QED
    BY <1>2, <1>6, <1>7 DEF Enumerates

LEMMA ReverseEnumerates ==
  ASSUME NEW ids, IsFiniteSet(ids), NEW s, Enumerates(s, ids)
  PROVE  Enumerates(Reverse(s), ids)
  <1> DEFINE n == Len(s)
             t == Reverse(s)
  <1>1. s \in Seq(ids) /\ n \in Nat /\ DOMAIN s = 1 .. n /\ n = Cardinality(ids)
    BY DEF Enumerates
  <1>2. t = [i \in 1 .. n |-> s[(n - i) + 1]]
    BY DEF Reverse
  <1>3. \A i \in 1 .. n : (n - i) + 1 \in 1 .. n
    BY <1>1
  <1>4. DOMAIN t = 1 .. n /\ \A i \in 1 .. n : t[i] = s[(n - i) + 1] /\ t[i] \in ids
    BY <1>1, <1>2, <1>3
  <1> HIDE DEF t
  <1>5. t \in Seq(ids) /\ Len(t) = n
    <2>1. t \in [1 .. n -> ids]
      BY <1>2, <1>4
    <2> QED
      BY <1>1, <2>1
  <1>6. \A j, k \in DOMAIN t : t[j] = t[k] => j = k
    <2> SUFFICES ASSUME NEW j \in 1 .. n, NEW k \in 1 .. n, t[j] = t[k] PROVE j = k
      BY <1>4
    <2>1. (n - j) + 1 = (n - k) + 1
      BY <1>1, <1>3, <1>4 DEF Enumerates
    <2> QED
      BY <1>1, <2>1
  <1>7. \A i \in ids : \E j \in DOMAIN t : t[j] = i
    <2> SUFFICES ASSUME NEW i \in ids PROVE \E j \in 1 .. n : t[j] = i
      BY <1>4
    <2>1. PICK k \in 1 .. n : s[k] = i
      BY <1>1 DEF Enumerates
    <2>2. (n - k) + 1 \in 1 .. n /\ (n - ((n - k) + 1)) + 1 = k
      BY <1>1
    <2> QED
      BY <1>4, <2>1, <2>2
  <1> QED
    BY <1>1, <1>5, <1>6, <1>7 DEF Enumerates, t

\* A stretch of n entries of s after the first skip.
Stretch(page, s, skip, n) ==
  /\ skip \in Nat /\ n \in Nat
  /\ Len(page) = n /\ DOMAIN page = 1 .. n
  /\ n = 0 \/ skip + n <= Len(s)
  /\ \A j \in 1 .. n : page[j] = s[skip + j]

LEMMA SubSeqIs ==
  ASSUME NEW S, NEW s \in Seq(S), NEW m \in Nat \ {0}, NEW n \in Nat, n <= Len(s)
  PROVE  /\ SubSeq(s, m, n) \in Seq(S)
         /\ Len(SubSeq(s, m, n)) = IF m <= n THEN n - m + 1 ELSE 0
         /\ \A i \in 1 .. n - m + 1 : SubSeq(s, m, n)[i] = s[m + i - 1]
  <1>1. \A i \in m .. n : s[i] \in S
    OBVIOUS
  <1> QED
    BY <1>1, SubSeqProperties

LEMMA FromIs ==
  ASSUME NEW S, NEW s \in Seq(S), NEW offset \in Nat
  PROVE  /\ From(s, offset) \in Seq(S)
         /\ Stretch(From(s, offset), s, offset, IF offset < Len(s) THEN Len(s) - offset ELSE 0)
  <1> DEFINE t == From(s, offset)
             n == IF offset < Len(s) THEN Len(s) - offset ELSE 0
  <1>1. Len(s) \in Nat /\ n \in Nat
    OBVIOUS
  <1>2. /\ t \in Seq(S) /\ Len(t) = IF offset + 1 <= Len(s) THEN Len(s) - (offset + 1) + 1 ELSE 0
        /\ \A i \in 1 .. Len(s) - (offset + 1) + 1 : t[i] = s[offset + 1 + i - 1]
    BY <1>1, SubSeqIs DEF From
  <1> HIDE DEF t
  <1>3. Len(t) = n /\ DOMAIN t = 1 .. n /\ (n = 0 \/ offset + n <= Len(s))
    BY <1>1, <1>2
  <1>4. \A j \in 1 .. n : t[j] = s[offset + j]
    <2> SUFFICES ASSUME NEW j \in 1 .. n PROVE t[j] = s[offset + j]
      OBVIOUS
    <2>1. j \in 1 .. Len(s) - (offset + 1) + 1 /\ offset + 1 + j - 1 = offset + j
      BY <1>1
    <2> QED
      BY <1>2, <2>1
  <1> QED
    BY <1>1, <1>2, <1>3, <1>4 DEF Stretch, t

LEMMA UpToIs ==
  ASSUME NEW S, NEW s \in Seq(S), NEW limit \in Nat
  PROVE  /\ UpTo(s, limit) \in Seq(S)
         /\ Stretch(UpTo(s, limit), s, 0, IF limit <= Len(s) THEN limit ELSE Len(s))
  <1> DEFINE t == UpTo(s, limit)
             n == IF limit <= Len(s) THEN limit ELSE Len(s)
  <1>1. Len(s) \in Nat /\ n \in Nat /\ n <= Len(s)
    OBVIOUS
  <1>2. t = SubSeq(s, 1, n)
    BY <1>1, MinOfTwo DEF UpTo
  <1> HIDE DEF t, n
  <1>3. /\ t \in Seq(S) /\ Len(t) = IF 1 <= n THEN n - 1 + 1 ELSE 0
        /\ \A i \in 1 .. n - 1 + 1 : t[i] = s[1 + i - 1]
    BY <1>1, <1>2, SubSeqIs
  <1>4. Len(t) = n /\ DOMAIN t = 1 .. n
    BY <1>1, <1>3
  <1>5. \A j \in 1 .. n : t[j] = s[0 + j]
    <2> SUFFICES ASSUME NEW j \in 1 .. n PROVE t[j] = s[0 + j]
      OBVIOUS
    <2>1. j \in 1 .. n - 1 + 1 /\ 1 + j - 1 = j /\ 0 + j = j
      BY <1>1
    <2> QED
      BY <1>3, <2>1
  <1>6. n = 0 \/ 0 + n <= Len(s)
    BY <1>1
  <1> QED
    BY <1>1, <1>3, <1>4, <1>5, <1>6 DEF Stretch, t, n

LEMMA WholeStretch ==
  ASSUME NEW S, NEW s \in Seq(S)
  PROVE  Stretch(s, s, 0, Len(s))
  <1>1. Len(s) \in Nat /\ DOMAIN s = 1 .. Len(s)
    OBVIOUS
  <1>2. \A j \in 1 .. Len(s) : 0 + j = j
    BY <1>1
  <1> QED
    BY <1>1, <1>2 DEF Stretch

LEMMA EmptyStretch ==
  ASSUME NEW s, NEW skip \in Nat
  PROVE  Stretch(<<>>, s, skip, 0)
  <1>1. Len(<<>>) = 0 /\ DOMAIN <<>> = 1 .. 0
    OBVIOUS
  <1>2. \A j : j \notin 1 .. 0
    OBVIOUS
  <1> QED
    BY <1>1, <1>2 DEF Stretch

LEMMA StretchOfStretch ==
  ASSUME NEW s, NEW t, NEW u, NEW skip, NEW n, NEW m, Len(s) \in Nat,
         Stretch(t, s, skip, n), Stretch(u, t, 0, m)
  PROVE  Stretch(u, s, skip, m)
  <1>1. /\ skip \in Nat /\ n \in Nat /\ m \in Nat /\ (m = 0 \/ m <= n)
        /\ Len(u) = m /\ DOMAIN u = 1 .. m /\ Len(t) = n
    BY DEF Stretch
  <1>2. \A j \in 1 .. m : u[j] = s[skip + j]
    <2> SUFFICES ASSUME NEW j \in 1 .. m PROVE u[j] = s[skip + j]
      OBVIOUS
    <2>1. j \in 1 .. n /\ 0 + j = j
      BY <1>1
    <2>2. u[j] = t[0 + j] /\ t[j] = s[skip + j]
      BY <2>1 DEF Stretch
    <2> QED
      BY <2>1, <2>2
  <1>3. m = 0 \/ skip + m <= Len(s)
    <2>1. n = 0 \/ skip + n <= Len(s)
      BY DEF Stretch
    <2> QED
      BY <1>1, <2>1
  <1> QED
    BY <1>1, <1>2, <1>3 DEF Stretch

\* The rows that are left at an offset, and how many of them a page has.
Left(total, offset) == Positive(total - Positive(offset))

PageLength(total, limit, offset) ==
  IF limit > 0 THEN Min({limit, Left(total, offset)}) ELSE Left(total, offset)

LEMMA LeftIs ==
  ASSUME NEW total \in Nat, NEW offset \in Int
  PROVE  /\ Left(total, offset) \in Nat /\ Positive(offset) \in Nat
         /\ Positive(offset) = IF offset >= 0 THEN offset ELSE 0
         /\ Left(total, offset) = IF Positive(offset) < total THEN total - Positive(offset) ELSE 0
  <1>1. Positive(offset) = (IF offset >= 0 THEN offset ELSE 0) /\ Positive(offset) \in Nat
    BY PositiveIs
  <1> DEFINE d == total - Positive(offset)
  <1>2. d \in Int
    BY <1>1
  <1> HIDE DEF d
  <1>3. Positive(d) = (IF d >= 0 THEN d ELSE 0) /\ Positive(d) \in Nat
    BY <1>2, PositiveIs
  <1>4. Left(total, offset) = Positive(d)
    BY DEF Left, d
  <1>5. Left(total, offset) = IF Positive(offset) < total THEN total - Positive(offset) ELSE 0
    BY <1>1, <1>3, <1>4 DEF d
  <1> QED
    BY <1>1, <1>3, <1>4, <1>5

\* The page that the first limit entries of the rest are.
LEMMA LimitIs ==
  ASSUME NEW S, NEW s \in Seq(S), NEW rest \in Seq(S), NEW limit \in Int, NEW offset \in Int,
         Stretch(rest, s, Positive(offset), Left(Len(s), offset)),
         NEW page, page = rest \/ (limit > 0 /\ page = UpTo(rest, limit)),
         page = rest => limit <= 0 \/ limit >= Len(rest)
  PROVE  page \in Seq(S) /\ Stretch(page, s, Positive(offset), PageLength(Len(s), limit, offset))
  <1> DEFINE left == Left(Len(s), offset)
  <1>1. Len(s) \in Nat /\ left \in Nat /\ Len(rest) = left
    BY LeftIs DEF Stretch
  <1> HIDE DEF left
  <1>2. CASE page = rest
    <2>1. PageLength(Len(s), limit, offset) = left
      BY <1>1, <1>2, MinOfTwo DEF PageLength, left
    <2> QED
      BY <1>2, <2>1 DEF left
  <1>3. CASE limit > 0 /\ page = UpTo(rest, limit)
    <2>1. limit \in Nat
      BY <1>3
    <2>2. PageLength(Len(s), limit, offset) = IF limit <= left THEN limit ELSE left
      BY <1>1, <1>3, MinOfTwo DEF PageLength, left
    <2>3. page \in Seq(S) /\ Stretch(page, rest, 0, IF limit <= left THEN limit ELSE left)
      BY <1>1, <1>3, <2>1, UpToIs
    <2>4. Stretch(rest, s, Positive(offset), left)
      BY DEF left
    <2> QED
      BY <1>1, <2>2, <2>3, <2>4, StretchOfStretch
  <1> QED
    BY <1>2, <1>3

LEMMA PageIs ==
  ASSUME NEW S, NEW s \in Seq(S), NEW limit \in Int, NEW offset \in Int
  PROVE  /\ Page(s, limit, offset) \in Seq(S)
         /\ Stretch(Page(s, limit, offset), s, Positive(offset), PageLength(Len(s), limit, offset))
  <1> DEFINE left == Left(Len(s), offset)
             page == Page(s, limit, offset)
  <1>1. /\ Len(s) \in Nat /\ left \in Nat /\ Positive(offset) \in Nat
        /\ Positive(offset) = IF offset >= 0 THEN offset ELSE 0
        /\ left = IF Positive(offset) < Len(s) THEN Len(s) - Positive(offset) ELSE 0
    <2> HIDE DEF page
    <2>1. Len(s) \in Nat
      OBVIOUS
    <2> QED
      BY <2>1, LeftIs
  <1> HIDE DEF left
  <1>2. CASE store = "gorm"
    <2> DEFINE rest == IF offset > 0 THEN From(s, offset) ELSE s
    <2>1. page = IF limit > 0 THEN UpTo(rest, limit) ELSE rest
      BY <1>2 DEF Page, GormPage
    <2>2. rest \in Seq(S) /\ Stretch(rest, s, Positive(offset), left)
      <3>1. CASE offset > 0
        <4>1. offset \in Nat /\ offset = Positive(offset)
          BY <1>1, <3>1
        <4> QED
          BY <1>1, <3>1, <4>1, FromIs
      <3>2. CASE ~(offset > 0)
        <4>1. Positive(offset) = 0 /\ left = Len(s)
          BY <1>1, <3>2
        <4> QED
          BY <3>2, <4>1, WholeStretch
      <3> QED
        BY <3>1, <3>2
    <2> HIDE DEF rest, page
    <2>3. page = rest => limit <= 0 \/ limit >= Len(rest)
      <3> SUFFICES ASSUME page = rest, limit > 0 PROVE limit >= Len(rest)
        OBVIOUS
      <3>1. Len(rest) \in Nat /\ limit \in Nat /\ rest = UpTo(rest, limit)
        <4>1. Len(rest) \in Nat
          BY <2>2
        <4>2. rest = UpTo(rest, limit)
          BY <2>1
        <4> QED
          BY <4>1, <4>2
      <3>2. Len(UpTo(rest, limit)) = IF limit <= Len(rest) THEN limit ELSE Len(rest)
        BY <2>2, <3>1, UpToIs DEF Stretch
      <3> QED
        BY <3>1, <3>2
    <2>4. page = rest \/ (limit > 0 /\ page = UpTo(rest, limit))
      BY <2>1
    <2>5. page \in Seq(S) /\ Stretch(page, s, Positive(offset), PageLength(Len(s), limit, offset))
      BY <2>2, <2>3, <2>4, LimitIs DEF left
    <2> QED
      BY <2>5 DEF page
  <1>3. CASE store # "gorm"
    <2> DEFINE rest == CASE offset > 0 /\ offset < Len(s) -> From(s, offset)
                         [] offset >= Len(s)              -> <<>>
                         [] OTHER                         -> s
    <2>1. page = IF limit > 0 /\ limit < Len(rest) THEN UpTo(rest, limit) ELSE rest
      BY <1>3 DEF Page, MemoryPage
    <2>2. rest \in Seq(S) /\ Stretch(rest, s, Positive(offset), left)
      <3>1. CASE offset > 0 /\ offset < Len(s)
        <4>1. offset \in Nat /\ offset = Positive(offset) /\ ~(offset >= Len(s))
          BY <1>1, <3>1
        <4>2. rest = From(s, offset)
          BY <3>1, <4>1
        <4> QED
          BY <1>1, <4>1, <4>2, FromIs
      <3>2. CASE offset >= Len(s)
        <4>1. left = 0 /\ ~(offset > 0 /\ offset < Len(s))
          BY <1>1, <3>2
        <4>2. rest = <<>>
          BY <3>2, <4>1
        <4>3. Stretch(<<>>, s, Positive(offset), 0) /\ <<>> \in Seq(S)
          BY <1>1, EmptyStretch
        <4> HIDE DEF rest
        <4> QED
          BY <4>1, <4>2, <4>3
      <3>3. CASE ~(offset > 0) /\ ~(offset >= Len(s))
        <4>1. Positive(offset) = 0 /\ left = Len(s)
          BY <1>1, <3>3
        <4>2. rest = s
          BY <3>3
        <4> HIDE DEF rest
        <4> QED
          BY <4>1, <4>2, WholeStretch
      <3>4. (offset > 0 /\ offset < Len(s)) \/ offset >= Len(s)
            \/ (~(offset > 0) /\ ~(offset >= Len(s)))
        BY <1>1
      <3> HIDE DEF rest
      <3> QED
        BY <3>1, <3>2, <3>3, <3>4
    <2> HIDE DEF rest, page
    <2>3. Len(rest) \in Nat
      BY <2>2
    <2>4. page = rest \/ (limit > 0 /\ page = UpTo(rest, limit))
      BY <2>1
    <2>5. page = rest => limit <= 0 \/ limit >= Len(rest)
      <3> SUFFICES ASSUME page = rest, limit > 0, limit < Len(rest) PROVE FALSE
        BY <2>3
      <3>1. limit \in Nat /\ rest = UpTo(rest, limit)
        BY <2>1
      <3>2. Len(UpTo(rest, limit)) = IF limit <= Len(rest) THEN limit ELSE Len(rest)
        BY <2>2, <3>1, UpToIs DEF Stretch
      <3> QED
        BY <2>3, <3>1, <3>2
    <2>6. page \in Seq(S) /\ Stretch(page, s, Positive(offset), PageLength(Len(s), limit, offset))
      BY <2>2, <2>4, <2>5, LimitIs DEF left
    <2> QED
      BY <2>6 DEF page
  <1> QED
    BY <1>2, <1>3

-----------------------------------------------------------------------------
(* Types. *)

Row == [user : scope.users, type : scope.types, step : Steps, state : States,
        finished : BOOLEAN, created : Int]

Walk == [stage : {"none"}] \cup
        [stage : {"reading", "done"}, filter : HandlerFilters, limit : Ints, offset : Nat,
         start : SUBSET DOMAIN instances, seen : SUBSET DOMAIN instances]

\* A transition is of an instance that is there, an entry of the history of a
\* transition that is there, and a client has seen no row that is not there.
TypeOK ==
  /\ store \in StoreKinds /\ scope \in Scopes
  /\ instances \in Seq(Row)
  /\ transitions \in Seq(Transition) /\ histories \in Seq(History)
  /\ DOMAIN given = {"transitions", "histories"}
  /\ given.transitions \in Seq(Transition) /\ given.histories \in Seq(History)
  /\ walk \in Walk

LEMMA NewRowTyped ==
  ASSUME TypeOK, NEW u \in scope.users, NEW t \in scope.types, InsertInstance(u, t)
  PROVE  /\ instances' \in Seq(Row) /\ DOMAIN instances' = DOMAIN instances \cup {Len(instances) + 1}
         /\ \A i \in DOMAIN instances : instances'[i] = instances[i]
         /\ instances'[Len(instances) + 1].created \in Int
         /\ UNCHANGED <<store, scope, transitions, histories, given, walk>>
  <1>1. PICK p \in scope.positions, c \in Now :
          instances' = Append(instances, [user |-> u, type |-> t, step |-> p[1],
                                          state |-> p[2], finished |-> FALSE, created |-> c])
    BY DEF InsertInstance
  <1> DEFINE row == [user |-> u, type |-> t, step |-> p[1], state |-> p[2],
                     finished |-> FALSE, created |-> c]
  <1>2. instances \in Seq(Row) /\ Len(instances) \in Nat /\ DOMAIN instances = 1 .. Len(instances)
    BY DEF TypeOK
  <1>3. c \in Int
    <2>1. CASE instances = <<>>
      BY <2>1 DEF Now
    <2>2. CASE instances # <<>>
      <3>1. instances[Len(instances)] \in Row
        BY <1>2, <2>2
      <3> QED
        BY <2>2, <3>1 DEF Now, Last, Row
    <2> QED
      BY <2>1, <2>2
  <1>4. p[1] \in Steps /\ p[2] \in States
    BY DEF Steps, States
  <1>5. row \in Row /\ row.created = c
    BY <1>3, <1>4 DEF Row
  <1> HIDE DEF row
  <1>6. instances' = Append(instances, row)
    BY <1>1 DEF row
  <1>7. /\ instances' \in Seq(Row) /\ Len(instances') = Len(instances) + 1
        /\ \A i \in 1 .. Len(instances) : instances'[i] = instances[i]
        /\ instances'[Len(instances) + 1] = row
    BY <1>2, <1>5, <1>6, AppendProperties
  <1>8. DOMAIN instances' = 1 .. Len(instances) + 1
    BY <1>2, <1>7
  <1>9. 1 .. Len(instances) + 1 = (1 .. Len(instances)) \cup {Len(instances) + 1}
    BY <1>2
  <1>10. UNCHANGED <<store, scope, transitions, histories, given, walk>>
    BY DEF InsertInstance
  <1> QED
    BY <1>2, <1>3, <1>5, <1>7, <1>8, <1>9, <1>10

\* What does not depend on the tables.
LEMMA SameSets ==
  ASSUME UNCHANGED scope
  PROVE  /\ Row' = Row /\ HandlerFilters' = HandlerFilters
         /\ Steps' = Steps /\ States' = States
  BY DEF Row, HandlerFilters, Steps, States

\* Rows are added, and none is taken away.
LEMMA TablesGrow ==
  ASSUME TypeOK, UNCHANGED <<store, scope, transitions, histories, given, walk>>,
         instances' \in Seq(Row), DOMAIN instances \subseteq DOMAIN instances'
  PROVE  TypeOK'
  <1>1. Row' = Row /\ HandlerFilters' = HandlerFilters /\ Steps' = Steps /\ States' = States
    BY SameSets
  <1>2. Transition \subseteq Transition'
    BY <1>1 DEF Transition
  <1>3. transitions' \in Seq(Transition') /\ given'.transitions \in Seq(Transition')
    BY <1>2 DEF TypeOK
  <1>4. History' = History
    BY DEF History
  <1>5. Walk \subseteq Walk'
    BY <1>1 DEF Walk
  <1> QED
    BY <1>1, <1>3, <1>4, <1>5 DEF TypeOK

LEMMA CreateInstanceTyped ==
  ASSUME TypeOK, NEW u \in scope.users, NEW t \in scope.types, CreateInstance(u, t)
  PROVE  TypeOK'
  <1>1. InsertInstance(u, t)
    BY DEF CreateInstance, GormCreateInstance, MemoryCreateInstance, MockCreateInstance
  <1> QED
    BY <1>1, NewRowTyped, TablesGrow

\* What UpdateInstance leaves of a row.
LEMMA UpdatedRows ==
  ASSUME TypeOK, NEW i \in DOMAIN instances, UpdateInstance(i)
  PROVE  /\ instances' \in Seq(Row) /\ DOMAIN instances' = DOMAIN instances
         /\ \A j \in DOMAIN instances : /\ instances'[j].user = instances[j].user
                                        /\ instances'[j].type = instances[j].type
                                        /\ instances'[j].created = instances[j].created
         /\ UNCHANGED <<store, scope, transitions, histories, given, walk>>
  <1>1. PICK p \in scope.positions, finished \in BOOLEAN :
          instances' = [instances EXCEPT ![i].step = p[1], ![i].state = p[2],
                                         ![i].finished = finished]
    BY DEF UpdateInstance
  <1>2. instances \in Seq(Row) /\ instances[i] \in Row
    BY DEF TypeOK
  <1>3. p[1] \in Steps /\ p[2] \in States
    BY DEF Steps, States
  <1> DEFINE row == [instances[i] EXCEPT !.step = p[1], !.state = p[2], !.finished = finished]
  <1>4. row \in Row /\ row.user = instances[i].user /\ row.type = instances[i].type
        /\ row.created = instances[i].created
    BY <1>2, <1>3 DEF Row
  <1>5. instances' = [instances EXCEPT ![i] = row]
    BY <1>1, <1>2
  <1> HIDE DEF row
  <1>6. instances' \in Seq(Row) /\ DOMAIN instances' = DOMAIN instances
    BY <1>2, <1>4, <1>5
  <1>7. \A j \in DOMAIN instances : instances'[j] = IF j = i THEN row ELSE instances[j]
    BY <1>2, <1>5
  <1> QED
    BY <1>4, <1>6, <1>7 DEF UpdateInstance

LEMMA KeptTyped ==
  ASSUME NEW t \in Transition
  PROVE  Kept(t) \in Transition
  BY DEF Kept, TransitionFromEngine, Column, Transition, Marshalled

LEMMA CreateTransitionTyped == ASSUME TypeOK, CreateTransition PROVE TypeOK'
  <1>1. PICK t \in Transition :
          /\ transitions' = Append(transitions, Kept(t))
          /\ given' = [given EXCEPT !.transitions = Append(@, t)]
    BY DEF CreateTransition
  <1>2. UNCHANGED <<store, scope, instances, histories, walk>>
    BY DEF CreateTransition
  <1>3. /\ given'.transitions = Append(given.transitions, t)
        /\ given'.histories = given.histories /\ DOMAIN given' = {"transitions", "histories"}
    BY <1>1 DEF TypeOK
  <1>4. Row' = Row /\ Transition' = Transition /\ Walk' = Walk
    BY <1>2 DEF Row, Transition, Walk, HandlerFilters, Steps, States
  <1>5. /\ transitions \in Seq(Transition) /\ given.transitions \in Seq(Transition)
        /\ histories \in Seq(History) /\ given.histories \in Seq(History)
    BY DEF TypeOK
  <1>6. transitions' \in Seq(Transition) /\ given'.transitions \in Seq(Transition)
    BY <1>1, <1>3, <1>5, KeptTyped, AppendProperties
  <1>7. DOMAIN transitions \subseteq DOMAIN transitions'
    BY <1>1, <1>5, KeptTyped
  <1>8. History \subseteq History'
    BY <1>7 DEF History
  <1>9. histories' \in Seq(History') /\ given'.histories \in Seq(History')
    BY <1>2, <1>3, <1>5, <1>8
  <1> QED
    BY <1>2, <1>3, <1>4, <1>6, <1>9 DEF TypeOK

\* The transition that UpdateTransition writes, and the one its caller has in hand.
Changed(k, state, input) == [transitions[k] EXCEPT !.state = state, !.input = input]

LEMMA UpdatedTransitions ==
  ASSUME TypeOK, NEW k \in DOMAIN transitions, UpdateTransition(k)
  PROVE  \E state \in States, input \in Marshalled :
           LET t == Changed(k, state, input) IN
           /\ t \in Transition
           /\ transitions' = [transitions EXCEPT ![k] = Kept(t)]
           /\ given' = [given EXCEPT !.transitions[k] = t]
           /\ UNCHANGED <<store, scope, instances, histories, walk>>
  <1>1. PICK state \in States, input \in Marshalled :
          LET t == Changed(k, state, input) IN
          /\ transitions' =
               IF store = "gorm"
                 THEN [transitions EXCEPT ![k].state = state,
                                          ![k].input = TransitionFromEngine(t).input]
                 ELSE [transitions EXCEPT ![k] = t]
          /\ given' = [given EXCEPT !.transitions[k] = t]
          /\ UNCHANGED <<store, scope, instances, histories, walk>>
    BY DEF UpdateTransition, Changed
  <1> DEFINE t == Changed(k, state, input)
             old == transitions[k]
  <1>2. transitions \in Seq(Transition) /\ old \in Transition
    BY DEF TypeOK
  <1>3. t \in Transition
    BY <1>2 DEF Changed, Transition
  <1>4. transitions' = [transitions EXCEPT ![k] = Kept(t)]
    <2>1. CASE store = "gorm"
      <3>1. TransitionFromEngine(t) = [old EXCEPT !.state = state,
                                                  !.input = TransitionFromEngine(t).input]
        <4> DEFINE column == Column(input)
        <4>1. t = [old EXCEPT !.state = state, !.input = input] /\ t.input = input
          BY <1>2 DEF Changed, Transition
        <4>2. TransitionFromEngine(t) = [t EXCEPT !.input = column]
          BY <4>1 DEF TransitionFromEngine
        <4> HIDE DEF column, t
        <4>3. TransitionFromEngine(t) = [old EXCEPT !.state = state, !.input = column]
          BY <1>2, <4>1, <4>2 DEF Transition
        <4>4. TransitionFromEngine(t).input = column
          BY <1>3, <4>2 DEF Transition
        <4> QED
          BY <4>3, <4>4
      <3> DEFINE column == TransitionFromEngine(t).input
      <3>2. transitions' = [transitions EXCEPT ![k].state = state, ![k].input = column]
        BY <1>1, <2>1
      <3> HIDE DEF column
      <3>3. [transitions EXCEPT ![k].state = state, ![k].input = column]
            = [transitions EXCEPT ![k] = [old EXCEPT !.state = state, !.input = column]]
        BY <1>2
      <3>4. Kept(t) = [old EXCEPT !.state = state, !.input = column]
        BY <2>1, <3>1 DEF Kept, column
      <3> QED
        BY <3>2, <3>3, <3>4
    <2>2. CASE store # "gorm"
      BY <1>1, <2>2 DEF Kept
    <2> QED
      BY <2>1, <2>2
  <1> QED
    BY <1>1, <1>3, <1>4

LEMMA ReplacedEntry ==
  ASSUME NEW S, NEW s \in Seq(S), NEW k, NEW x \in S
  PROVE  [s EXCEPT ![k] = x] \in Seq(S) /\ Len([s EXCEPT ![k] = x]) = Len(s)
  <1> DEFINE t == [s EXCEPT ![k] = x]
  <1>1. Len(s) \in Nat /\ s \in [1 .. Len(s) -> S]
    OBVIOUS
  <1>2. t \in [1 .. Len(s) -> S]
    BY <1>1
  <1> HIDE DEF t
  <1>3. t \in Seq(S) /\ Len(t) = Len(s)
    BY <1>1, <1>2
  <1> QED
    BY <1>3 DEF t

LEMMA UpdateTransitionTyped ==
  ASSUME TypeOK, NEW k \in DOMAIN transitions, UpdateTransition(k)
  PROVE  TypeOK'
  <1>1. PICK t \in Transition :
          /\ transitions' = [transitions EXCEPT ![k] = Kept(t)]
          /\ given' = [given EXCEPT !.transitions[k] = t]
          /\ UNCHANGED <<store, scope, instances, histories, walk>>
    BY UpdatedTransitions
  <1>2. /\ given'.transitions = [given.transitions EXCEPT ![k] = t]
        /\ given'.histories = given.histories /\ DOMAIN given' = {"transitions", "histories"}
    BY <1>1 DEF TypeOK
  <1>3. Row' = Row /\ Transition' = Transition /\ Walk' = Walk
    BY <1>1 DEF Row, Transition, Walk, HandlerFilters, Steps, States
  <1>4. /\ transitions \in Seq(Transition) /\ given.transitions \in Seq(Transition)
        /\ histories \in Seq(History) /\ given.histories \in Seq(History)
    BY DEF TypeOK
  <1>5. transitions' \in Seq(Transition) /\ given'.transitions \in Seq(Transition)
    <2>1. Kept(t) \in Transition
      BY KeptTyped
    <2>2. transitions' \in Seq(Transition)
      BY <1>1, <1>4, <2>1, ReplacedEntry
    <2>3. given'.transitions \in Seq(Transition)
      BY <1>2, <1>4, ReplacedEntry
    <2> QED
      BY <2>2, <2>3
  <1>6. DOMAIN transitions' = DOMAIN transitions
    BY <1>1, <1>4
  <1>7. History' = History
    BY <1>6 DEF History
  <1> QED
    BY <1>1, <1>2, <1>3, <1>4, <1>5, <1>7 DEF TypeOK

LEMMA NewEntry ==
  ASSUME TypeOK, CreateTransitionHistory
  PROVE  \E h \in History :
           /\ KeptEntry(h) \in History
           /\ histories' = Append(histories, KeptEntry(h))
           /\ given'.histories = Append(given.histories, h)
           /\ given'.transitions = given.transitions
           /\ DOMAIN given' = {"transitions", "histories"}
           /\ UNCHANGED <<store, scope, instances, transitions, walk>>
  <1>1. PICK h \in History :
          /\ histories' = Append(histories, KeptEntry(h))
          /\ given' = [given EXCEPT !.histories = Append(@, h)]
    BY DEF CreateTransitionHistory
  <1>2. KeptEntry(h) \in History
    BY DEF KeptEntry, TransitionHistoryFromEngine, Column, History, Marshalled
  <1>3. /\ given'.histories = Append(given.histories, h)
        /\ given'.transitions = given.transitions /\ DOMAIN given' = {"transitions", "histories"}
    BY <1>1 DEF TypeOK
  <1>4. UNCHANGED <<store, scope, instances, transitions, walk>>
    BY DEF CreateTransitionHistory
  <1> QED
    BY <1>1, <1>2, <1>3, <1>4

LEMMA CreateTransitionHistoryTyped == ASSUME TypeOK, CreateTransitionHistory PROVE TypeOK'
  <1>1. PICK h \in History :
          /\ KeptEntry(h) \in History
          /\ histories' = Append(histories, KeptEntry(h))
          /\ given'.histories = Append(given.histories, h)
          /\ given'.transitions = given.transitions
          /\ DOMAIN given' = {"transitions", "histories"}
          /\ UNCHANGED <<store, scope, instances, transitions, walk>>
    BY NewEntry
  <1>2. Row' = Row /\ Transition' = Transition /\ Walk' = Walk /\ History' = History
    BY <1>1 DEF Row, Transition, Walk, HandlerFilters, Steps, States, History
  <1>3. histories' \in Seq(History) /\ given'.histories \in Seq(History)
    BY <1>1, AppendProperties DEF TypeOK
  <1> QED
    BY <1>1, <1>2, <1>3 DEF TypeOK

LEMMA ResetTyped == ASSUME TypeOK, Reset PROVE TypeOK'
  <1>1. UNCHANGED <<store, scope>> /\ store \in StoreKinds /\ scope \in Scopes
    BY DEF Reset, TypeOK
  <1>2. \A S : <<>> \in Seq(S)
    OBVIOUS
  <1>3. /\ instances' \in Seq(Row') /\ transitions' \in Seq(Transition')
        /\ histories' \in Seq(History')
    BY <1>2 DEF Reset
  <1>4. /\ DOMAIN given' = {"transitions", "histories"}
        /\ given'.transitions \in Seq(Transition') /\ given'.histories \in Seq(History')
    BY <1>2 DEF Reset
  <1>5. walk' \in Walk'
    BY DEF Reset, Walk
  <1> QED
    BY <1>1, <1>3, <1>4, <1>5 DEF TypeOK

-----------------------------------------------------------------------------
(* What a filter means, and what a listing holds. *)

LEMMA RowsTyped ==
  ASSUME TypeOK
  PROVE  /\ Len(instances) \in Nat /\ DOMAIN instances = 1 .. Len(instances)
         /\ \A i \in DOMAIN instances : instances[i] \in Row /\ instances[i].created \in Int
  <1>1. instances \in Seq(Row)
    BY DEF TypeOK
  <1>2. \A row \in Row : row.created \in Int
    BY DEF Row
  <1> QED
    BY <1>1, <1>2

LEMMA FilterMeans ==
  ASSUME TypeOK, NEW f \in scope.filters
  PROVE  /\ applyInstanceFilter(f) = Satisfying(f) /\ Matching(f) = Satisfying(f)
         /\ Satisfying(f) \subseteq DOMAIN instances /\ IsFiniteSet(Satisfying(f))
         /\ Cardinality(Satisfying(f)) \in Nat
  <1>1. /\ Len(instances) \in Nat /\ DOMAIN instances = 1 .. Len(instances)
        /\ \A i \in DOMAIN instances : instances[i].created \in Int
    BY RowsTyped
  <1>2. f.after \in Int \cup {Nil} /\ f.before \in Int \cup {Nil}
    BY ScopesAssumption DEF TypeOK
  <1>3. \A i \in DOMAIN instances :
          /\ f.after # Nil => ((instances[i].created >= f.after) <=> (f.after <= instances[i].created))
          /\ f.after # Nil => ((instances[i].created < f.after) <=> ~(f.after <= instances[i].created))
          /\ f.before # Nil => ((instances[i].created > f.before) <=> ~(instances[i].created <= f.before))
    BY <1>1, <1>2
  <1>4. applyInstanceFilter(f) = Satisfying(f)
    BY <1>3 DEF applyInstanceFilter, Satisfying
  <1>5. Matching(f) = Satisfying(f)
    BY <1>3 DEF Matching, matchesFilter, Satisfying
  <1>6. Satisfying(f) \subseteq DOMAIN instances
    BY DEF Satisfying
  <1>7. IsFiniteSet(Satisfying(f)) /\ Cardinality(Satisfying(f)) \in Nat
    <2>1. IsFiniteSet(1 .. Len(instances))
      BY <1>1, FS_Interval
    <2>2. Satisfying(f) \in SUBSET (1 .. Len(instances))
      BY <1>1, <1>6
    <2>3. IsFiniteSet(Satisfying(f))
      BY <2>1, <2>2, FS_Subset
    <2> QED
      BY <2>3, FS_CardinalityType
  <1> QED
    BY <1>4, <1>5, <1>6, <1>7

NewerFirst(s) ==
  \A j, k \in DOMAIN s : j < k => instances[s[j]].created >= instances[s[k]].created

LEMMA ListingHolds ==
  ASSUME TypeOK, NEW f \in scope.filters, NEW s \in Listing(f)
  PROVE  Enumerates(s, Satisfying(f)) /\ (store = "gorm" => NewerFirst(s))
  <1>1. IsFiniteSet(Satisfying(f))
    BY FilterMeans
  <1>2. CASE store = "gorm"
    <2>1. s \in NewestFirst(Satisfying(f))
      BY <1>2, FilterMeans DEF Listing, GormListing
    <2> QED
      BY <1>1, <2>1, SetToSeqsEnumerate DEF NewestFirst, NewerFirst
  <1>3. CASE store = "memory"
    <2>1. s \in SetToSeqs(Satisfying(f))
      BY <1>3, FilterMeans DEF Listing, MemoryListing
    <2> QED
      BY <1>1, <1>3, <2>1, SetToSeqsEnumerate
  <1>4. CASE store = "mock"
    <2>1. PICK t \in SetToSeqs(Satisfying(f)) : s = Reverse(t)
      BY <1>4, FilterMeans DEF Listing, MockListing
    <2> QED
      BY <1>1, <1>4, <2>1, SetToSeqsEnumerate, ReverseEnumerates
  <1> QED
    BY <1>2, <1>3, <1>4, StoreKindsAssumption DEF TypeOK

-----------------------------------------------------------------------------
(* The client that reads page by page. *)

LEMMA PageSizeIs ==
  ASSUME NEW limit \in Ints
  PROVE  /\ limit \in Int /\ PageSize(limit) \in Nat /\ PageSize(limit) > 0
         /\ PageSize(limit) = IF limit <= 0 THEN DefaultLimit ELSE limit
  <1>1. MaxInt \in Nat /\ Ints \subseteq -(MaxInt + 1) .. MaxInt /\ DefaultLimit \in 1 .. MaxInt
    BY IntsAssumption
  <1>2. limit \in -(MaxInt + 1) .. MaxInt
    BY <1>1
  <1>3. limit \in Int
    BY <1>1, <1>2
  <1> QED
    BY <1>1, <1>3 DEF PageSize

LEMMA WalkFields ==
  ASSUME TypeOK, walk.stage # "none"
  PROVE  /\ DOMAIN walk = {"stage", "filter", "limit", "offset", "start", "seen"}
         /\ walk \in [stage : {"reading", "done"}, filter : HandlerFilters, limit : Ints,
                      offset : Nat, start : SUBSET DOMAIN instances,
                      seen : SUBSET DOMAIN instances]
         /\ walk.filter \in HandlerFilters /\ walk.filter \in scope.filters
         /\ walk.stage \in {"reading", "done"} /\ walk.limit \in Ints /\ walk.offset \in Nat
         /\ walk.start \subseteq DOMAIN instances /\ walk.seen \subseteq DOMAIN instances
  <1>1. walk \in Walk
    BY DEF TypeOK
  <1>2. walk \notin [stage : {"none"}]
    OBVIOUS
  <1>3. walk \in [stage : {"reading", "done"}, filter : HandlerFilters, limit : Ints,
                  offset : Nat, start : SUBSET DOMAIN instances, seen : SUBSET DOMAIN instances]
    BY <1>1, <1>2 DEF Walk
  <1>4. HandlerFilters \subseteq scope.filters
    BY DEF HandlerFilters
  <1> QED
    BY <1>3, <1>4

LEMMA StartWalkTyped == ASSUME TypeOK, StartWalk PROVE TypeOK'
  <1>1. PICK f \in HandlerFilters, limit \in Ints :
          walk' = [stage |-> "reading", filter |-> f, limit |-> limit, offset |-> 0,
                   start |-> applyInstanceFilter(f), seen |-> {}]
    BY DEF StartWalk
  <1>2. UNCHANGED <<store, scope, instances, transitions, histories, given>>
    BY DEF StartWalk
  <1>3. Row' = Row /\ Transition' = Transition /\ History' = History /\ Walk' = Walk
    BY <1>2 DEF Row, Transition, History, Walk, HandlerFilters, Steps, States
  <1>4. applyInstanceFilter(f) \in SUBSET DOMAIN instances
    BY DEF applyInstanceFilter
  <1>5. walk' \in Walk
    BY <1>1, <1>4 DEF Walk
  <1> QED
    BY <1>2, <1>3, <1>5 DEF TypeOK

\* The page that was read, as a stretch of a listing.
LEMMA PageRead ==
  ASSUME TypeOK, ReadPage
  PROVE  \E s \in Listing(walk.filter), page \in Seq(Satisfying(walk.filter)) :
           /\ Enumerates(s, Satisfying(walk.filter)) /\ (store = "gorm" => NewerFirst(s))
           /\ Stretch(page, s, walk.offset,
                      PageLength(Cardinality(Satisfying(walk.filter)),
                                 PageSize(walk.limit), walk.offset))
           /\ walk' = [walk EXCEPT
                         !.seen = @ \cup Range(page),
                         !.offset = @ + Len(page),
                         !.stage = IF Len(page) < PageSize(walk.limit) THEN "done" ELSE @]
  <1>1. PICK page \in ListWorkflowsHandler(walk.filter, walk.limit, walk.offset) :
          walk' = [walk EXCEPT
                     !.seen = @ \cup Range(page),
                     !.offset = @ + Len(page),
                     !.stage = IF Len(page) < PageSize(walk.limit) THEN "done" ELSE @]
    BY DEF ReadPage
  <1>2. PICK s \in Listing(walk.filter) : page = Page(s, PageSize(walk.limit), walk.offset)
    BY DEF ListWorkflowsHandler
  <1>3. walk.filter \in scope.filters /\ walk.limit \in Ints /\ walk.offset \in Nat
    BY WalkFields DEF ReadPage
  <1>4. Enumerates(s, Satisfying(walk.filter)) /\ (store = "gorm" => NewerFirst(s))
    BY <1>2, <1>3, ListingHolds
  <1> DEFINE ids == Satisfying(walk.filter)
             size == PageSize(walk.limit)
             offset == walk.offset
  <1>5. s \in Seq(ids) /\ Len(s) = Cardinality(ids)
    BY <1>4 DEF Enumerates
  <1> HIDE DEF ids, size, offset
  <1>6. size \in Int /\ offset \in Int /\ Positive(offset) = offset
    <2>1. size \in Nat
      BY <1>3, PageSizeIs DEF size
    <2>2. offset \in Nat
      BY <1>3 DEF offset
    <2>3. offset \in Int /\ offset >= 0
      BY <2>2
    <2>4. Positive(offset) = IF offset >= 0 THEN offset ELSE 0
      BY <2>3, PositiveIs
    <2> QED
      BY <2>1, <2>3, <2>4
  <1>7. page \in Seq(ids) /\ Stretch(page, s, Positive(offset), PageLength(Len(s), size, offset))
    BY <1>2, <1>5, <1>6, PageIs DEF size, offset
  <1>8. Stretch(page, s, offset, PageLength(Cardinality(ids), size, offset))
    BY <1>5, <1>6, <1>7
  <1> QED
    BY <1>1, <1>2, <1>4, <1>7, <1>8 DEF ids, size, offset

LEMMA RangeWithin ==
  ASSUME NEW S, NEW s \in Seq(S)
  PROVE  Range(s) \subseteq S /\ Len(s) \in Nat
  <1>1. Len(s) \in Nat /\ DOMAIN s = 1 .. Len(s) /\ \A i \in 1 .. Len(s) : s[i] \in S
    OBVIOUS
  <1>2. Range(s) = {s[i] : i \in DOMAIN s}
    BY DEF Range
  <1> QED
    BY <1>1, <1>2

LEMMA ReadPageTyped == ASSUME TypeOK, ReadPage PROVE TypeOK'
  <1>1. PICK page \in Seq(Satisfying(walk.filter)) :
          walk' = [walk EXCEPT
                     !.seen = @ \cup Range(page),
                     !.offset = @ + Len(page),
                     !.stage = IF Len(page) < PageSize(walk.limit) THEN "done" ELSE @]
    BY PageRead
  <1>2. UNCHANGED <<store, scope, instances, transitions, histories, given>>
    BY DEF ReadPage
  <1>3. Row' = Row /\ Transition' = Transition /\ History' = History /\ Walk' = Walk
    BY <1>2 DEF Row, Transition, History, Walk, HandlerFilters, Steps, States
  <1>4. Range(page) \subseteq DOMAIN instances /\ Len(page) \in Nat
    BY RangeWithin DEF Satisfying
  <1> DEFINE rows == Range(page)
             n == Len(page)
             stage == IF n < PageSize(walk.limit) THEN "done" ELSE walk.stage
  <1>5. walk \in [stage : {"reading", "done"}, filter : HandlerFilters, limit : Ints,
                  offset : Nat, start : SUBSET DOMAIN instances, seen : SUBSET DOMAIN instances]
    BY WalkFields DEF ReadPage
  <1>6. stage \in {"reading", "done"}
    BY <1>5
  <1>7. walk' = [walk EXCEPT !.seen = walk.seen \cup rows, !.offset = walk.offset + n,
                             !.stage = stage]
    BY <1>1, <1>5
  <1>8. walk.seen \cup rows \in SUBSET DOMAIN instances /\ walk.offset + n \in Nat
    BY <1>4, <1>5
  <1> HIDE DEF rows, n, stage
  <1>9. walk' \in [stage : {"reading", "done"}, filter : HandlerFilters, limit : Ints,
                   offset : Nat, start : SUBSET DOMAIN instances, seen : SUBSET DOMAIN instances]
    BY <1>5, <1>6, <1>7, <1>8
  <1>10. walk' \in Walk
    BY <1>9 DEF Walk
  <1> QED
    BY <1>2, <1>3, <1>10 DEF TypeOK

LEMMA NextTyped == ASSUME TypeOK, [Next]_vars PROVE TypeOK'
  <1>1. ASSUME NEW u \in scope.users, NEW t \in scope.types,
               CreateInstance(u, t) \/ FailedTransaction(u, t)
        PROVE  TypeOK'
    <2>1. CASE UNCHANGED vars
      BY <2>1 DEF TypeOK, vars, Row, Walk, Transition, History, HandlerFilters, Steps, States
    <2>2. CASE CreateInstance(u, t)
      BY <2>2, CreateInstanceTyped
    <2> QED
      BY <1>1, <2>1, <2>2 DEF FailedTransaction
  <1>2. ASSUME NEW i \in DOMAIN instances, UpdateInstance(i) PROVE TypeOK'
    BY <1>2, UpdatedRows, TablesGrow
  <1>3. CASE CreateTransition
    BY <1>3, CreateTransitionTyped
  <1>4. ASSUME NEW k \in DOMAIN transitions, UpdateTransition(k) PROVE TypeOK'
    BY <1>4, UpdateTransitionTyped
  <1>5. CASE CreateTransitionHistory
    BY <1>5, CreateTransitionHistoryTyped
  <1>6. CASE StartWalk
    BY <1>6, StartWalkTyped
  <1>7. CASE ReadPage
    BY <1>7, ReadPageTyped
  <1>8. CASE Reset
    BY <1>8, ResetTyped
  <1>9. CASE UNCHANGED vars
    BY <1>9 DEF TypeOK, vars, Row, Walk, Transition, History, HandlerFilters, Steps, States
  <1> QED
    BY <1>1, <1>2, <1>3, <1>4, <1>5, <1>6, <1>7, <1>8, <1>9 DEF Next

\* Every row refers to rows that are there, and no client has seen one that is not,
\* after any calls: with the foreign keys of gorm/models.go and without.
THEOREM StoresTypeCorrect == Spec => []TypeOK
  <1>1. Init => TypeOK
    <2> SUFFICES ASSUME Init PROVE TypeOK
      OBVIOUS
    <2>1. \A S : <<>> \in Seq(S)
      OBVIOUS
    <2>2. store \in StoreKinds /\ scope \in Scopes /\ walk \in Walk
      BY DEF Init, Walk
    <2>3. instances \in Seq(Row) /\ transitions \in Seq(Transition) /\ histories \in Seq(History)
      BY <2>1 DEF Init
    <2>4. /\ DOMAIN given = {"transitions", "histories"}
          /\ given.transitions \in Seq(Transition) /\ given.histories \in Seq(History)
      BY <2>1 DEF Init
    <2> QED
      BY <2>2, <2>3, <2>4 DEF TypeOK
  <1>2. TypeOK /\ [Next]_vars => TypeOK'
    BY NextTyped
  <1> QED
    BY <1>1, <1>2, PTL DEF Spec

-----------------------------------------------------------------------------
(* The pagination. *)

\* The length of the page at an offset.
LEMMA PageLengthIs ==
  ASSUME NEW total \in Nat, NEW limit \in Int, NEW offset \in Int
  PROVE  /\ PageLength(total, limit, offset) \in Nat
         /\ limit > 0 => PageLength(total, limit, offset)
                         = IF limit <= Left(total, offset) THEN limit ELSE Left(total, offset)
         /\ limit <= 0 => PageLength(total, limit, offset) = Left(total, offset)
  <1> DEFINE left == Left(total, offset)
  <1>1. left \in Nat
    BY LeftIs
  <1>2. PageLength(total, limit, offset) = IF limit > 0 THEN Min({limit, left}) ELSE left
    BY DEF PageLength
  <1> HIDE DEF left
  <1>3. left \in Int
    BY <1>1
  <1>4. Min({limit, left}) = IF limit <= left THEN limit ELSE left
    BY <1>3, MinOfTwo
  <1>5. /\ PageLength(total, limit, offset) \in Nat
        /\ limit > 0 => PageLength(total, limit, offset) = IF limit <= left THEN limit ELSE left
        /\ limit <= 0 => PageLength(total, limit, offset) = left
    BY <1>1, <1>2, <1>4
  <1> QED
    BY <1>5 DEF left

LEMMA PageDescribed ==
  ASSUME TypeOK, NEW f \in HandlerFilters, NEW limit \in Ints, NEW offset \in Ints,
         Positive(offset) + PageSize(limit) <= MaxInt,
         NEW page \in ListWorkflowsHandler(f, limit, offset)
  PROVE  LET total == Cardinality(Satisfying(f))
             info == BuildPagination(total, limit, offset)
         IN  /\ info.count = Len(page)
             /\ info.hasMore = (Positive(offset) + Len(page) < total)
  <1> DEFINE ids == Satisfying(f)
             total == Cardinality(ids)
             size == PageSize(limit)
             from == IF offset < 0 THEN 0 ELSE offset
             next == Plus(from, size)
             left == Left(total, offset)
  <1>1. f \in scope.filters
    BY DEF HandlerFilters
  <1>2. total \in Nat
    BY <1>1, FilterMeans
  <1>3. size \in Nat /\ size > 0 /\ limit \in Int /\ offset \in Int
    BY PageSizeIs
  <1>4. PICK s \in Listing(f) : page = Page(s, size, offset)
    BY DEF ListWorkflowsHandler
  <1>5. s \in Seq(ids) /\ Len(s) = total
    BY <1>1, <1>4, ListingHolds DEF Enumerates
  <1>6. BuildPagination(total, limit, offset)
        = [count |-> IF next > total THEN Max({total - from, 0}) ELSE size,
           hasMore |-> next < total]
    BY DEF BuildPagination
  <1> HIDE DEF total, size, ids
  <1>7. /\ left \in Nat /\ Positive(offset) \in Nat
        /\ Positive(offset) = IF offset >= 0 THEN offset ELSE 0
        /\ left = IF Positive(offset) < total THEN total - Positive(offset) ELSE 0
    BY <1>2, <1>3, LeftIs
  <1>8. left = Positive(total - Positive(offset))
    BY DEF Left
  <1> HIDE DEF left
  <1>9. from = Positive(offset)
    BY <1>3, <1>7
  <1> HIDE DEF from
  <1>10. next = from + size
    <2>1. from \in Nat /\ from + size <= MaxInt
      BY <1>7, <1>9 DEF size
    <2> QED
      BY <1>3, <2>1, NoOverflow
  <1> HIDE DEF next
  <1>11. Max({total - from, 0}) = left
    <2>1. total - from \in Int
      BY <1>2, <1>7, <1>9
    <2> QED
      BY <1>8, <1>9, <2>1, PositiveIs
  <1>12. Len(page) = PageLength(total, size, offset)
    <2>1. size \in Int
      BY <1>3
    <2> QED
      BY <1>3, <1>4, <1>5, <2>1, PageIs DEF Stretch
  <1>13. Len(page) = IF size <= left THEN size ELSE left
    <2>1. size \in Int
      BY <1>3
    <2> QED
      BY <1>2, <1>3, <1>12, <2>1, PageLengthIs DEF left
  <1>14. (IF next > total THEN left ELSE size) = Len(page)
    BY <1>2, <1>3, <1>7, <1>9, <1>10, <1>13
  <1>15. (next < total) <=> (Positive(offset) + Len(page) < total)
    BY <1>2, <1>3, <1>7, <1>9, <1>10, <1>13
  <1>16. /\ BuildPagination(total, limit, offset).count = Len(page)
         /\ BuildPagination(total, limit, offset).hasMore = (Positive(offset) + Len(page) < total)
    BY <1>6, <1>11, <1>14, <1>15
  <1> QED
    BY <1>16 DEF total, ids

\* response.go:211: count and has_more say what the page of handlers.go:306 holds and
\* whether rows are left after it, for every total, limit and offset of ints of any
\* width, while offset + limit is an int.
THEOREM PagesAreDescribed == Spec => []PaginationDescribesThePage
  <1>1. TypeOK => PaginationDescribesThePage
    BY PageDescribed DEF PaginationDescribesThePage
  <1> QED
    BY <1>1, StoresTypeCorrect, PTL

-----------------------------------------------------------------------------
(***************************************************************************)
(* What was given.  That a lookup and a read answer with what a caller      *)
(* gave is not inductive on the answers: the invariant says of every row    *)
(* that it is the one the caller gave, as the store keeps it.               *)
(***************************************************************************)
GivenInv ==
  /\ Len(given.transitions) = Len(transitions) /\ Len(given.histories) = Len(histories)
  /\ \A k \in DOMAIN transitions : transitions[k] = Kept(given.transitions[k])
  /\ \A n \in DOMAIN histories : histories[n] = KeptEntry(given.histories[n])

LEMMA KeptKeeps ==
  ASSUME NEW t \in Transition
  PROVE  /\ [Kept(t) EXCEPT !.input = Nil] = [t EXCEPT !.input = Nil]
         /\ Reads(Kept(t).input, t.input)
         /\ Kept(t).instance = t.instance /\ Kept(t).step = t.step /\ Kept(t).action = t.action
  <1>1. CASE store = "gorm"
    <2> DEFINE column == Column(t.input)
    <2>1. Kept(t) = [t EXCEPT !.input = column]
      BY <1>1 DEF Kept, TransitionFromEngine
    <2>2. Reads(column, t.input)
      BY DEF Reads, Column
    <2> HIDE DEF column
    <2>3. Kept(t).input = column /\ [Kept(t) EXCEPT !.input = Nil] = [t EXCEPT !.input = Nil]
      BY <2>1 DEF Transition
    <2> QED
      BY <2>1, <2>2, <2>3 DEF Transition
  <1>2. CASE store # "gorm"
    BY <1>2 DEF Kept, Reads
  <1> QED
    BY <1>1, <1>2

LEMMA KeptEntryKeeps ==
  ASSUME NEW h \in History
  PROVE  /\ KeptEntry(h).transition = h.transition
         /\ Reads(KeptEntry(h).old, h.old) /\ Reads(KeptEntry(h).new, h.new)
  BY DEF KeptEntry, TransitionHistoryFromEngine, Column, Reads, History

\* Both sides of a table grow by one.
LEMMA BothAppended ==
  ASSUME NEW S, NEW s \in Seq(S), NEW g \in Seq(S), NEW x \in S, NEW y \in S, Len(g) = Len(s),
         NEW t, t = Append(s, y), NEW h, h = Append(g, x)
  PROVE  /\ Len(h) = Len(t) /\ DOMAIN t = DOMAIN s \cup {Len(s) + 1}
         /\ \A k \in DOMAIN s : t[k] = s[k] /\ h[k] = g[k]
         /\ t[Len(s) + 1] = y /\ h[Len(s) + 1] = x
  <1>1. Len(s) \in Nat /\ DOMAIN s = 1 .. Len(s)
    OBVIOUS
  <1>2. /\ Len(t) = Len(s) + 1 /\ DOMAIN t = 1 .. Len(s) + 1
        /\ \A k \in 1 .. Len(s) : t[k] = s[k]
        /\ t[Len(s) + 1] = y
    BY <1>1, AppendProperties
  <1>3. /\ Len(h) = Len(s) + 1
        /\ \A k \in 1 .. Len(s) : h[k] = g[k]
        /\ h[Len(s) + 1] = x
    BY <1>1, AppendProperties
  <1>4. 1 .. Len(s) + 1 = (1 .. Len(s)) \cup {Len(s) + 1}
    BY <1>1
  <1> QED
    BY <1>1, <1>2, <1>3, <1>4

LEMMA KeptSame ==
  ASSUME UNCHANGED store
  PROVE  /\ \A k : Kept(given.transitions[k])' = Kept(given'.transitions[k])
         /\ \A k : KeptEntry(given.histories[k])' = KeptEntry(given'.histories[k])
  BY DEF Kept, KeptEntry

LEMMA CreateTransitionGiven == ASSUME TypeOK, GivenInv, CreateTransition PROVE GivenInv'
  <1>1. PICK t \in Transition :
          /\ transitions' = Append(transitions, Kept(t))
          /\ given' = [given EXCEPT !.transitions = Append(@, t)]
    BY DEF CreateTransition
  <1>2. UNCHANGED <<store, histories>>
    BY DEF CreateTransition
  <1>3. /\ given'.transitions = Append(given.transitions, t)
        /\ given'.histories = given.histories
    BY <1>1 DEF TypeOK
  <1>4. transitions \in Seq(Transition) /\ given.transitions \in Seq(Transition)
        /\ Kept(t) \in Transition /\ Len(given.transitions) = Len(transitions)
    BY KeptTyped DEF TypeOK, GivenInv
  <1>5. /\ Len(given'.transitions) = Len(transitions')
        /\ DOMAIN transitions' = DOMAIN transitions \cup {Len(transitions) + 1}
        /\ \A k \in DOMAIN transitions : transitions'[k] = transitions[k]
                                         /\ given'.transitions[k] = given.transitions[k]
        /\ transitions'[Len(transitions) + 1] = Kept(t)
        /\ given'.transitions[Len(transitions) + 1] = t
    BY <1>1, <1>3, <1>4, BothAppended
  <1>6. \A k \in DOMAIN transitions' : transitions'[k] = Kept(given'.transitions[k])
    BY <1>5 DEF GivenInv
  <1> QED
    BY <1>2, <1>3, <1>5, <1>6, KeptSame DEF GivenInv

LEMMA UpdateTransitionGiven ==
  ASSUME TypeOK, GivenInv, NEW k \in DOMAIN transitions, UpdateTransition(k)
  PROVE  GivenInv'
  <1>1. PICK t \in Transition :
          /\ transitions' = [transitions EXCEPT ![k] = Kept(t)]
          /\ given' = [given EXCEPT !.transitions[k] = t]
          /\ UNCHANGED <<store, scope, instances, histories, walk>>
    BY UpdatedTransitions
  <1>2. /\ given'.transitions = [given.transitions EXCEPT ![k] = t]
        /\ given'.histories = given.histories
    BY <1>1 DEF TypeOK
  <1>3. transitions \in Seq(Transition) /\ given.transitions \in Seq(Transition)
        /\ Kept(t) \in Transition /\ Len(given.transitions) = Len(transitions)
    BY KeptTyped DEF TypeOK, GivenInv
  <1>4. Len(given'.transitions) = Len(transitions') /\ DOMAIN transitions' = DOMAIN transitions
        /\ DOMAIN given.transitions = DOMAIN transitions
    <2>1. Len(transitions') = Len(transitions)
      BY <1>1, <1>3, ReplacedEntry
    <2>2. Len(given'.transitions) = Len(given.transitions)
      BY <1>2, <1>3, ReplacedEntry
    <2>3. DOMAIN given.transitions = DOMAIN transitions
      BY <1>3
    <2> QED
      BY <1>1, <1>3, <2>1, <2>2, <2>3
  <1>5. \A n \in DOMAIN transitions' : transitions'[n] = Kept(given'.transitions[n])
    <2> SUFFICES ASSUME NEW n \in DOMAIN transitions
                 PROVE  transitions'[n] = Kept(given'.transitions[n])
      BY <1>4
    <2>1. CASE n = k
      BY <1>1, <1>2, <1>4, <2>1
    <2>2. CASE n # k
      <3>1. transitions'[n] = transitions[n] /\ given'.transitions[n] = given.transitions[n]
        BY <1>1, <1>2, <1>4, <2>2
      <3> QED
        BY <3>1 DEF GivenInv
    <2> QED
      BY <2>1, <2>2
  <1> QED
    BY <1>1, <1>2, <1>4, <1>5, KeptSame DEF GivenInv

LEMMA CreateTransitionHistoryGiven ==
  ASSUME TypeOK, GivenInv, CreateTransitionHistory PROVE GivenInv'
  <1>1. PICK h \in History :
          /\ KeptEntry(h) \in History
          /\ histories' = Append(histories, KeptEntry(h))
          /\ given'.histories = Append(given.histories, h)
          /\ given'.transitions = given.transitions
          /\ DOMAIN given' = {"transitions", "histories"}
          /\ UNCHANGED <<store, scope, instances, transitions, walk>>
    BY NewEntry
  <1>2. histories \in Seq(History) /\ given.histories \in Seq(History)
        /\ Len(given.histories) = Len(histories)
    BY DEF TypeOK, GivenInv
  <1>3. /\ Len(given'.histories) = Len(histories')
        /\ DOMAIN histories' = DOMAIN histories \cup {Len(histories) + 1}
        /\ \A k \in DOMAIN histories : histories'[k] = histories[k]
                                       /\ given'.histories[k] = given.histories[k]
        /\ histories'[Len(histories) + 1] = KeptEntry(h)
        /\ given'.histories[Len(histories) + 1] = h
    BY <1>1, <1>2, BothAppended
  <1>4. \A k \in DOMAIN histories' : histories'[k] = KeptEntry(given'.histories[k])
    BY <1>3 DEF GivenInv
  <1> QED
    BY <1>1, <1>3, <1>4, KeptSame DEF GivenInv

LEMMA NextGiven == ASSUME TypeOK, GivenInv, [Next]_vars PROVE GivenInv'
  <1>1. CASE UNCHANGED <<store, transitions, histories, given>>
    BY <1>1, KeptSame DEF GivenInv
  <1>2. ASSUME NEW u \in scope.users, NEW t \in scope.types,
               CreateInstance(u, t) \/ FailedTransaction(u, t)
        PROVE  GivenInv'
    BY <1>1, <1>2 DEF FailedTransaction, CreateInstance, GormCreateInstance,
                      MemoryCreateInstance, MockCreateInstance, InsertInstance, vars
  <1>3. ASSUME NEW i \in DOMAIN instances, UpdateInstance(i) PROVE GivenInv'
    BY <1>1, <1>3 DEF UpdateInstance
  <1>4. CASE CreateTransition
    BY <1>4, CreateTransitionGiven
  <1>5. ASSUME NEW k \in DOMAIN transitions, UpdateTransition(k) PROVE GivenInv'
    BY <1>5, UpdateTransitionGiven
  <1>6. CASE CreateTransitionHistory
    BY <1>6, CreateTransitionHistoryGiven
  <1>7. CASE StartWalk \/ ReadPage
    BY <1>1, <1>7 DEF StartWalk, ReadPage
  <1>8. CASE Reset
    <2>1. /\ transitions' = <<>> /\ histories' = <<>>
          /\ given'.transitions = <<>> /\ given'.histories = <<>>
      BY <1>8 DEF Reset
    <2> QED
      BY <2>1 DEF GivenInv
  <1>9. CASE UNCHANGED vars
    BY <1>1, <1>9 DEF vars
  <1> QED
    BY <1>2, <1>3, <1>4, <1>5, <1>6, <1>7, <1>8, <1>9 DEF Next

\* Every row is the one its caller gave, as the store keeps it, after any calls.
THEOREM StoresKeepWhatIsGiven == Spec => []GivenInv
  <1>1. Init => GivenInv
    <2> SUFFICES ASSUME Init PROVE GivenInv
      OBVIOUS
    <2>1. /\ transitions = <<>> /\ histories = <<>>
          /\ given.transitions = <<>> /\ given.histories = <<>>
      BY DEF Init
    <2> QED
      BY <2>1 DEF GivenInv
  <1>2. TypeOK /\ GivenInv /\ [Next]_vars => GivenInv'
    BY NextGiven
  <1> QED
    BY <1>1, <1>2, StoresTypeCorrect, PTL DEF Spec

-----------------------------------------------------------------------------
(* The stores answer alike. *)

LEMMA GivenTyped ==
  ASSUME TypeOK, GivenInv
  PROVE  /\ \A k \in DOMAIN transitions :
              /\ k \in Nat \ {0} /\ transitions[k] \in Transition
              /\ given.transitions[k] \in Transition
              /\ transitions[k] = Kept(given.transitions[k])
              /\ transitions[k].instance = given.transitions[k].instance
              /\ transitions[k].step = given.transitions[k].step
              /\ transitions[k].action = given.transitions[k].action
         /\ \A n \in DOMAIN histories :
              /\ given.histories[n] \in History
              /\ histories[n] = KeptEntry(given.histories[n])
  <1>1. /\ transitions \in Seq(Transition) /\ given.transitions \in Seq(Transition)
        /\ histories \in Seq(History) /\ given.histories \in Seq(History)
        /\ Len(given.transitions) = Len(transitions) /\ Len(given.histories) = Len(histories)
    BY DEF TypeOK, GivenInv
  <1>2. /\ \A k \in DOMAIN transitions : /\ k \in Nat \ {0} /\ transitions[k] \in Transition
                                         /\ given.transitions[k] \in Transition
        /\ \A n \in DOMAIN histories : given.histories[n] \in History
    BY <1>1
  <1>3. /\ \A k \in DOMAIN transitions : transitions[k] = Kept(given.transitions[k])
        /\ \A n \in DOMAIN histories : histories[n] = KeptEntry(given.histories[n])
    BY DEF GivenInv
  <1>4. \A k \in DOMAIN transitions :
          /\ transitions[k].instance = given.transitions[k].instance
          /\ transitions[k].step = given.transitions[k].step
          /\ transitions[k].action = given.transitions[k].action
    BY <1>2, <1>3, KeptKeeps
  <1> QED
    BY <1>2, <1>3, <1>4

LEMMA GivenReadBack == ASSUME TypeOK, GivenInv PROVE ReadBack
  <1>1. ASSUME NEW k \in DOMAIN transitions
        PROVE  /\ [transitions[k] EXCEPT !.input = Nil] = [given.transitions[k] EXCEPT !.input = Nil]
               /\ Reads(transitions[k].input, given.transitions[k].input)
    <2>1. given.transitions[k] \in Transition /\ transitions[k] = Kept(given.transitions[k])
      BY GivenTyped
    <2> QED
      BY <2>1, KeptKeeps
  <1>2. ASSUME NEW k \in DOMAIN transitions, NEW entry \in GetTransitionHistoryHandler(k)
        PROVE  /\ given.histories[entry.id].transition = k
               /\ Reads(entry.old, given.histories[entry.id].old)
               /\ Reads(entry.new, given.histories[entry.id].new)
    <2>1. GetTransitionByID(k) = {k} /\ k # 0
      BY GivenTyped DEF GetTransitionByID
    <2>2. GetTransitionByID(k) # {0}
      BY <2>1
    <2>3. PICK n \in ListTransitionHistory(k) :
            entry = [id |-> n, old |-> histories[n].old, new |-> histories[n].new]
      BY <2>2 DEF GetTransitionHistoryHandler
    <2>4. n \in DOMAIN histories /\ histories[n].transition = k
      BY DEF ListTransitionHistory
    <2>5. given.histories[n] \in History /\ histories[n] = KeptEntry(given.histories[n])
      BY <2>4, GivenTyped
    <2>6. /\ histories[n].transition = given.histories[n].transition
          /\ Reads(histories[n].old, given.histories[n].old)
          /\ Reads(histories[n].new, given.histories[n].new)
      BY <2>5, KeptEntryKeeps
    <2>7. entry.id = n /\ entry.old = histories[n].old /\ entry.new = histories[n].new
      BY <2>3
    <2> QED
      BY <2>4, <2>6, <2>7
  <1> QED
    BY <1>1, <1>2 DEF ReadBack

LEMMA InstanceFound ==
  ASSUME TypeOK, NEW u \in scope.users, NEW t \in scope.types, NEW i \in GetInstance(u, t)
  PROVE  /\ i = 0 => u = Anonymous \/ Active(u, t) = {}
         /\ i # 0 => i \in IF store = "gorm" THEN Of(u, t) ELSE Active(u, t)
  <1>1. Of(u, t) \in SUBSET (Nat \ {0}) /\ Active(u, t) \subseteq Of(u, t)
    <2>1. Of(u, t) \subseteq DOMAIN instances /\ Active(u, t) \subseteq Of(u, t)
      BY DEF Of, Active
    <2>2. DOMAIN instances \subseteq Nat \ {0}
      BY RowsTyped
    <2> QED
      BY <2>1, <2>2
  <1>2. Of(u, t) # {} => Min(Of(u, t)) \in Of(u, t)
    <2>1. Of(u, t) \in SUBSET Nat
      BY <1>1
    <2> QED
      BY <2>1, FirstOf
  <1>3. CASE store = "gorm"
    <2>1. GetInstance(u, t) = IF u = Anonymous \/ Of(u, t) = {} THEN {0} ELSE {Min(Of(u, t))}
      BY <1>3 DEF GetInstance, GormGetInstance
    <2> QED
      BY <1>1, <1>2, <1>3, <2>1
  <1>4. CASE store = "memory"
    <2>1. GetInstance(u, t) = IF Active(u, t) = {} THEN {0} ELSE Active(u, t)
      BY <1>4 DEF GetInstance, MemoryGetInstance
    <2> QED
      BY <1>1, <1>4, <2>1
  <1>5. CASE store = "mock"
    <2>1. GetInstance(u, t) = IF u = Anonymous THEN {0}
                              ELSE IF Active(u, t) = {} THEN {0} ELSE Active(u, t)
      BY <1>5 DEF GetInstance, MockGetInstance, MemoryGetInstance
    <2> QED
      BY <1>1, <1>5, <2>1
  <1> QED
    BY <1>3, <1>4, <1>5, StoreKindsAssumption DEF TypeOK

LEMMA TransitionFound ==
  ASSUME TypeOK, GivenInv, NEW i \in DOMAIN instances, NEW step \in Steps,
         NEW a \in ActionNames \cup {Blank}, NEW k \in GetTransition(i, step, a)
  PROVE  /\ k = 0 => Blank \in {a, step} \/ ~\E n \in ListTransitions(i) :
                       given.transitions[n].step = step /\ given.transitions[n].action = a
         /\ k # 0 => /\ given.transitions[k].instance = i
                     /\ given.transitions[k].step = step
                     /\ a \in {Blank, given.transitions[k].action}
  <1> DEFINE all == At(i, step)
             doing == Doing(a, all)
             found == IF a = Blank THEN all ELSE doing
  <1>1. /\ all \in SUBSET (Nat \ {0}) /\ all \subseteq DOMAIN transitions
        /\ \A n \in all : given.transitions[n].instance = i /\ given.transitions[n].step = step
    BY GivenTyped DEF At
  <1>2. doing \subseteq all /\ \A n \in doing : given.transitions[n].action = a
    BY <1>1, GivenTyped DEF Doing
  <1>3. ASSUME NEW n \in ListTransitions(i),
               given.transitions[n].step = step, given.transitions[n].action = a
        PROVE  n \in doing
    BY <1>3, GivenTyped DEF ListTransitions, Doing, At
  <1>4. GetTransition(i, step, a) =
          CASE store = "gorm"   -> IF step = Blank \/ found = {} THEN {0} ELSE {Min(found)}
            [] store = "memory" -> IF doing = {} THEN {0} ELSE doing
            [] store = "mock"   -> IF step = Blank \/ found = {} THEN {0} ELSE found
    BY DEF GetTransition, GormGetTransition, MemoryGetTransition, MockGetTransition
  <1> HIDE DEF all, doing
  <1>5. found \in SUBSET Nat /\ 0 \notin found /\ 0 \notin doing /\ found \subseteq all
        /\ (a # Blank => found = doing)
    BY <1>1, <1>2
  <1>6. found # {} => Min(found) \in found
    BY <1>5, FirstOf
  <1> HIDE DEF found
  <1>7. k = 0 => Blank \in {a, step} \/ doing = {}
    BY <1>4, <1>5, <1>6, StoreKindsAssumption DEF TypeOK
  <1>8. k # 0 => k \in doing \/ (a = Blank /\ k \in all)
    BY <1>4, <1>5, <1>6, StoreKindsAssumption DEF TypeOK
  <1>9. k # 0 => k \in all /\ (k \in doing \/ a = Blank)
    BY <1>2, <1>8
  <1> QED
    BY <1>1, <1>2, <1>3, <1>7, <1>9

LEMMA ListingAnswers ==
  ASSUME TypeOK, NEW f \in scope.filters, NEW s \in Listing(f),
         NEW limit \in Ints, NEW offset \in Ints
  PROVE  LET page == Page(s, limit, offset)
             left == Positive(Cardinality(Satisfying(f)) - Positive(offset))
         IN  /\ IsInjective(page)
             /\ Range(page) \subseteq Satisfying(f)
             /\ Len(page) = IF limit > 0 THEN Min({limit, left}) ELSE left
             /\ store = "gorm" => \A j \in 2 .. Len(page) :
                  instances[page[j]].created <= instances[page[j - 1]].created
  <1> DEFINE ids == Satisfying(f)
             page == Page(s, limit, offset)
             left == Positive(Cardinality(ids) - Positive(offset))
             skip == Positive(offset)
             n == PageLength(Cardinality(ids), limit, offset)
  <1>1. /\ s \in Seq(ids) /\ Len(s) = Cardinality(ids)
        /\ \A j, k \in DOMAIN s : s[j] = s[k] => j = k
        /\ (store = "gorm" => NewerFirst(s))
    BY ListingHolds DEF Enumerates
  <1>2. limit \in Int /\ offset \in Int
    BY PageSizeIs
  <1>3. n = IF limit > 0 THEN Min({limit, left}) ELSE left
    BY DEF PageLength, Left
  <1>4. ids \subseteq DOMAIN instances /\ \A i \in ids : instances[i].created \in Int
    BY FilterMeans, RowsTyped
  <1> HIDE DEF ids, page, left, skip, n
  <1>5. page \in Seq(ids) /\ Stretch(page, s, skip, n)
    BY <1>1, <1>2, PageIs DEF page, skip, n
  <1>6. /\ skip \in Nat /\ n \in Nat /\ Len(page) = n /\ DOMAIN page = 1 .. n
        /\ n = 0 \/ skip + n <= Len(s)
        /\ \A j \in 1 .. n : page[j] = s[skip + j]
    BY <1>5 DEF Stretch
  <1>7. Len(s) \in Nat /\ DOMAIN s = 1 .. Len(s) /\ \A j \in 1 .. Len(s) : s[j] \in ids
    BY <1>1
  <1>8. \A j \in 1 .. n : skip + j \in DOMAIN s
    BY <1>6, <1>7
  <1>9. IsInjective(page)
    <2> SUFFICES ASSUME NEW j \in 1 .. n, NEW k \in 1 .. n, page[j] = page[k] PROVE j = k
      BY <1>6 DEF IsInjective
    <2>1. skip + j = skip + k
      BY <1>1, <1>6, <1>8
    <2> QED
      BY <1>6, <2>1
  <1>10. Range(page) \subseteq ids
    BY <1>5, RangeWithin
  <1>11. ASSUME store = "gorm", NEW j \in 2 .. Len(page)
         PROVE  instances[page[j]].created <= instances[page[j - 1]].created
    <2>1. j \in 1 .. n /\ j - 1 \in 1 .. n /\ skip + (j - 1) < skip + j
      BY <1>6, <1>11
    <2>2. instances[s[skip + (j - 1)]].created >= instances[s[skip + j]].created
      BY <1>1, <1>8, <1>11, <2>1 DEF NewerFirst
    <2>3. s[skip + j] \in ids /\ s[skip + (j - 1)] \in ids
      BY <1>7, <1>8, <2>1
    <2>4. instances[s[skip + j]].created \in Int /\ instances[s[skip + (j - 1)]].created \in Int
      BY <1>4, <2>3
    <2>5. page[j] = s[skip + j] /\ page[j - 1] = s[skip + (j - 1)]
      BY <1>6, <2>1
    <2> QED
      BY <2>2, <2>4, <2>5
  <1>12. Len(page) = IF limit > 0 THEN Min({limit, left}) ELSE left
    BY <1>3, <1>6
  <1> QED
    BY <1>9, <1>10, <1>11, <1>12 DEF page, ids, left

\* memory/store.go:131-218, mock/store.go:285-338, gorm/store.go:179-325: whichever
\* store a program is given, listings, lookups and reads answer as the others do, but
\* for the order of rows that are not sorted, nil for {}, and finished instances, which
\* only the gorm store finds.
THEOREM StoresAgree == Spec => []StoresAnswerAlike
  <1>1. TypeOK => ListingsAnswer
    BY ListingAnswers DEF ListingsAnswer
  <1>2. TypeOK /\ GivenInv => LookupsAnswer
    BY InstanceFound, TransitionFound DEF LookupsAnswer
  <1>3. TypeOK /\ GivenInv => StoresAnswerAlike
    BY <1>1, <1>2, GivenReadBack DEF StoresAnswerAlike
  <1> QED
    BY <1>3, StoresTypeCorrect, StoresKeepWhatIsGiven, PTL

-----------------------------------------------------------------------------
(***************************************************************************)
(* The client that reads page by page.  That it has seen every row it       *)
(* started with when it is done follows from where an unseen row stands     *)
(* while it reads: at or after the offset, because only newer rows stand    *)
(* before it, of which there are never fewer.                               *)
(***************************************************************************)
Newer(f, i) == {j \in Satisfying(f) : instances[j].created > instances[i].created}

Distinct == \A i, j \in DOMAIN instances : i # j => instances[i].created # instances[j].created

Following ==
  /\ store = "gorm" /\ walk.stage # "none"
  /\ walk.filter.step = Blank /\ walk.filter.state = Blank /\ walk.filter.finished = Nil
  /\ Distinct

PagesInv ==
  Following =>
    /\ walk.start \subseteq Satisfying(walk.filter)
    /\ \A i \in walk.start :
         \/ i \in walk.seen
         \/ walk.stage = "reading" /\ Cardinality(Newer(walk.filter, i)) >= walk.offset

LEMMA FirstNumbers ==
  ASSUME NEW n \in Nat
  PROVE  IsFiniteSet(1 .. n) /\ Cardinality(1 .. n) = n
  BY FS_Interval

\* Rows that are newer than row p of a listing are those before it.
LEMMA PositionIs ==
  ASSUME TypeOK, NEW f \in scope.filters, NEW s, Enumerates(s, Satisfying(f)),
         NewerFirst(s), Distinct, NEW p \in DOMAIN s
  PROVE  Cardinality(Newer(f, s[p])) = p - 1
  <1> DEFINE ids == Satisfying(f)
             newer == Newer(f, s[p])
             at == [j \in 1 .. p - 1 |-> s[j]]
  <1>1. ids \subseteq DOMAIN instances /\ \A i \in ids : instances[i].created \in Int
    BY FilterMeans, RowsTyped
  <1>2. newer = {j \in ids : instances[j].created > instances[s[p]].created}
    BY DEF Newer
  <1>3. /\ Len(s) \in Nat /\ DOMAIN s = 1 .. Len(s) /\ \A j \in DOMAIN s : s[j] \in ids
        /\ \A j, k \in DOMAIN s : s[j] = s[k] => j = k
        /\ \A i \in ids : \E j \in DOMAIN s : s[j] = i
    BY DEF Enumerates
  <1> HIDE DEF ids, newer
  <1>4. ASSUME NEW j \in 1 .. p - 1 PROVE j \in DOMAIN s /\ s[j] \in newer
    <2>1. j \in DOMAIN s /\ j < p /\ j # p
      BY <1>3
    <2>2. s[j] # s[p] /\ s[j] \in ids /\ s[p] \in ids
      BY <1>3, <2>1
    <2>3. instances[s[j]].created # instances[s[p]].created
      BY <1>1, <2>2 DEF Distinct
    <2>4. instances[s[j]].created >= instances[s[p]].created
      BY <2>1 DEF NewerFirst
    <2>5. instances[s[j]].created \in Int /\ instances[s[p]].created \in Int
      BY <1>1, <2>2
    <2>6. instances[s[j]].created > instances[s[p]].created
      BY <2>3, <2>4, <2>5
    <2> QED
      BY <1>2, <2>1, <2>2, <2>6
  <1>5. ASSUME NEW i \in newer PROVE \E j \in 1 .. p - 1 : s[j] = i
    <2>1. PICK j \in DOMAIN s : s[j] = i
      BY <1>2, <1>3
    <2>2. instances[s[j]].created > instances[s[p]].created
      BY <1>2, <2>1
    <2>3. instances[s[j]].created \in Int /\ instances[s[p]].created \in Int
      BY <1>1, <1>3
    <2>4. ~(p < j)
      <3> SUFFICES ASSUME p < j PROVE FALSE
        OBVIOUS
      <3>1. instances[s[p]].created >= instances[s[j]].created
        BY <2>1 DEF NewerFirst
      <3> QED
        BY <2>2, <2>3, <3>1
    <2>5. p # j
      BY <2>2, <2>3
    <2>6. j \in 1 .. p - 1
      BY <1>3, <2>4, <2>5
    <2> QED
      BY <2>1, <2>6
  <1>6. at \in Bijection(1 .. p - 1, newer)
    <2>1. at \in [1 .. p - 1 -> newer]
      BY <1>4
    <2>2. \A j, k \in 1 .. p - 1 : at[j] = at[k] => j = k
      BY <1>3, <1>4
    <2>3. \A i \in newer : \E j \in 1 .. p - 1 : at[j] = i
      BY <1>5
    <2> HIDE DEF at
    <2>4. at \in Injection(1 .. p - 1, newer)
      BY <2>1, <2>2 DEF Injection, IsInjective
    <2>5. at \in Surjection(1 .. p - 1, newer)
      BY <2>1, <2>3 DEF Surjection
    <2> QED
      BY <2>4, <2>5 DEF Bijection
  <1>7. p - 1 \in Nat
    BY <1>3
  <1>8. IsFiniteSet(1 .. p - 1) /\ Cardinality(1 .. p - 1) = p - 1
    BY <1>7, FirstNumbers
  <1>9. Cardinality(newer) = p - 1
    BY <1>6, <1>8, FS_Bijection DEF ExistsBijection
  <1> QED
    BY <1>9 DEF newer

\* When rows are created or updated, no row that the filter holds leaves it, and no
\* row is overtaken by fewer.
LEMMA NewerRows ==
  ASSUME TypeOK, instances' \in Seq(Row), DOMAIN instances \subseteq DOMAIN instances',
         \A j \in DOMAIN instances : /\ instances'[j].user = instances[j].user
                                     /\ instances'[j].type = instances[j].type
                                     /\ instances'[j].created = instances[j].created,
         NEW f, f.step = Blank, f.state = Blank, f.finished = Nil
  PROVE  /\ Satisfying(f) \subseteq Satisfying(f)'
         /\ \A i \in Satisfying(f) : /\ Cardinality(Newer(f, i)) \in Nat
                                     /\ Cardinality(Newer(f, i)') \in Nat
                                     /\ Cardinality(Newer(f, i)) <= Cardinality(Newer(f, i)')
  <1>1. Satisfying(f) \subseteq Satisfying(f)'
    BY DEF Satisfying
  <1>2. ASSUME NEW i \in Satisfying(f)
        PROVE  /\ Cardinality(Newer(f, i)) \in Nat /\ Cardinality(Newer(f, i)') \in Nat
               /\ Cardinality(Newer(f, i)) <= Cardinality(Newer(f, i)')
    <2>1. Newer(f, i) \subseteq Newer(f, i)'
      <3>1. i \in DOMAIN instances /\ Satisfying(f) \subseteq DOMAIN instances
        BY DEF Satisfying
      <3> QED
        BY <1>1, <3>1 DEF Newer
    <2>2. Newer(f, i)' \subseteq DOMAIN instances'
      BY DEF Newer, Satisfying
    <2>3. Len(instances') \in Nat /\ DOMAIN instances' = 1 .. Len(instances')
      OBVIOUS
    <2>4. IsFiniteSet(DOMAIN instances')
      BY <2>3, FirstNumbers
    <2>5. IsFiniteSet(Newer(f, i)')
      BY <2>2, <2>4, FS_Subset
    <2> QED
      BY <2>1, <2>5, FS_Subset, FS_CardinalityType
  <1> QED
    BY <1>1, <1>2

LEMMA RowsPages ==
  ASSUME TypeOK, PagesInv, instances' \in Seq(Row), DOMAIN instances \subseteq DOMAIN instances',
         \A j \in DOMAIN instances : /\ instances'[j].user = instances[j].user
                                     /\ instances'[j].type = instances[j].type
                                     /\ instances'[j].created = instances[j].created,
         UNCHANGED <<store, scope, transitions, histories, given, walk>>
  PROVE  PagesInv'
  <1>1. PICK f : f = walk.filter
    OBVIOUS
  <1>2. PICK offset : offset = walk.offset
    OBVIOUS
  <1> SUFFICES ASSUME Following'
               PROVE  /\ walk.start \subseteq Satisfying(f)'
                      /\ \A i \in walk.start :
                           \/ i \in walk.seen
                           \/ walk.stage = "reading" /\ Cardinality(Newer(f, i)') >= offset
    BY <1>1, <1>2 DEF PagesInv
  <1>3. f.step = Blank /\ f.state = Blank /\ f.finished = Nil /\ walk.stage # "none"
    BY <1>1 DEF Following
  <1>4. Following
    BY DEF Following, Distinct
  <1>5. /\ walk.start \subseteq Satisfying(f)
        /\ \A i \in walk.start :
             i \in walk.seen \/ (walk.stage = "reading" /\ Cardinality(Newer(f, i)) >= offset)
    BY <1>1, <1>2, <1>4 DEF PagesInv
  <1>6. offset \in Nat
    BY <1>2, <1>3, WalkFields
  <1>7. /\ Satisfying(f) \subseteq Satisfying(f)'
        /\ \A i \in Satisfying(f) : /\ Cardinality(Newer(f, i)) \in Nat
                                    /\ Cardinality(Newer(f, i)') \in Nat
                                    /\ Cardinality(Newer(f, i)) <= Cardinality(Newer(f, i)')
    BY <1>3, NewerRows
  <1> QED
    BY <1>5, <1>6, <1>7

LEMMA StartWalkPages == ASSUME TypeOK, StartWalk PROVE PagesInv'
  <1>1. PICK g \in HandlerFilters, limit \in Ints :
          walk' = [stage |-> "reading", filter |-> g, limit |-> limit, offset |-> 0,
                   start |-> applyInstanceFilter(g), seen |-> {}]
    BY DEF StartWalk
  <1>2. PICK f : f = g
    OBVIOUS
  <1>3. /\ walk'.stage = "reading" /\ walk'.filter = f /\ walk'.offset = 0
        /\ walk'.start = applyInstanceFilter(f)
    BY <1>1, <1>2
  <1>4. f \in scope.filters /\ UNCHANGED <<store, scope, instances>>
    BY <1>2 DEF HandlerFilters, StartWalk
  <1>5. applyInstanceFilter(f) = Satisfying(f) /\ Satisfying(f)' = Satisfying(f)
    BY <1>4, FilterMeans DEF Satisfying
  <1>6. ASSUME NEW i \in Satisfying(f)
        PROVE  Cardinality(Newer(f, i)') >= 0
    <2>1. Newer(f, i)' = Newer(f, i)
      BY <1>4, <1>5 DEF Newer
    <2>2. IsFiniteSet(Satisfying(f)) /\ Newer(f, i) \subseteq Satisfying(f)
      BY <1>4, FilterMeans DEF Newer
    <2>3. Cardinality(Newer(f, i)) \in Nat
      BY <2>2, FS_Subset, FS_CardinalityType
    <2> QED
      BY <2>1, <2>3
  <1> QED
    BY <1>3, <1>5, <1>6 DEF PagesInv

LEMMA ReadPagePages == ASSUME TypeOK, PagesInv, ReadPage PROVE PagesInv'
  <1>1. PICK f : f = walk.filter
    OBVIOUS
  <1> DEFINE ids == Satisfying(f)
             total == Cardinality(ids)
             size == PageSize(walk.limit)
             offset == walk.offset
             n == PageLength(total, size, offset)
  <1>2. PICK s \in Listing(walk.filter), page \in Seq(Satisfying(walk.filter)) :
          /\ Enumerates(s, Satisfying(walk.filter)) /\ (store = "gorm" => NewerFirst(s))
          /\ Stretch(page, s, offset, PageLength(Cardinality(Satisfying(walk.filter)), size, offset))
          /\ walk' = [walk EXCEPT
                        !.seen = @ \cup Range(page),
                        !.offset = @ + Len(page),
                        !.stage = IF Len(page) < size THEN "done" ELSE @]
    BY PageRead
  <1>3. Enumerates(s, ids) /\ (store = "gorm" => NewerFirst(s)) /\ Stretch(page, s, offset, n)
    BY <1>1, <1>2
  <1>4. /\ f \in scope.filters /\ walk.limit \in Ints /\ offset \in Nat
        /\ walk.stage = "reading"
    BY <1>1, WalkFields DEF ReadPage
  <1>5. size \in Nat /\ total \in Nat /\ n \in Nat
        /\ n = IF size <= Left(total, offset) THEN size ELSE Left(total, offset)
    <2>1. size \in Nat /\ size > 0
      BY <1>4, PageSizeIs
    <2>2. total \in Nat
      BY <1>4, FilterMeans
    <2> HIDE DEF size, total, offset
    <2>3. size \in Int /\ offset \in Int
      BY <1>4, <2>1
    <2> QED
      BY <2>1, <2>2, <2>3, PageLengthIs
  <1>6. Left(total, offset) = IF offset < total THEN total - offset ELSE 0
    <2> HIDE DEF total, offset
    <2>1. offset \in Int /\ offset >= 0
      BY <1>4
    <2>2. Positive(offset) = offset
      BY <2>1, <1>5, LeftIs
    <2> QED
      BY <1>5, <2>1, <2>2, LeftIs
  <1> DEFINE rows == Range(page)
             more == Len(page)
             stage == IF more < size THEN "done" ELSE walk.stage
  <1>7. /\ walk'.seen = walk.seen \cup rows /\ walk'.offset = offset + more
        /\ walk'.stage = stage /\ walk'.filter = f /\ walk'.start = walk.start
    <2>1. DOMAIN walk = {"stage", "filter", "limit", "offset", "start", "seen"}
      BY <1>4, WalkFields
    <2> QED
      BY <1>1, <1>2, <2>1
  <1>8. UNCHANGED <<store, instances>>
    BY DEF ReadPage
  <1>9. Satisfying(f)' = ids /\ \A i : Newer(f, i)' = Newer(f, i)
    BY <1>8 DEF Satisfying, Newer
  <1>10. /\ more = n /\ DOMAIN page = 1 .. n
         /\ \A j \in 1 .. n : page[j] = s[offset + j]
    BY <1>3 DEF Stretch
  <1> HIDE DEF ids, total, size, offset, n, rows, more, stage
  <1> SUFFICES ASSUME Following'
               PROVE  /\ walk.start \subseteq ids
                      /\ \A i \in walk.start :
                           \/ i \in walk.seen \cup rows
                           \/ stage = "reading" /\ Cardinality(Newer(f, i)) >= offset + more
    BY <1>7, <1>9 DEF PagesInv
  <1>11. Following
    BY <1>1, <1>4, <1>7, <1>8 DEF Following, Distinct
  <1>12. store = "gorm" /\ Distinct
    BY <1>11 DEF Following
  <1>13. /\ walk.start \subseteq ids
         /\ \A i \in walk.start : i \in walk.seen \/ Cardinality(Newer(f, i)) >= offset
    BY <1>1, <1>11 DEF PagesInv, ids, offset
  <1>14. ASSUME NEW i \in walk.start, i \notin walk.seen
         PROVE  \/ i \in rows
                \/ stage = "reading" /\ Cardinality(Newer(f, i)) >= offset + more
    <2>1. PICK p \in DOMAIN s : s[p] = i
      BY <1>3, <1>13 DEF Enumerates
    <2>2. /\ s \in Seq(ids) /\ Len(s) = total
      BY <1>3 DEF Enumerates, total
    <2>3. p \in Nat /\ p >= 1 /\ p <= total
      BY <2>1, <2>2
    <2>4. Cardinality(Newer(f, i)) = p - 1
      BY <1>3, <1>4, <1>12, <2>1, PositionIs DEF ids
    <2>5. p > offset
      BY <1>4, <1>13, <1>14, <2>3, <2>4
    <2>6. CASE p <= offset + n
      <3>1. p - offset \in 1 .. n /\ offset + (p - offset) = p
        BY <1>4, <1>5, <2>3, <2>5, <2>6
      <3>2. p - offset \in DOMAIN page /\ page[p - offset] = i
        BY <1>10, <2>1, <3>1
      <3> QED
        BY <3>2 DEF rows, Range
    <2>7. CASE ~(p <= offset + n)
      <3>1. Cardinality(Newer(f, i)) >= offset + more
        BY <1>4, <1>5, <1>10, <2>3, <2>4, <2>7
      <3>2. ~(n < size)
        BY <1>4, <1>5, <1>6, <2>3, <2>5, <2>7
      <3>3. stage = "reading"
        BY <1>4, <1>10, <3>2 DEF stage
      <3> QED
        BY <3>1, <3>3
    <2> QED
      BY <2>6, <2>7
  <1> QED
    BY <1>13, <1>14

LEMMA NextPages == ASSUME TypeOK, PagesInv, [Next]_vars PROVE PagesInv'
  <1>1. CASE UNCHANGED <<store, instances, walk>>
    BY <1>1 DEF PagesInv, Following, Distinct, Newer, Satisfying
  <1>2. ASSUME NEW u \in scope.users, NEW t \in scope.types,
               CreateInstance(u, t) \/ FailedTransaction(u, t)
        PROVE  PagesInv'
    <2>1. CASE UNCHANGED vars
      BY <1>1, <2>1 DEF vars
    <2>2. CASE CreateInstance(u, t)
      <3>1. InsertInstance(u, t)
        BY <2>2 DEF CreateInstance, GormCreateInstance, MemoryCreateInstance, MockCreateInstance
      <3> QED
        BY <3>1, NewRowTyped, RowsPages
    <2> QED
      BY <1>2, <2>1, <2>2 DEF FailedTransaction
  <1>3. ASSUME NEW i \in DOMAIN instances, UpdateInstance(i) PROVE PagesInv'
    BY <1>3, UpdatedRows, RowsPages
  <1>4. CASE CreateTransition
    BY <1>1, <1>4 DEF CreateTransition
  <1>5. ASSUME NEW k \in DOMAIN transitions, UpdateTransition(k) PROVE PagesInv'
    <2>1. UNCHANGED <<store, instances, walk>>
      BY <1>5, UpdatedTransitions
    <2> QED
      BY <1>1, <2>1
  <1>6. CASE CreateTransitionHistory
    BY <1>1, <1>6 DEF CreateTransitionHistory
  <1>7. CASE StartWalk
    BY <1>7, StartWalkPages
  <1>8. CASE ReadPage
    BY <1>8, ReadPagePages
  <1>9. CASE Reset
    BY <1>9 DEF Reset, PagesInv, Following
  <1>10. CASE UNCHANGED vars
    BY <1>1, <1>10 DEF vars
  <1> QED
    BY <1>2, <1>3, <1>4, <1>5, <1>6, <1>7, <1>8, <1>9, <1>10 DEF Next

\* gorm/store.go:256: ordered by the time of creation, newest first, the pages that a
\* client reads hold every instance of a type or user that was there when it started,
\* for any number of rows, any page size, and any calls between two pages.
THEOREM PagingMissesNothing == Spec => []PagingSkipsNothing
  <1>1. Init => PagesInv
    BY DEF Init, PagesInv, Following
  <1>2. TypeOK /\ PagesInv /\ [Next]_vars => PagesInv'
    BY NextPages
  <1>3. PagesInv => PagingSkipsNothing
    BY DEF PagesInv, Following, Distinct, PagingSkipsNothing
  <1> QED
    BY <1>1, <1>2, <1>3, StoresTypeCorrect, PTL DEF Spec
==============================================================================
