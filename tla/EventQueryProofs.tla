---------------------------- MODULE EventQueryProofs ----------------------------
(***************************************************************************)
(* Proofs about EventQuery, for any events, requests, limits and order of  *)
(* saves: the answer of the query is the newest visible events that the    *)
(* live matcher accepts.                                                   *)
(***************************************************************************)
EXTENDS EventQuery, FiniteSetTheorems, SequenceTheorems, WellFoundedInduction, TLAPS

-----------------------------------------------------------------------------
(* Text.                                                                   *)

LEMMA SamePrefix ==
  ASSUME NEW a \in Text, NEW b \in Text, NEW n \in Nat, n <= Len(a), n <= Len(b)
  PROVE  SubSeq(a, 1, n) = SubSeq(b, 1, n) <=> \A j \in 1 .. n : a[j] = b[j]
<1> USE DEF Text
<1>1. /\ SubSeq(a, 1, n) \in Seq(Nat) /\ Len(SubSeq(a, 1, n)) = n
      /\ \A j \in 1 .. n : SubSeq(a, 1, n)[j] = a[j]
  OBVIOUS
<1>2. /\ SubSeq(b, 1, n) \in Seq(Nat) /\ Len(SubSeq(b, 1, n)) = n
      /\ \A j \in 1 .. n : SubSeq(b, 1, n)[j] = b[j]
  OBVIOUS
<1> QED
  BY <1>1, <1>2, SeqEqual

LEMMA BeforeByDigits ==
  ASSUME NEW a \in Text, NEW b \in Text
  PROVE  Before(a, b) <=>
           \E n \in Nat : /\ n <= Len(a) /\ n < Len(b)
                          /\ \A j \in 1 .. n : a[j] = b[j]
                          /\ n = Len(a) \/ a[n + 1] < b[n + 1]
  BY SamePrefix DEF Before, Text

LEMMA BeforeIrreflexive ==
  ASSUME NEW a \in Text
  PROVE  ~Before(a, a)
  BY BeforeByDigits DEF Text

LEMMA BeforeTransitive ==
  ASSUME NEW a \in Text, NEW b \in Text, NEW c \in Text, Before(a, b), Before(b, c)
  PROVE  Before(a, c)
<1> USE DEF Text
<1>1. PICK n \in Nat : /\ n <= Len(a) /\ n < Len(b)
                       /\ \A j \in 1 .. n : a[j] = b[j]
                       /\ n = Len(a) \/ a[n + 1] < b[n + 1]
  BY BeforeByDigits
<1>2. PICK m \in Nat : /\ m <= Len(b) /\ m < Len(c)
                       /\ \A j \in 1 .. m : b[j] = c[j]
                       /\ m = Len(b) \/ b[m + 1] < c[m + 1]
  BY BeforeByDigits
<1>3. CASE n <= m
  <2>1. n <= Len(a) /\ n < Len(c) /\ \A j \in 1 .. n : a[j] = c[j]
    BY <1>1, <1>2, <1>3
  <2>2. n = Len(a) \/ a[n + 1] < c[n + 1]
    BY <1>1, <1>2, <1>3
  <2> QED
    BY <2>1, <2>2, BeforeByDigits
<1>4. CASE m < n
  <2>1. m <= Len(a) /\ m < Len(c) /\ \A j \in 1 .. m : a[j] = c[j]
    BY <1>1, <1>2, <1>4
  <2>2. a[m + 1] < c[m + 1]
    BY <1>1, <1>2, <1>4
  <2> QED
    BY <2>1, <2>2, BeforeByDigits
<1> QED
  BY <1>3, <1>4

LEMMA StartsByDigits ==
  ASSUME NEW v \in Text, NEW p \in Text
  PROVE  StartsWith(v, p) <=> Len(p) <= Len(v) /\ \A j \in 1 .. Len(p) : v[j] = p[j]
<1>1. Len(p) <= Len(v) => (SubSeq(v, 1, Len(p)) = SubSeq(p, 1, Len(p)) <=> \A j \in 1 .. Len(p) : v[j] = p[j])
  BY SamePrefix DEF Text
<1>2. SubSeq(p, 1, Len(p)) = p
  BY SubSeqFull DEF Text
<1> QED
  BY <1>1, <1>2 DEF StartsWith

\* The range from a prefix up to the prefix and the highest digit holds the
\* keys that start with it, whatever digits the prefix has.
LEMMA PrefixIsRange ==
  ASSUME NEW v \in Keys, NEW p \in Text
  PROVE  (~Before(v, p) /\ Before(v, Append(p, Highest))) <=> StartsWith(v, p)
<1> DEFINE q == Append(p, Highest)
<1>1. /\ v \in Text /\ FullLength \in Nat /\ Len(v) = FullLength
      /\ \A n \in 1 .. Len(v) : v[n] < Highest /\ v[n] \in Nat
  BY QueryAssumption DEF Keys, Text
<1>2. /\ Highest \in Nat /\ q \in Text /\ Len(q) = Len(p) + 1 /\ q[Len(p) + 1] = Highest
      /\ \A j \in 1 .. Len(p) : q[j] = p[j]
  BY QueryAssumption DEF Text
<1> HIDE DEF q
<1>3. Len(p) \in Nat
  BY DEF Text
<1>4. ASSUME StartsWith(v, p) PROVE ~Before(v, p) /\ Before(v, q)
  <2>1. Len(p) <= Len(v) /\ \A j \in 1 .. Len(p) : v[j] = p[j]
    BY <1>1, <1>4, StartsByDigits
  <2>2. ~Before(v, p)
    <3> SUFFICES ASSUME NEW n \in Nat, n <= Len(v), n < Len(p), n = Len(v) \/ v[n + 1] < p[n + 1]
                 PROVE  FALSE
      BY <1>1, BeforeByDigits
    <3> QED
      BY <1>1, <1>3, <2>1
  <2>3. Len(p) = Len(v) \/ v[Len(p) + 1] < q[Len(p) + 1]
    BY <1>1, <1>2, <1>3, <2>1
  <2>4. \A j \in 1 .. Len(p) : v[j] = q[j]
    BY <1>2, <1>3, <2>1
  <2>5. Before(v, q)
    <3>1. \E n \in Nat : /\ n <= Len(v) /\ n < Len(q)
                         /\ \A j \in 1 .. n : v[j] = q[j]
                         /\ n = Len(v) \/ v[n + 1] < q[n + 1]
      <4> WITNESS Len(p) \in Nat
      <4> QED
        BY <1>2, <1>3, <2>1, <2>3, <2>4
    <3> QED
      BY <1>1, <1>2, <3>1, BeforeByDigits
  <2> QED
    BY <2>2, <2>5
<1>5. ASSUME ~Before(v, p), Before(v, q) PROVE StartsWith(v, p)
  <2>1. PICK n \in Nat : /\ n <= Len(v) /\ n < Len(q)
                         /\ \A j \in 1 .. n : v[j] = q[j]
                         /\ n = Len(v) \/ v[n + 1] < q[n + 1]
    BY <1>1, <1>2, <1>5, BeforeByDigits
  <2>2. n = Len(p)
    <3> SUFFICES ASSUME n < Len(p) PROVE FALSE
      BY <1>2, <1>3, <2>1
    <3>1. (\A j \in 1 .. n : v[j] = p[j]) /\ (n = Len(v) \/ v[n + 1] < p[n + 1])
      BY <1>2, <1>3, <2>1
    <3> QED
      BY <1>1, <1>5, <2>1, <3>1, BeforeByDigits
  <2> QED
    BY <1>1, <1>2, <2>1, <2>2, StartsByDigits
<1> QED
  BY <1>4, <1>5 DEF q

\* An exact value or a range in SQL is a prefix of the live matcher.
LEMMA RangesAreMatches ==
  ASSUME NEW v \in Keys, NEW prefixes \in SUBSET Text
  PROVE  InRange(v, prefixes) <=> \E p \in prefixes : StartsWith(v, p)
<1>1. v \in Text /\ Len(v) = FullLength
  BY DEF Keys
<1>2. ASSUME NEW p \in Text, Len(p) = FullLength PROVE v = p <=> StartsWith(v, p)
  <2>1. SubSeq(v, 1, Len(p)) = v
    BY <1>1, <1>2, SubSeqFull DEF Text
  <2> QED
    BY <1>1, <1>2, <2>1 DEF StartsWith, Text
<1>3. ASSUME NEW p \in Text
      PROVE  (IF Len(p) = FullLength THEN v = p
              ELSE ~Before(v, p) /\ Before(v, Append(p, Highest))) <=> StartsWith(v, p)
  BY <1>2, PrefixIsRange
<1> QED
  BY <1>3 DEF InRange

-----------------------------------------------------------------------------
(* Order and limits.                                                       *)

LEMMA NewerIsStrict ==
  /\ \A e \in Events : ~Newer(e, e)
  /\ \A c, d, e \in Events : Newer(c, d) /\ Newer(d, e) => Newer(c, e)
<1>1. \A e \in Events : e.id \in Text /\ e.created \in Nat
  BY QueryAssumption DEF Keys
<1>2. \A e \in Events : ~Newer(e, e)
  BY <1>1, BeforeIrreflexive DEF Newer
<1>3. ASSUME NEW c \in Events, NEW d \in Events, NEW e \in Events, Newer(c, d), Newer(d, e)
      PROVE  Newer(c, e)
  <2>1. Before(e.id, d.id) /\ Before(d.id, c.id) => Before(e.id, c.id)
    BY <1>1, BeforeTransitive
  <2> QED
    BY <1>1, <1>3, <2>1 DEF Newer
<1> QED
  BY <1>2, <1>3

\* Some event of a set is followed by none.
LEMMA NewestExists ==
  ASSUME NEW S \in SUBSET Events, S # {}
  PROVE  \E x \in S : \A y \in S : ~Newer(y, x)
<1> DEFINE Above(x) == {d \in Events : Newer(d, x)}
           F == {Above(x) : x \in S}
<1>0. \A x \in S : Above(x) \in SUBSET Events /\ IsFiniteSet(Above(x))
  BY QueryAssumption, FS_Subset
<1>1. F \subseteq FiniteSubsetsOf(Events) /\ F # {}
  <2> HIDE DEF Above
  <2> QED
    BY <1>0 DEF FiniteSubsetsOf
<1>2. PICK X \in F : \A Y \in F : <<Y, X>> \notin StrictSubsetOrdering(Events)
  <2> HIDE DEF F
  <2> QED
    BY <1>1, FS_StrictSubsetOrderingWellFounded, WFMin
<1>3. PICK x \in S : X = Above(x)
  OBVIOUS
<1>4. ASSUME NEW y \in S, Newer(y, x) PROVE FALSE
  <2>1. Above(y) \subseteq Above(x) /\ y \in Above(x) /\ y \notin Above(y)
    BY <1>4, NewerIsStrict
  <2> HIDE DEF Above
  <2>2. <<Above(y), Above(x)>> \in StrictSubsetOrdering(Events)
    BY <1>0, <2>1 DEF StrictSubsetOrdering
  <2> QED
    BY <1>2, <1>3, <2>2
<1> QED
  BY <1>4

LEMMA CountsOfEvents ==
  ASSUME NEW S \in SUBSET Events, NEW R \in SUBSET S
  PROVE  /\ Cardinality(R) \in Nat /\ Cardinality(S) \in Nat
         /\ Cardinality(R) <= Cardinality(S)
<1>1. IsFiniteSet(S) /\ IsFiniteSet(R)
  BY QueryAssumption, FS_Subset
<1> QED
  BY <1>1, FS_Subset, FS_CardinalityType

\* Cutting each part of a set to its n newest loses none of the n newest of
\* the whole: an event that is cut has n newer ones in its part.
LEMMA NewestOfParts ==
  ASSUME NEW I, NEW T \in [I -> SUBSET Events], NEW n \in Nat
  PROVE  Newest(UNION {Newest(T[i], n) : i \in I}, n) = Newest(UNION {T[i] : i \in I}, n)
<1> DEFINE S == UNION {T[i] : i \in I}
           U == UNION {Newest(T[i], n) : i \in I}
           Above(R, e) == {d \in R : Newer(d, e)}
<1>1. U \subseteq S /\ S \subseteq Events
  BY DEF Newest
<1>2. ASSUME NEW e \in Newest(S, n) PROVE e \in Newest(U, n)
  <2>1. e \in S /\ Cardinality(Above(S, e)) < n
    BY DEF Newest
  <2>2. PICK i \in I : e \in T[i]
    BY <2>1
  <2>3. Cardinality(Above(T[i], e)) < n /\ Cardinality(Above(U, e)) < n
    <3>1. /\ Above(S, e) \in SUBSET Events
          /\ Above(T[i], e) \in SUBSET Above(S, e) /\ Above(U, e) \in SUBSET Above(S, e)
      BY <1>1
    <3> HIDE DEF Above, U, S
    <3> QED
      BY <2>1, <3>1, CountsOfEvents
  <2>4. e \in Newest(T[i], n)
    BY <2>2, <2>3 DEF Newest
  <2>5. e \in U
    BY <2>4
  <2> QED
    BY <2>3, <2>5 DEF Newest
<1>3. ASSUME NEW e \in Newest(U, n) PROVE e \in Newest(S, n)
  <2>1. e \in S /\ e \in U /\ Cardinality(Above(U, e)) < n
    BY <1>1 DEF Newest
  <2>2. SUFFICES Above(S, e) \subseteq U
    <3>1. Above(S, e) \subseteq U => Above(S, e) = Above(U, e)
      BY <1>1
    <3> QED
      BY <2>1, <2>2, <3>1 DEF Newest
  <2>3. SUFFICES ASSUME Above(S, e) \ U # {} PROVE FALSE
    OBVIOUS
  <2>4. PICK x \in Above(S, e) \ U : \A y \in Above(S, e) \ U : ~Newer(y, x)
    <3>1. Above(S, e) \ U \in SUBSET Events
      BY <1>1
    <3> HIDE DEF Above, U, S
    <3> QED
      BY <2>3, <3>1, NewestExists
  <2>5. PICK j \in I : x \in T[j]
    BY <2>4
  <2>6. Above(T[j], x) \in SUBSET Above(U, e)
    BY <1>1, <2>1, <2>4, <2>5, NewerIsStrict
  <2>7. Cardinality(Above(T[j], x)) < n
    <3>1. Above(U, e) \in SUBSET Events
      BY <1>1
    <3> HIDE DEF Above, U, S
    <3> QED
      BY <2>1, <2>6, <3>1, CountsOfEvents
  <2>8. x \in Newest(T[j], n)
    BY <2>5, <2>7 DEF Newest
  <2>9. x \in U
    BY <2>8
  <2> QED
    BY <2>4, <2>9
<1>4. Newest(U, n) = Newest(S, n)
  <2> HIDE DEF U, S
  <2>1. Newest(U, n) \subseteq Newest(S, n) /\ Newest(S, n) \subseteq Newest(U, n)
    BY <1>2, <1>3
  <2> QED
    BY <2>1
<1> QED
  BY <1>4

\* A set of integers that are bounded from above has a largest one.
LEMMA LargestExists ==
  ASSUME NEW A \in SUBSET Int, A # {}, NEW b \in Int, \A a \in A : a < b
  PROVE  \E n \in A : \A a \in A : a <= n
<1> DEFINE F == {a .. b : a \in A}
<1>1. F \subseteq FiniteSubsetsOf(Int) /\ F # {}
  <2>1. \A a \in A : a .. b \in SUBSET Int /\ IsFiniteSet(a .. b)
    BY FS_Interval
  <2> QED
    BY <2>1 DEF FiniteSubsetsOf
<1>2. PICK X \in F : \A Y \in F : <<Y, X>> \notin StrictSubsetOrdering(Int)
  <2> HIDE DEF F
  <2> QED
    BY <1>1, FS_StrictSubsetOrderingWellFounded, WFMin
<1>3. PICK n \in A : X = n .. b
  OBVIOUS
<1>4. ASSUME NEW a \in A, n < a PROVE FALSE
  <2>1. a .. b \in SUBSET Int /\ n .. b \in SUBSET Int /\ a .. b \subseteq n .. b /\ a .. b # n .. b
    BY <1>4
  <2>2. <<a .. b, n .. b>> \in StrictSubsetOrdering(Int)
    BY <2>1 DEF StrictSubsetOrdering
  <2> QED
    BY <1>2, <1>3, <2>2
<1> QED
  BY <1>4

-----------------------------------------------------------------------------
(* Normalization.                                                          *)

\* What is left of a received filter has its types.
LEMMA NormalizedTyped ==
  ASSUME NEW req \in Requests, NEW i \in DOMAIN Normalized(req), NEW f, f = Normalized(req)[i]
  PROVE  /\ Has(f, "ids") => Range(f.ids) \subseteq Text
         /\ Has(f, "authors") => Range(f.authors) \subseteq Text
         /\ Has(f, "limit") => f.limit \in Int
<1> DEFINE raw == req[i]
<1>1. raw # NoObject /\ TypesAreTold(raw) /\ f = Clean(raw)
  BY QueryAssumption DEF Normalized
<1>2. \A g \in DOMAIN f : g \in DOMAIN raw /\ TypeOf(g) \in raw[g].types /\ f[g] = raw[g].value
  BY <1>1 DEF Clean
<1>3. TypeOf("ids") = "strings" /\ TypeOf("authors") = "strings" /\ TypeOf("limit") = "integer"
  BY QueryAssumption DEF TypeOf
<1>4. \A vs \in Seq(Text) : Range(vs) \subseteq Text
  BY DEF Range
<1> QED
  BY <1>1, <1>2, <1>3, <1>4 DEF TypesAreTold, Has

LEMMA LimitPositive ==
  ASSUME NEW req \in Requests, Accepted(req)
  PROVE  Limit(Normalized(req)) \in Nat \ {0}
<1> DEFINE fs == Normalized(req)
           asked == {fs[i].limit : i \in {j \in DOMAIN fs : Has(fs[j], "limit")}}
           largest == CHOOSE n \in asked : \A a \in asked : a <= n
<1>1. ASSUME NEW a \in asked PROVE a \in Int /\ a < MaxInteger
  <2>1. PICK i \in DOMAIN fs : Has(fs[i], "limit") /\ a = fs[i].limit
    OBVIOUS
  <2>2. a \in Int
    BY <2>1, NormalizedTyped
  <2>3. InBounds(fs[i])
    BY <2>1 DEF Accepted
  <2>4. "limit" \notin Lists
    BY QueryAssumption DEF Lists
  <2>5. a \in IntegersOf(fs[i])
    BY <2>1, <2>4 DEF IntegersOf, Has
  <2>6. a < MaxInteger
    BY <2>3, <2>5 DEF InBounds
  <2> QED
    BY <2>2, <2>6
<1>2. DefaultLimit \in Nat \ {0} /\ MaxLimit \in Nat \ {0} /\ MaxInteger \in Int
  BY QueryAssumption
<1>3. asked # {} => largest \in Int
  <2> HIDE DEF asked
  <2>1. asked # {} => \E n \in asked : \A a \in asked : a <= n
    BY <1>1, <1>2, LargestExists
  <2> QED
    BY <1>1, <2>1
<1>4. Limit(fs) = IF asked = {} THEN DefaultLimit
                  ELSE IF largest > MaxLimit THEN MaxLimit ELSE IF largest < 1 THEN 1 ELSE largest
  BY DEF Limit
<1> HIDE DEF asked, largest
<1> QED
  BY <1>2, <1>3, <1>4

-----------------------------------------------------------------------------
(* The tables.                                                             *)

\* The tables follow from the stored events, whatever the order they came in
\* and whichever release stored them.
TablesInv ==
  /\ rows \subseteq Events
  /\ open \in BOOLEAN /\ indexed \in BOOLEAN
  /\ open => indexed
  /\ index = IF indexed THEN UNION {TagRows(e) : e \in rows} ELSE {}
  /\ deletions = UNION {Tombstones(e) : e \in rows}

LEMMA TablesInit == Init => TablesInv
  BY DEF Init, TablesInv

LEMMA TablesStep == TablesInv /\ [Next]_vars => TablesInv'
<1> SUFFICES ASSUME TablesInv, [Next]_vars PROVE TablesInv'
  OBVIOUS
<1>1. CASE Open
  BY <1>1 DEF Open, TablesInv
<1>2. CASE Close
  BY <1>2 DEF Close, TablesInv
<1>3. ASSUME NEW e \in Events, Save(e) PROVE TablesInv'
  <2>1. rows' = rows \cup {e} /\ UNCHANGED <<open, indexed>> /\ indexed
    BY <1>3 DEF Save, TablesInv
  <2>2. index' = UNION {TagRows(d) : d \in rows'}
    <3> DEFINE All(S) == UNION {TagRows(d) : d \in S}
    <3>1. \A S : \A x : x \in All(S) <=> \E d \in S : x \in TagRows(d)
      OBVIOUS
    <3> HIDE DEF All
    <3>2. All(rows \cup {e}) = All(rows) \cup TagRows(e)
      BY <3>1
    <3> USE DEF All
    <3> QED
      BY <1>3, <2>1, <3>2 DEF Save, TablesInv
  <2>3. deletions' = UNION {Tombstones(d) : d \in rows'}
    <3> DEFINE All(S) == UNION {Tombstones(d) : d \in S}
    <3>1. \A S : \A x : x \in All(S) <=> \E d \in S : x \in Tombstones(d)
      OBVIOUS
    <3> HIDE DEF All
    <3>2. All(rows \cup {e}) = All(rows) \cup Tombstones(e)
      BY <3>1
    <3> USE DEF All
    <3> QED
      BY <1>3, <2>1, <3>2 DEF Save, TablesInv
  <2> QED
    BY <2>1, <2>2, <2>3 DEF TablesInv
<1>4. CASE UNCHANGED vars
  BY <1>4 DEF vars, TablesInv
<1> QED
  BY <1>1, <1>2, <1>3, <1>4 DEF Next

\* In every reachable state event_tags and deletions hold what the stored
\* events imply, no more and no less (save and _migrate of EventStore).
THEOREM TablesFollow == Spec => []TablesInv
  BY TablesInit, TablesStep, PTL DEF Spec

-----------------------------------------------------------------------------
(* The query.                                                              *)

\* Tombstones name hidden events, and only those.
LEMMA VisibleIsUndeleted ==
  ASSUME TablesInv, NEW e \in rows
  PROVE  <<e.id, e.author>> \notin deletions <=> Visible(e)
<1>1. ASSUME NEW d \in rows
      PROVE  <<e.id, e.author>> \in Tombstones(d) <=>
               /\ d.kind = 5 /\ d.author = e.author /\ d # e
               /\ \E t \in d.tags : Len(t) >= 2 /\ t[1] = "e" /\ t[2] = e.id
  <2>1. Len(e.id) = FullLength /\ (d # e <=> e.id # d.id)
    BY QueryAssumption DEF TablesInv, Keys
  <2> QED
    BY <2>1 DEF Tombstones
<1> QED
  BY <1>1 DEF TablesInv, Visible

LEMMA IndexHasTags ==
  ASSUME TablesInv, indexed, NEW e \in rows, NEW name, NEW v
  PROVE  <<name, v, e.id>> \in index <=> \E t \in e.tags : Len(t) >= 2 /\ t[1] = name /\ t[2] = v
<1>1. ASSUME NEW d \in rows
      PROVE  <<name, v, e.id>> \in TagRows(d) <=>
               d = e /\ \E t \in d.tags : Len(t) >= 2 /\ t[1] = name /\ t[2] = v
  <2>1. e.id = d.id <=> d = e
    BY QueryAssumption DEF TablesInv
  <2> QED
    BY <2>1 DEF TagRows
<1> QED
  BY <1>1 DEF TablesInv

\* The statement of a filter selects the visible events that the live matcher
\* accepts for it.
LEMMA SelectedIsMatched ==
  ASSUME TablesInv, indexed, NEW req \in Requests, NEW i \in DOMAIN Normalized(req),
         NEW f, f = Normalized(req)[i], NEW e \in rows
  PROVE  Selected(e, f) <=> Visible(e) /\ Matches(e, f)
<1>1. e.id \in Keys /\ e.author \in Keys
  BY QueryAssumption DEF TablesInv
<1>2. Has(f, "ids") => (InRange(e.id, Range(f.ids)) <=> \E p \in Range(f.ids) : StartsWith(e.id, p))
  BY <1>1, NormalizedTyped, RangesAreMatches
<1>3. Has(f, "authors") =>
        (InRange(e.author, Range(f.authors)) <=> \E p \in Range(f.authors) : StartsWith(e.author, p))
  BY <1>1, NormalizedTyped, RangesAreMatches
<1>4. ASSUME NEW q \in TagsAsked(f)
      PROVE  (\E v \in Range(f[q]) : <<TagFields[q], v, e.id>> \in index) <=>
             (\E t \in e.tags : Len(t) >= 2 /\ t[1] = TagFields[q] /\ t[2] \in Range(f[q]))
  <2>1. \A v : <<TagFields[q], v, e.id>> \in index <=>
                 \E t \in e.tags : Len(t) >= 2 /\ t[1] = TagFields[q] /\ t[2] = v
    BY IndexHasTags
  <2> QED
    BY <2>1
<1> QED
  BY <1>2, <1>3, <1>4, VisibleIsUndeleted DEF Selected, Matches

\* Replay and live delivery judge a stored event alike (EventStore.query in
\* store.py and matches_filter in filters.py), for any events, any
\* filters and any order of saves before and after the migration.
THEOREM ReplayAgreesWithLive == Spec => []ReplayIsLive
<1>1. TablesInv => ReplayIsLive
  BY SelectedIsMatched DEF TablesInv, ReplayIsLive
<1> QED
  BY <1>1, TablesFollow, PTL

(***************************************************************************)
(* The query returns the newest Limit of the visible events that match     *)
(* some filter, whatever the events, the filters, the limits and the order *)
(* of saves (EventStore.query in store.py).                                *)
(***************************************************************************)
THEOREM AnswersAreNewest == Spec => []AnswersNewest
<1>1. ASSUME TablesInv, open, NEW req \in Requests, Accepted(req)
      PROVE  Answer(Normalized(req)) = Expected(Normalized(req))
  <2> DEFINE fs == Normalized(req)
             n == Limit(fs)
             T == [i \in DOMAIN fs |-> {e \in rows : Selected(e, fs[i])}]
             M == {e \in rows : Visible(e) /\ \E i \in DOMAIN fs : Matches(e, fs[i])}
  <2>1. T \in [DOMAIN fs -> SUBSET Events] /\ n \in Nat
    BY <1>1, LimitPositive DEF TablesInv
  <2>2. Newest(UNION {Newest(T[i], n) : i \in DOMAIN fs}, n) = Newest(UNION {T[i] : i \in DOMAIN fs}, n)
    <3> HIDE DEF T, n, fs
    <3> QED
      BY <2>1, NewestOfParts
  <2>3. UNION {T[i] : i \in DOMAIN fs} = M
    <3>1. \A i \in DOMAIN fs : T[i] = {e \in rows : Visible(e) /\ Matches(e, fs[i])}
      BY <1>1, SelectedIsMatched DEF TablesInv
    <3> HIDE DEF T, fs
    <3> QED
      BY <3>1
  <2>4. Answer(fs) = Newest(UNION {Newest(T[i], n) : i \in DOMAIN fs}, n)
    BY DEF Answer
  <2>5. Expected(fs) = Newest(M, n)
    BY DEF Expected
  <2> QED
    BY <2>2, <2>3, <2>4, <2>5
<1>2. TablesInv => AnswersNewest
  BY <1>1 DEF AnswersNewest
<1> QED
  BY <1>2, TablesFollow, PTL

=============================================================================
