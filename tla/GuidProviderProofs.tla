------------------------- MODULE GuidProviderProofs -------------------------
(***************************************************************************)
(* Proofs about GuidProvider, for any answers, percentages and bounds:     *)
(*   DrawsAreFresh   DrawnOnce.                                            *)
(***************************************************************************)
EXTENDS GuidProvider, FiniteSetTheorems, SequenceTheorems, TLAPS

-----------------------------------------------------------------------------
(* Answers of the service                                                  *)

Diapason == [start : Int, end : Int]
Fetch == [id : Nat, attempts : Nat, answer : Seq(Diapason)]

\* The diapasons lie above low and up to high, one above the other.
Ascending(ds, low, high) ==
  /\ ds \in Seq(Diapason)
  /\ \A i \in DOMAIN ds : low < ds[i].start /\ ds[i].start <= ds[i].end /\ ds[i].end <= high
  /\ \A i, j \in DOMAIN ds : i < j => ds[i].end < ds[j].start

\* Offset counts a finite set.
LEMMA OffsetType ==
  ASSUME NEW shape \in Shapes, NEW i \in 0..Len(shape)
  PROVE  /\ IsFiniteSet(UNION {{j} \X (1 .. (shape[j][1] + shape[j][2])) : j \in 1..i})
         /\ Offset(shape, i) \in Nat
<1> DEFINE part(j) == {j} \X (1 .. (shape[j][1] + shape[j][2]))
           parts == {part(j) : j \in 1..i}
           f == [j \in 1..i |-> part(j)]
<1>1. shape \in Seq(Nat \X (Nat \ {0}))
  BY ShapesAssumption
<1>2. i \in Nat /\ Len(shape) \in Nat /\ i <= Len(shape)
  BY <1>1, LenProperties
<1>3. IsFiniteSet(1..i)
  BY <1>2, FS_Interval
<1>4. f \in Surjection(1..i, parts)
  BY DEF Surjection
<1>5. IsFiniteSet(parts)
  BY <1>3, <1>4, FS_Surjection
<1>6. ASSUME NEW j \in 1..i PROVE IsFiniteSet(part(j))
  <2>1. IsFiniteSet({j})
    BY FS_Singleton
  <2>2. shape[j] \in Nat \X (Nat \ {0})
    BY <1>1, <1>2, ElementOfSeq
  <2>3. shape[j][1] + shape[j][2] \in Int
    BY <2>2
  <2>4. IsFiniteSet(1 .. (shape[j][1] + shape[j][2]))
    BY <2>3, FS_Interval
  <2> QED BY <2>1, <2>4, FS_Product
<1>7. IsFiniteSet(UNION parts)
  BY <1>5, <1>6, FS_UNION
<1> QED BY <1>7, FS_CardinalityType DEF Offset

\* Offset adds up gaps and sizes.
LEMMA OffsetStep ==
  ASSUME NEW shape \in Shapes, NEW i \in 1..Len(shape)
  PROVE  /\ shape[i][1] \in Nat /\ shape[i][2] \in Nat \ {0}
         /\ Offset(shape, i) = Offset(shape, i - 1) + shape[i][1] + shape[i][2]
<1> DEFINE n == shape[i][1] + shape[i][2]
           part(j) == {j} \X (1 .. (shape[j][1] + shape[j][2]))
           before == UNION {part(j) : j \in 1..(i - 1)}
<1>1. shape \in Seq(Nat \X (Nat \ {0}))
  BY ShapesAssumption
<1>2. i \in Nat \ {0} /\ Len(shape) \in Nat /\ i <= Len(shape)
  BY <1>1, LenProperties
<1>3. shape[i] \in Nat \X (Nat \ {0})
  BY <1>1, ElementOfSeq
<1>4. n \in Nat /\ shape[i][1] \in Nat /\ shape[i][2] \in Nat \ {0}
  BY <1>3
<1>5. UNION {part(j) : j \in 1..i} = before \cup part(i)
  <2>1. 1..i = 1..(i - 1) \cup {i}
    BY <1>2
  <2> HIDE DEF part
  <2> QED BY <2>1
<1>6. before \cap part(i) = {}
  <2>1. i \notin 1..(i - 1)
    BY <1>2
  <2> QED BY <2>1
<1>7. IsFiniteSet(before) /\ Offset(shape, i - 1) = Cardinality(before) /\ Offset(shape, i - 1) \in Nat
  <2>1. i - 1 \in 0..Len(shape)
    BY <1>2
  <2> QED BY <2>1, OffsetType DEF Offset
<1>8. IsFiniteSet(part(i)) /\ Cardinality(part(i)) = n
  <2>1. IsFiniteSet({i}) /\ Cardinality({i}) = 1
    BY FS_Singleton
  <2> HIDE DEF n
  <2>2. IsFiniteSet(1..n) /\ Cardinality(1..n) = n
    <3>1. n \in Int /\ 1 \in Int /\ (IF 1 > n THEN 0 ELSE n - 1 + 1) = n
      BY <1>4
    <3> QED BY <3>1, FS_Interval
  <2>3. IsFiniteSet({i} \X (1..n)) /\ Cardinality({i} \X (1..n)) = 1 * n
    BY <2>1, <2>2, FS_Product
  <2>4. 1 * n = n
    BY <1>4
  <2> QED BY <2>3, <2>4 DEF n
<1>9. Cardinality(before \cup part(i)) = Cardinality(before) + Cardinality(part(i)) - Cardinality({})
  BY <1>6, <1>7, <1>8, FS_Union
<1>10. Offset(shape, i) = Cardinality(before \cup part(i))
  BY <1>5 DEF Offset
<1> HIDE DEF part, before
<1>11. Offset(shape, i) = Offset(shape, i - 1) + n - 0
  BY <1>7, <1>8, <1>9, <1>10, FS_EmptySet
<1> QED BY <1>4, <1>7, <1>11

LEMMA OffsetGrows ==
  ASSUME NEW shape \in Shapes, NEW i \in 0..Len(shape), NEW j \in 0..Len(shape), i <= j
  PROVE  Offset(shape, i) <= Offset(shape, j)
<1> DEFINE part(k) == {k} \X (1 .. (shape[k][1] + shape[k][2]))
           A == UNION {part(k) : k \in 1..i}
           B == UNION {part(k) : k \in 1..j}
<1>1. Len(shape) \in Nat
  BY ShapesAssumption, LenProperties
<1>2. 1..i \subseteq 1..j
  BY <1>1
<1>3. A \subseteq B
  <2> HIDE DEF part
  <2> QED BY <1>2
<1>4. IsFiniteSet(B)
  BY OffsetType
<1> HIDE DEF A, B
<1>5. Cardinality(A) <= Cardinality(B)
  BY <1>3, <1>4, FS_Subset
<1> QED BY <1>5 DEF Offset, A, B

\* An answer is above everything handed out before.
LEMMA AnswerAscends ==
  ASSUME NEW shape \in Shapes, top \in Nat
  PROVE  LET ds == NewDiapasons(shape) IN
         ds # <<>> /\ Ascending(ds, top, ds[Len(ds)].end) /\ top < ds[Len(ds)].end
<1> DEFINE n == Len(shape)
           ds == NewDiapasons(shape)
<1>1. shape \in Seq(Nat \X (Nat \ {0})) /\ shape # <<>>
  BY ShapesAssumption
<1>2. n \in Nat \ {0} /\ DOMAIN shape = 1..n
  BY <1>1, LenProperties, EmptySeq
<1> HIDE DEF n
<1>3. \A i \in 0..n : Offset(shape, i) \in Nat
  BY OffsetType DEF n
<1>4. \A i \in 1..n : /\ i \in Nat /\ i - 1 \in 0..n /\ shape[i][1] \in Nat /\ shape[i][2] \in Nat \ {0}
                      /\ Offset(shape, i) = Offset(shape, i - 1) + shape[i][1] + shape[i][2]
  BY <1>2, OffsetStep DEF n
<1>5. \A i, j \in 0..n : i <= j => Offset(shape, i) <= Offset(shape, j)
  BY OffsetGrows DEF n
<1>6. ds = [i \in 1..n |-> [start |-> top + Offset(shape, i) - shape[i][2] + 1, end |-> top + Offset(shape, i)]]
  BY <1>2 DEF NewDiapasons
<1>7. \A i \in 1..n : /\ ds[i] \in Diapason
                      /\ ds[i].start = top + Offset(shape, i) - shape[i][2] + 1 /\ ds[i].end = top + Offset(shape, i)
  <2> SUFFICES ASSUME NEW i \in 1..n
               PROVE  /\ ds[i] \in Diapason
                      /\ ds[i].start = top + Offset(shape, i) - shape[i][2] + 1 /\ ds[i].end = top + Offset(shape, i)
    OBVIOUS
  <2>1. ds[i] = [start |-> top + Offset(shape, i) - shape[i][2] + 1, end |-> top + Offset(shape, i)]
    BY <1>6
  <2>2. top + Offset(shape, i) - shape[i][2] + 1 \in Int /\ top + Offset(shape, i) \in Int
    BY <1>3, <1>4
  <2> QED BY <2>1, <2>2 DEF Diapason
<1> DEFINE T(i) == Offset(shape, i)
<1>8. ds \in Seq(Diapason) /\ Len(ds) = n /\ DOMAIN ds = 1..n
  <2>1. ds \in [1..n -> Diapason]
    BY <1>6, <1>7
  <2>2. ds \in Seq(Diapason)
    BY <1>2, <2>1, SeqDef
  <2>3. DOMAIN ds = 1..n /\ DOMAIN ds = 1..Len(ds) /\ Len(ds) \in Nat
    BY <1>6, <2>2, LenProperties
  <2> HIDE DEF ds
  <2> QED BY <1>2, <2>2, <2>3
<1> HIDE DEF ds
<1>9. \A i \in 1..n : top < ds[i].start /\ ds[i].start <= ds[i].end /\ ds[i].end <= ds[n].end
  <2> SUFFICES ASSUME NEW i \in 1..n PROVE top < ds[i].start /\ ds[i].start <= ds[i].end /\ ds[i].end <= ds[n].end
    OBVIOUS
  <2>1. T(i) <= T(n) /\ T(i) \in Nat /\ T(n) \in Nat /\ T(i - 1) \in Nat
    BY <1>2, <1>3, <1>4, <1>5
  <2>2. T(i) = T(i - 1) + shape[i][1] + shape[i][2] /\ shape[i][1] \in Nat /\ shape[i][2] \in Nat \ {0}
    BY <1>4
  <2>3. ds[i].start = top + T(i) - shape[i][2] + 1 /\ ds[i].end = top + T(i) /\ ds[n].end = top + T(n)
    BY <1>2, <1>7
  <2> HIDE DEF T
  <2> QED BY <2>1, <2>2, <2>3
<1>10. \A i, j \in 1..n : i < j => ds[i].end < ds[j].start
  <2> SUFFICES ASSUME NEW i \in 1..n, NEW j \in 1..n, i < j PROVE ds[i].end < ds[j].start
    OBVIOUS
  <2>1. i <= j - 1 /\ i \in 0..n /\ j - 1 \in 0..n
    BY <1>2
  <2>2. T(i) <= T(j - 1) /\ T(i) \in Nat /\ T(j - 1) \in Nat /\ T(j) \in Nat
    BY <1>2, <1>3, <1>5, <2>1
  <2>3. T(j) = T(j - 1) + shape[j][1] + shape[j][2] /\ shape[j][1] \in Nat /\ shape[j][2] \in Nat \ {0}
    BY <1>4
  <2>4. ds[i].end = top + T(i) /\ ds[j].start = top + T(j) - shape[j][2] + 1
    BY <1>7
  <2> HIDE DEF T
  <2> QED BY <2>2, <2>3, <2>4
<1>11. ds # <<>>
  BY <1>2, <1>8, EmptySeq
<1>12. top < ds[n].end
  <2>1. n \in 1..n
    BY <1>2
  <2>2. ds[n].start \in Int /\ ds[n].end \in Int
    BY <1>7, <2>1 DEF Diapason
  <2> QED BY <1>9, <2>1, <2>2
<1> QED BY <1>8, <1>9, <1>10, <1>11, <1>12 DEF Ascending, ds

\* Taking the first diapason leaves one that is above it.
LEMMA TailAscends ==
  ASSUME NEW ds, ds # <<>>, NEW low \in Int, NEW high \in Int, Ascending(ds, low, high)
  PROVE  /\ ds[1] \in Diapason /\ low < ds[1].start /\ ds[1].start <= ds[1].end /\ ds[1].end <= high
         /\ Ascending(Tail(ds), ds[1].end, high)
         /\ GuidsOf(ds) = (ds[1].start .. ds[1].end) \cup GuidsOf(Tail(ds))
<1> DEFINE n == Len(ds)
           rest == Tail(ds)
<1>1. ds \in Seq(Diapason) /\ n \in Nat \ {0} /\ DOMAIN ds = 1..n
  BY EmptySeq, LenProperties DEF Ascending
<1>2. rest \in Seq(Diapason) /\ Len(rest) = n - 1 /\ \A i \in 1..Len(rest) : rest[i] = ds[i + 1]
  BY <1>1, HeadTailProperties
<1>3. DOMAIN rest = 1..(n - 1)
  BY <1>2, LenProperties
<1>4. \A i \in 1..n : ds[i] \in Diapason
  BY <1>1, ElementOfSeq
<1> HIDE DEF n, rest
<1>5. 1 \in 1..n /\ \A i \in 1..(n - 1) : i + 1 \in 1..n /\ 1 < i + 1
  BY <1>1
<1>6. \A i \in 1..n : i = 1 \/ (i - 1 \in 1..(n - 1) /\ (i - 1) + 1 = i)
  BY <1>1
<1>7. ds[1] \in Diapason /\ low < ds[1].start /\ ds[1].start <= ds[1].end /\ ds[1].end <= high
  BY <1>1, <1>4, <1>5 DEF Ascending
<1>8. Ascending(rest, ds[1].end, high)
  <2>1. \A i \in 1..(n - 1) : ds[1].end < rest[i].start /\ rest[i].start <= rest[i].end /\ rest[i].end <= high
    BY <1>1, <1>2, <1>5 DEF Ascending
  <2>2. ASSUME NEW i \in 1..(n - 1), NEW j \in 1..(n - 1), i < j PROVE rest[i].end < rest[j].start
    <3>1. i + 1 \in 1..n /\ j + 1 \in 1..n /\ i + 1 < j + 1
      BY <1>1, <2>2
    <3> QED BY <1>1, <1>2, <3>1 DEF Ascending
  <2> QED BY <1>2, <1>3, <2>1, <2>2 DEF Ascending
<1>9. GuidsOf(ds) = (ds[1].start .. ds[1].end) \cup GuidsOf(rest)
  <2>1. ASSUME NEW x \in GuidsOf(ds) PROVE x \in (ds[1].start .. ds[1].end) \cup GuidsOf(rest)
    <3>1. PICK i \in 1..n : x \in ds[i].start .. ds[i].end
      BY <1>1 DEF GuidsOf
    <3>2. CASE i = 1
      BY <3>1, <3>2
    <3>3. CASE i # 1
      <4>1. i - 1 \in 1..(n - 1) /\ rest[i - 1] = ds[i]
        BY <1>2, <1>6, <3>3
      <4> QED BY <1>3, <3>1, <4>1 DEF GuidsOf
    <3> QED BY <3>2, <3>3
  <2>2. ASSUME NEW x \in GuidsOf(rest) PROVE x \in GuidsOf(ds)
    <3>1. PICK i \in 1..(n - 1) : x \in rest[i].start .. rest[i].end
      BY <1>3 DEF GuidsOf
    <3> QED BY <1>1, <1>2, <1>5, <3>1 DEF GuidsOf
  <2>3. ds[1].start .. ds[1].end \subseteq GuidsOf(ds)
    BY <1>1, <1>5 DEF GuidsOf
  <2> QED BY <2>1, <2>2, <2>3
<1> QED BY <1>7, <1>8, <1>9 DEF rest

\* The GUIDs of diapasons that ascend lie between the bounds.
LEMMA GuidsBetween ==
  ASSUME NEW ds, NEW low \in Int, NEW high \in Int, Ascending(ds, low, high), NEW x \in GuidsOf(ds)
  PROVE  x \in Int /\ low < x /\ x <= high
<1>1. PICK i \in DOMAIN ds : x \in ds[i].start .. ds[i].end
  BY DEF GuidsOf
<1>2. ds[i] \in Diapason
  BY ElementOfSeq, LenProperties DEF Ascending
<1>3. ds[i].start \in Int /\ ds[i].end \in Int /\ low < ds[i].start /\ ds[i].end <= high
  BY <1>2 DEF Ascending, Diapason
<1> QED BY <1>1, <1>3

LEMMA AscendingWeakens ==
  ASSUME NEW ds, NEW low \in Int, NEW high \in Int, NEW m \in Int, NEW h \in Int, m <= low, high <= h, Ascending(ds, low, high)
  PROVE  Ascending(ds, m, h)
<1>1. \A i \in DOMAIN ds : ds[i].start \in Int /\ ds[i].end \in Int
  <2>1. \A i \in DOMAIN ds : ds[i] \in Diapason
    BY ElementOfSeq, LenProperties DEF Ascending
  <2> QED BY <2>1 DEF Diapason
<1> QED BY <1>1 DEF Ascending

LEMMA NothingHeld == GuidsOf(<<>>) = {} /\ \A low, high : Ascending(<<>>, low, high)
<1>1. <<>> \in Seq(Diapason) /\ DOMAIN <<>> = {}
  BY EmptySeq
<1> QED BY <1>1 DEF GuidsOf, Ascending
-----------------------------------------------------------------------------
(* The iterator                                                            *)

\* What the world server has received and not drawn, without the answers that
\* wait in the channel.
Current == (iterator .. iteratorMax) \cup GuidsOf(nextDiapasons)

ProviderInvariant ==
  /\ iterator \in Int /\ iteratorMax \in Int /\ top \in Nat /\ pools \in Nat /\ drawn \subseteq Int
  /\ pc = "new" => fetches = {} /\ drawn = {}
  /\ iteratorMax <= top /\ Ascending(nextDiapasons, iteratorMax, top)
  /\ \A f \in fetches : f \in Fetch /\ Ascending(f.answer, 0, top) /\ GuidsOf(f.answer) \cap Current = {}
  /\ \A f, g \in fetches : f # g => GuidsOf(f.answer) \cap GuidsOf(g.answer) = {}
  /\ \A x \in drawn : x <= top
  /\ drawn \cap Current = {} /\ \A f \in fetches : drawn \cap GuidsOf(f.answer) = {}

\* The invariant says that nothing drawn is held.
LEMMA NothingDrawnIsHeld == ProviderInvariant => DrawnOnce
<1> SUFFICES ASSUME ProviderInvariant PROVE drawn \cap Held = {}
  BY DEF DrawnOnce
<1>1. ASSUME NEW x \in Held PROVE x \in Current \/ \E f \in fetches : x \in GuidsOf(f.answer)
  BY DEF Held, Current
<1> QED BY <1>1 DEF ProviderInvariant

LEMMA ProviderStarts == Init => ProviderInvariant
<1> SUFFICES ASSUME Init PROVE ProviderInvariant
  OBVIOUS
<1>1. top \in Nat
  BY FirstGuidAssumption DEF Init
<1>2. Ascending(nextDiapasons, iteratorMax, top)
  BY NothingHeld DEF Init
<1> QED BY <1>1, <1>2 DEF Init, ProviderInvariant

\* A new goroutine has no answer yet.
NewFetch == [id |-> pools, attempts |-> 0, answer |-> NoAnswer]
LEMMA NewFetchHoldsNothing ==
  ASSUME ProviderInvariant
  PROVE  NewFetch \in Fetch /\ (\A high : Ascending(NewFetch.answer, 0, high)) /\ GuidsOf(NewFetch.answer) = {}
<1>1. NewFetch.answer = <<>> /\ <<>> \in Seq(Diapason)
  BY EmptySeq DEF NewFetch, NoAnswer
<1>2. NewFetch \in Fetch
  BY <1>1, EmptySeq DEF NewFetch, Fetch, NoAnswer, ProviderInvariant
<1> QED BY <1>1, <1>2, NothingHeld

\* A drawn GUID is held no more: one common argument for the three ways to draw.
\* The GUIDs of the iterator come from Current or from an answer that is taken.
LEMMA DrawKeeps ==
  ASSUME ProviderInvariant, NEW it \in Int, NEW trigger, NEW others \in SUBSET fetches,
         DrawFrom(it, trigger, others), pc' # "new", UNCHANGED <<top, pools>>,
         iteratorMax' \in Int, it <= iteratorMax', iteratorMax' <= top,
         Ascending(nextDiapasons', iteratorMax', top),
         \A x \in (it .. iteratorMax') \cup GuidsOf(nextDiapasons') :
            x \notin drawn /\ \A f \in others : x \notin GuidsOf(f.answer)
  PROVE  ProviderInvariant'
<1>1. /\ \A f \in fetches' : f \in others \/ f = NewFetch
      /\ drawn' = drawn \cup {it} /\ iterator' = it + 1
  BY DEF DrawFrom, NewFetch
<1>2. NewFetch \in Fetch /\ (\A high : Ascending(NewFetch.answer, 0, high)) /\ GuidsOf(NewFetch.answer) = {}
  BY NewFetchHoldsNothing
<1>3. /\ top \in Nat /\ pools \in Nat /\ drawn \subseteq Int /\ \A x \in drawn : x <= top
      /\ \A f \in fetches : /\ f \in Fetch /\ Ascending(f.answer, 0, top)
                            /\ drawn \cap GuidsOf(f.answer) = {}
      /\ \A f, g \in fetches : f # g => GuidsOf(f.answer) \cap GuidsOf(g.answer) = {}
  BY DEF ProviderInvariant
<1>4. (Current)' = ((it + 1) .. iteratorMax') \cup GuidsOf(nextDiapasons')
  BY <1>1 DEF Current, GuidsOf
<1>5. it \notin GuidsOf(nextDiapasons')
  <2>1. ASSUME it \in GuidsOf(nextDiapasons') PROVE FALSE
    <3>1. iteratorMax' < it
      BY <1>3, <2>1, GuidsBetween
    <3> QED BY <3>1
  <2> QED BY <2>1
<1>6. it \in it .. iteratorMax' /\ \A x \in (it + 1) .. iteratorMax' : x \in it .. iteratorMax' /\ x # it
  OBVIOUS
<1>7. drawn' \cap (Current)' = {}
  BY <1>1, <1>4, <1>5, <1>6
<1>8. \A f \in fetches' : drawn' \cap GuidsOf(f.answer) = {}
  BY <1>1, <1>2, <1>3, <1>6
<1>9. \A f \in fetches' : f \in Fetch /\ Ascending(f.answer, 0, top) /\ GuidsOf(f.answer) \cap (Current)' = {}
  BY <1>1, <1>2, <1>3, <1>4, <1>6
<1>10. \A f, g \in fetches' : f # g => GuidsOf(f.answer) \cap GuidsOf(g.answer) = {}
  BY <1>1, <1>2, <1>3
<1>11. drawn' \subseteq Int /\ \A x \in drawn' : x <= top
  <2>1. it <= top
    BY <1>3
  <2> QED BY <1>1, <1>3, <2>1
<1>12. iterator' \in Int
  BY <1>1
<1> QED BY <1>3, <1>7, <1>8, <1>9, <1>10, <1>11, <1>12 DEF ProviderInvariant

\* Drawing the first GUID of diapasons that are held.
LEMMA DrawFirstKeeps ==
  ASSUME ProviderInvariant, NEW ds, ds # <<>>, NEW low \in Int, Ascending(ds, low, top),
         NEW trigger, NEW others \in SUBSET fetches, DrawFrom(ds[1].start, trigger, others),
         iteratorMax' = ds[1].end, nextDiapasons' = Tail(ds), pc' # "new", UNCHANGED <<top, pools>>,
         \A x \in GuidsOf(ds) : x \notin drawn /\ \A f \in others : x \notin GuidsOf(f.answer)
  PROVE  ProviderInvariant'
<1>1. top \in Int
  BY DEF ProviderInvariant
<1>2. /\ ds[1] \in Diapason /\ ds[1].start <= ds[1].end /\ ds[1].end <= top
      /\ Ascending(Tail(ds), ds[1].end, top)
      /\ GuidsOf(ds) = (ds[1].start .. ds[1].end) \cup GuidsOf(Tail(ds))
  BY <1>1, TailAscends
<1>3. ds[1].start \in Int /\ ds[1].end \in Int
  BY <1>2 DEF Diapason
<1> DEFINE it == ds[1].start
<1>4. /\ it \in Int /\ DrawFrom(it, trigger, others) /\ iteratorMax' \in Int /\ it <= iteratorMax' /\ iteratorMax' <= top
      /\ Ascending(nextDiapasons', iteratorMax', top)
      /\ \A x \in (it .. iteratorMax') \cup GuidsOf(nextDiapasons') :
            x \notin drawn /\ \A f \in others : x \notin GuidsOf(f.answer)
  BY <1>2, <1>3
<1> HIDE DEF it
<1> QED BY <1>4, DrawKeeps

LEMMA NextCallKeeps == ASSUME ProviderInvariant, NextCall PROVE ProviderInvariant'
<1>1. CASE Next_Draw
  <2>1. /\ DrawFrom(iterator, iteratorValueToTriggerUpdate, fetches) /\ iterator <= iteratorMax /\ pc' # "new"
        /\ UNCHANGED <<iteratorMax, nextDiapasons, top, pools>>
    BY <1>1 DEF Next_Draw
  <2>2. \A x \in (iterator .. iteratorMax') \cup GuidsOf(nextDiapasons') :
          x \notin drawn /\ \A f \in fetches : x \notin GuidsOf(f.answer)
    BY <2>1 DEF ProviderInvariant, Current
  <2>3. iterator \in Int /\ iteratorMax' \in Int /\ iteratorMax' <= top /\ Ascending(nextDiapasons', iteratorMax', top)
    BY <2>1 DEF ProviderInvariant
  <2> QED BY <2>1, <2>2, <2>3, DrawKeeps
<1>2. CASE Next_ReloadIterator
  <2> DEFINE ds == nextDiapasons
  <2>1. /\ ds # <<>> /\ DrawFrom(ds[1].start, iteratorValueToTriggerUpdate, fetches)
        /\ iteratorMax' = ds[1].end /\ nextDiapasons' = Tail(ds) /\ pc' # "new" /\ UNCHANGED <<top, pools>>
    BY <1>2 DEF Next_ReloadIterator
  <2>2. \A x \in GuidsOf(ds) : x \notin drawn /\ \A f \in fetches : x \notin GuidsOf(f.answer)
    BY DEF ProviderInvariant, Current
  <2>3. iteratorMax \in Int /\ Ascending(ds, iteratorMax, top)
    BY DEF ProviderInvariant
  <2> HIDE DEF ds
  <2> QED BY <2>1, <2>2, <2>3, DrawFirstKeeps
<1>3. CASE Next_Block
  <2>1. UNCHANGED <<iterator, iteratorMax, nextDiapasons, fetches, top, drawn, pools>> /\ pc' # "new"
    BY <1>3 DEF Next_Block, iteratorVars
  <2> QED BY <2>1 DEF ProviderInvariant, Current, GuidsOf
<1>4. ASSUME NEW f \in fetches, Next_ReloadNextDiapasons(f) PROVE ProviderInvariant'
  <2> DEFINE ds == f.answer
  <2>1. /\ ds # <<>> /\ DrawFrom(ds[1].start, TriggerValue(ds), fetches \ {f})
        /\ iteratorMax' = ds[1].end /\ nextDiapasons' = Tail(ds) /\ pc' # "new" /\ UNCHANGED <<top, pools>>
    BY <1>4 DEF Next_ReloadNextDiapasons, NoAnswer
  <2>2. \A x \in GuidsOf(ds) : x \notin drawn /\ \A g \in fetches \ {f} : x \notin GuidsOf(g.answer)
    BY DEF ProviderInvariant
  <2>3. Ascending(ds, 0, top)
    BY DEF ProviderInvariant
  <2> DEFINE trigger == TriggerValue(ds)
             others == fetches \ {f}
  <2> HIDE DEF ds, trigger, others
  <2>4. /\ others \in SUBSET fetches /\ DrawFrom(ds[1].start, trigger, others) /\ ds # <<>>
        /\ iteratorMax' = ds[1].end /\ nextDiapasons' = Tail(ds) /\ pc' # "new" /\ UNCHANGED <<top, pools>>
        /\ \A x \in GuidsOf(ds) : x \notin drawn /\ \A g \in others : x \notin GuidsOf(g.answer)
    BY <2>1, <2>2 DEF trigger, others
  <2>5. 0 \in Int
    OBVIOUS
  <2> QED BY <2>3, <2>4, <2>5, DrawFirstKeeps, Zenon
<1> QED BY <1>1, <1>2, <1>3, <1>4 DEF NextCall

\* The first answer.
LEMMA ProviderCreated == ASSUME ProviderInvariant, NewThreadUnsafeGuidProvider PROVE ProviderInvariant'
<1>1. PICK shape \in Shapes : LET ds == NewDiapasons(shape) IN
        /\ nextDiapasons' = Tail(ds) /\ iterator' = ds[1].start /\ iteratorMax' = ds[1].end /\ top' = ds[Len(ds)].end
  BY DEF NewThreadUnsafeGuidProvider
<1> DEFINE ds == NewDiapasons(shape)
           high == ds[Len(ds)].end
<1>2. top \in Nat
  BY DEF ProviderInvariant
<1>3. ds # <<>> /\ Ascending(ds, top, high) /\ top < high
  BY <1>2, AnswerAscends
<1>4. /\ pc = "new" /\ pc' # "new" /\ UNCHANGED <<fetches, drawn>> /\ fetches = {} /\ drawn = {} /\ pools' = pools + 1
      /\ pools \in Nat
  BY DEF NewThreadUnsafeGuidProvider, ProviderInvariant
<1> HIDE DEF ds
<1>5. high \in Nat
  <2>1. Len(ds) \in DOMAIN ds /\ ds[Len(ds)] \in Diapason
    <3>1. ds \in Seq(Diapason)
      BY <1>3 DEF Ascending
    <3>2. Len(ds) \in Nat \ {0} /\ DOMAIN ds = 1..Len(ds)
      BY <1>3, <3>1, EmptySeq, LenProperties
    <3>3. Len(ds) \in 1..Len(ds)
      BY <3>2
    <3> QED BY <3>1, <3>2, <3>3, ElementOfSeq
  <2>2. high \in Int
    BY <2>1 DEF Diapason
  <2> QED BY <1>2, <1>3, <2>2
<1>6. /\ ds[1] \in Diapason /\ ds[1].end <= high /\ Ascending(Tail(ds), ds[1].end, high)
  BY <1>2, <1>3, <1>5, TailAscends
<1>7. ds[1].start \in Int /\ ds[1].end \in Int
  BY <1>6 DEF Diapason
<1>8. nextDiapasons' = Tail(ds) /\ iterator' = ds[1].start /\ iteratorMax' = ds[1].end /\ top' = high
  BY <1>1 DEF ds
<1> HIDE DEF high
<1> QED BY <1>4, <1>5, <1>6, <1>7, <1>8 DEF ProviderInvariant

\* A goroutine gets its answer, which is above everything received before, or fails.
LEMMA FetchKeeps == ASSUME ProviderInvariant, NEW f \in fetches, FetchOK(f) \/ FetchError(f) PROVE ProviderInvariant'
<1>1. /\ iterator \in Int /\ iteratorMax \in Int /\ top \in Nat /\ pools \in Nat /\ drawn \subseteq Int
      /\ iteratorMax <= top /\ Ascending(nextDiapasons, iteratorMax, top)
      /\ \A g \in fetches : g \in Fetch /\ Ascending(g.answer, 0, top) /\ GuidsOf(g.answer) \cap Current = {}
      /\ \A g, h \in fetches : g # h => GuidsOf(g.answer) \cap GuidsOf(h.answer) = {}
      /\ \A x \in drawn : x <= top
      /\ drawn \cap Current = {} /\ \A g \in fetches : drawn \cap GuidsOf(g.answer) = {}
  BY DEF ProviderInvariant
<1>2. pc # "new"
  BY DEF ProviderInvariant
<1>3. f.answer = <<>> /\ f \in Fetch
  BY <1>1 DEF FetchOK, FetchError, NoAnswer
<1>4. CASE FetchError(f)
  <2> DEFINE g == [f EXCEPT !.attempts = @ + 1]
  <2>1. /\ UNCHANGED <<iterator, iteratorMax, nextDiapasons, top, drawn, pools>> /\ pc' # "new"
        /\ \A h \in fetches' : h \in fetches \/ h = g
    BY <1>2, <1>4 DEF FetchError, iteratorVars
  <2>2. g \in Fetch /\ g.answer = <<>>
    BY <1>3 DEF Fetch
  <2> HIDE DEF g
  <2>3. GuidsOf(g.answer) = {} /\ Ascending(g.answer, 0, top)
    BY <2>2, NothingHeld
  <2>4. (Current)' = Current
    BY <2>1 DEF Current, GuidsOf
  <2>5. \A h \in fetches' : h \in Fetch /\ Ascending(h.answer, 0, top) /\ GuidsOf(h.answer) \cap Current = {}
    BY <1>1, <2>1, <2>2, <2>3
  <2>6. \A h, k \in fetches' : h # k => GuidsOf(h.answer) \cap GuidsOf(k.answer) = {}
    BY <1>1, <2>1, <2>3
  <2>7. \A h \in fetches' : drawn \cap GuidsOf(h.answer) = {}
    BY <1>1, <2>1, <2>3
  <2> QED BY <1>1, <2>1, <2>4, <2>5, <2>6, <2>7 DEF ProviderInvariant
<1>5. CASE FetchOK(f)
  <2>1. PICK shape \in Shapes : LET ds == NewDiapasons(shape) IN
          /\ fetches' = (fetches \ {f}) \cup {[f EXCEPT !.answer = ds]}
          /\ top' = ds[Len(ds)].end
    BY <1>5 DEF FetchOK
  <2> DEFINE ds == NewDiapasons(shape)
             g == [f EXCEPT !.answer = ds]
  <2>2. ds # <<>> /\ Ascending(ds, top, top') /\ top < top'
    BY <1>1, <2>1, AnswerAscends
  <2>3. UNCHANGED <<iterator, iteratorMax, nextDiapasons, drawn, pc>> /\ pools' = pools + 1
    BY <1>5 DEF FetchOK, iteratorVars
  <2>4. \A h \in fetches' : h \in fetches \/ h = g
    BY <2>1
  <2> HIDE DEF ds
  <2>5. g \in Fetch /\ g.answer = ds
    BY <1>3, <2>2 DEF Fetch, Ascending
  <2> HIDE DEF g
  <2>6. top' \in Nat
    <3>1. Len(ds) \in DOMAIN ds /\ ds[Len(ds)] \in Diapason
      <4>1. ds \in Seq(Diapason)
        BY <2>2 DEF Ascending
      <4>2. Len(ds) \in Nat \ {0} /\ DOMAIN ds = 1..Len(ds)
        BY <2>2, <4>1, EmptySeq, LenProperties
      <4>3. Len(ds) \in 1..Len(ds)
        BY <4>2
      <4> QED BY <4>1, <4>2, <4>3, ElementOfSeq
    <3>2. top' \in Int
      BY <2>1, <3>1 DEF Diapason, ds
    <3> QED BY <1>1, <2>2, <3>2
  <2>7. \A x \in GuidsOf(ds) : x \in Int /\ top < x
    BY <1>1, <2>2, <2>6, GuidsBetween
  <2>8. Ascending(ds, 0, top') /\ Ascending(nextDiapasons, iteratorMax, top')
    <3>1. 0 <= top /\ top <= top' /\ iteratorMax <= iteratorMax /\ top' <= top'
      BY <1>1, <2>2, <2>6
    <3> QED BY <1>1, <2>2, <2>6, <3>1, AscendingWeakens
  <2>9. \A h \in fetches : Ascending(h.answer, 0, top') /\ \A x \in GuidsOf(h.answer) : x \in Int /\ x <= top
    <3>1. 0 <= 0 /\ top <= top'
      BY <1>1, <2>2, <2>6
    <3> QED BY <1>1, <2>6, <3>1, AscendingWeakens, GuidsBetween
  <2>10. \A x \in Current : x \in Int /\ x <= top
    <3>1. \A x \in iterator .. iteratorMax : x \in Int /\ x <= top
      BY <1>1
    <3> QED BY <1>1, <3>1, GuidsBetween DEF Current
  <2>11. \A x, y \in Int : x <= top /\ top < y => x # y
    BY <1>1
  <2>12. (Current)' = Current
    BY <2>3 DEF Current, GuidsOf
  <2>13. /\ GuidsOf(ds) \cap Current = {} /\ drawn \cap GuidsOf(ds) = {}
         /\ \A h \in fetches : GuidsOf(ds) \cap GuidsOf(h.answer) = {}
    BY <1>1, <2>7, <2>9, <2>10, <2>11
  <2>14. \A h \in fetches' : /\ h \in Fetch /\ Ascending(h.answer, 0, top') /\ GuidsOf(h.answer) \cap Current = {}
                             /\ drawn \cap GuidsOf(h.answer) = {}
    BY <1>1, <2>4, <2>5, <2>8, <2>9, <2>13
  <2>15. \A h, k \in fetches' : h # k => GuidsOf(h.answer) \cap GuidsOf(k.answer) = {}
    BY <1>1, <2>4, <2>5, <2>13
  <2>16. iteratorMax <= top' /\ \A x \in drawn : x <= top'
    BY <1>1, <2>2, <2>6
  <2>17. pools' \in Nat
    BY <1>1, <2>3
  <2> QED BY <1>1, <1>2, <2>3, <2>6, <2>8, <2>12, <2>14, <2>15, <2>16, <2>17 DEF ProviderInvariant
<1> QED BY <1>4, <1>5

LEMMA ProviderKeeps == ASSUME ProviderInvariant, [Next]_vars PROVE ProviderInvariant'
<1>1. CASE UNCHANGED vars
  BY <1>1 DEF vars, ProviderInvariant, Current, GuidsOf
<1> QED BY <1>1, ProviderCreated, NextCallKeeps, FetchKeeps DEF Next

-----------------------------------------------------------------------------

\* Next never returns a GUID twice: what it has drawn is in no diapason that it
\* still walks or that an answer brings, whatever the ranges of the answers and
\* however many requests are under way (Next, reloadIterator,
\* reloadNextDiapasons, triggerDiapasonsRequest).
THEOREM DrawsAreFresh == Spec => []DrawnOnce
<1>1. ProviderInvariant /\ [Next]_vars => ProviderInvariant'
  BY ProviderKeeps
<1> QED BY <1>1, ProviderStarts, NothingDrawnIsHeld, PTL DEF Spec
=============================================================================
