------------------------ MODULE PipelineRunsProofs ------------------------
(***************************************************************************)
(* Theorems of PipelineRuns: its types, that a run recorded SUCCEEDED has   *)
(* published every day and instrument it was asked for, and that a          *)
(* compaction changes no bar of its dataset.                                *)
(***************************************************************************)
EXTENDS PipelineRuns, FiniteSetTheorems, WellFoundedInduction, TLAPS

-----------------------------------------------------------------------------
(* Numbers and finite sets.                                                 *)

(* The years are finitely many numbers, and so is every set of them.        *)
LEMMA YearsFinite ==
  ASSUME NEW S \in SUBSET Year
  PROVE  /\ IsFiniteSet(S) /\ Cardinality(S) \in Nat
         /\ S \subseteq Nat
<1> DEFINE f == [d \in Day |-> YearOf[d]]
<1>1. IsFiniteSet(Day) /\ YearOf \in [Day -> Nat]
  BY PipelineRunsAssumption
<1>2. f \in Surjection(Day, Year)
  BY DEF Surjection, Year
<1> HIDE DEF f
<1>3. IsFiniteSet(Year)
  BY <1>1, <1>2, FS_Surjection
<1>4. IsFiniteSet(S)
  BY <1>3, FS_Subset
<1> QED BY <1>1, <1>4, FS_CardinalityType DEF Year

EarlierIn(S, y) == {z \in S : z < y}

(* Of two years of a set the earlier one has fewer years before it.         *)
LEMMA EarlierIsStrict ==
  ASSUME NEW S \in SUBSET Year, NEW y \in S
  PROVE  /\ Cardinality(EarlierIn(S, y)) \in 0 .. Cardinality(S) - 1
         /\ \A z \in S : y < z =>
              Cardinality(EarlierIn(S, y)) < Cardinality(EarlierIn(S, z))
<1>1. \A o \in S : o \in Nat
  BY YearsFinite
<1>2. ASSUME NEW T \in SUBSET S, NEW U \in SUBSET T, y \in T, y \notin U
      PROVE  Cardinality(U) < Cardinality(T)
  <2>1. IsFiniteSet(T) /\ IsFiniteSet(U) /\ Cardinality(T) \in Nat /\ Cardinality(U) \in Nat
    BY YearsFinite
  <2>2. Cardinality(U) <= Cardinality(T) /\ (Cardinality(T) = Cardinality(U) => T = U)
    BY <2>1, FS_Subset
  <2> QED BY <1>2, <2>1, <2>2
<1> DEFINE U == EarlierIn(S, y)
<1>3. y \notin U /\ U \in SUBSET S
  BY <1>1 DEF EarlierIn
<1>4. Cardinality(U) < Cardinality(S)
  BY <1>2, <1>3
<1>5. Cardinality(U) \in Nat /\ Cardinality(S) \in Nat
  BY <1>3, YearsFinite
<1>6. ASSUME NEW z \in S, y < z PROVE Cardinality(U) < Cardinality(EarlierIn(S, z))
  <2>1. \A o \in S : o < y => o < z
    BY <1>1, <1>6
  <2>2. /\ EarlierIn(S, z) \in SUBSET S
        /\ U \in SUBSET EarlierIn(S, z)
        /\ y \in EarlierIn(S, z)
    BY <1>6, <2>1 DEF EarlierIn
  <2> HIDE DEF U
  <2> QED BY <1>2, <1>3, <2>2
<1> QED BY <1>4, <1>5, <1>6

(* So each place of the list of a set's years is taken by one of them.      *)
LEMMA EveryYearPlaced ==
  ASSUME NEW S \in SUBSET Year
  PROVE  /\ \A k \in 1 .. Cardinality(S) :
              \E y \in S : Cardinality(EarlierIn(S, y)) = k - 1
         /\ \A y, z \in S : Cardinality(EarlierIn(S, y)) = Cardinality(EarlierIn(S, z)) => y = z
<1> DEFINE n == Cardinality(S)
<1> DEFINE place == [y \in S |-> Cardinality(EarlierIn(S, y))]
<1>1. IsFiniteSet(S) /\ n \in Nat /\ S \subseteq Nat
  BY YearsFinite
<1>2. IsFiniteSet(0 .. n - 1) /\ Cardinality(0 .. n - 1) = n
  <2>1. 0 \in Int /\ n - 1 \in Int
    BY <1>1
  <2>2. IsFiniteSet(0 .. n - 1)
        /\ Cardinality(0 .. n - 1) = IF 0 > n - 1 THEN 0 ELSE (n - 1) - 0 + 1
    BY <2>1, FS_Interval
  <2> HIDE DEF n
  <2> QED BY <1>1, <2>2
<1>3. place \in [S -> 0 .. n - 1]
  BY EarlierIsStrict
<1>4. ASSUME NEW y \in S, NEW z \in S,
             Cardinality(EarlierIn(S, y)) = Cardinality(EarlierIn(S, z))
      PROVE  y = z
  <2>1. /\ y < z => Cardinality(EarlierIn(S, y)) < Cardinality(EarlierIn(S, z))
        /\ z < y => Cardinality(EarlierIn(S, z)) < Cardinality(EarlierIn(S, y))
        /\ Cardinality(EarlierIn(S, y)) \in 0 .. n - 1
        /\ Cardinality(EarlierIn(S, z)) \in 0 .. n - 1
    BY EarlierIsStrict
  <2>2. y \in Nat /\ z \in Nat
    BY <1>1
  <2> QED BY <1>1, <1>4, <2>1, <2>2
<1>5. \A y, z \in S : place[y] = place[z] => y = z
  BY <1>4
<1> HIDE DEF place
<1>6. place \in Injection(S, 0 .. n - 1)
  BY <1>3, <1>5 DEF Injection, IsInjective
<1>7. place \in Surjection(S, 0 .. n - 1)
  BY <1>1, <1>2, <1>6, FS_Injection
<1>8. ASSUME NEW k \in 1 .. n PROVE \E y \in S : place[y] = k - 1
  <2>1. k - 1 \in 0 .. n - 1
    BY <1>1
  <2> QED BY <1>7, <2>1 DEF Surjection
<1>9. \A k \in 1 .. n : \E y \in S : Cardinality(EarlierIn(S, y)) = k - 1
  BY <1>8 DEF place
<1> QED BY <1>4, <1>9

(* A set of numbers up to a bound has a greatest one.                       *)
LEMMA GreatestThere ==
  ASSUME NEW N \in Nat, NEW S \in SUBSET (0 .. N), S # {}
  PROVE  \E n \in S : \A m \in S : m <= n
<1> DEFINE D == {d \in Nat : N - d \in S}
<1> DEFINE R == OpToRel(<, Nat)
<1>1. D \subseteq Nat /\ \A m \in S : N - m \in D
  OBVIOUS
<1>2. D # {}
  BY <1>1
<1>3. PICK d \in D : \A e \in D : ~(<<e, d>> \in R)
  <2>1. IsWellFoundedOn(R, Nat)
    BY NatLessThanWellFounded
  <2> HIDE DEF D, R
  <2> QED BY <2>1, <1>1, <1>2, WFMin
<1>4. \A e \in D : ~(e < d)
  BY <1>3 DEF OpToRel
<1>5. ASSUME NEW m \in S PROVE m <= N - d
  <2>1. N - m \in D /\ m \in Int
    BY <1>1
  <2>2. ~(N - m < d) /\ d \in Nat
    BY <2>1, <1>1, <1>4
  <2> QED BY <2>1, <2>2
<1>6. N - d \in S
  OBVIOUS
<1> QED BY <1>5, <1>6

-----------------------------------------------------------------------------
(* What a command is made of.                                               *)

(* A command, or a correction, is a request.                                *)
LEMMA AskedAreRequests ==
  /\ Asked \subseteq Request
  /\ \A j \in Asked : Key(j) \in RunKey /\ Key(j) \in Request
  /\ NoJob \notin Asked
  /\ \A j \in Asked : j.kind \in {"incremental", "compact", "migrate", "derive"} => j \in Job
<1>1. Job \subseteq Request
  BY PipelineRunsAssumption
<1>2. \A ys \in SUBSET Year : \A r \in Revision :
        Correction(ys, r) \in Request /\ Correction(ys, r).kind = "backfill"
  BY DEF Correction, Request, DaysIn, Contract, Granularity, Fetching
<1>3. Asked \subseteq Request
  BY <1>1, <1>2 DEF Asked
<1>4. \A j \in Request : Key(j) \in Request
  BY DEF Request, Key
<1>5. NoJob \notin Request
  BY DEF NoJob, Request, Fetching
<1>6. \A j \in Asked : Key(j) \in RunKey
  BY DEF RunKey
<1>7. \A j \in Asked : j.kind \in {"incremental", "compact", "migrate", "derive"} => j \in Job
  BY <1>2 DEF Asked
<1> QED BY <1>3, <1>4, <1>5, <1>6, <1>7

(* The fields of a request.                                                 *)
LEMMA RequestFields ==
  ASSUME NEW j \in Request
  PROVE  /\ j.kind \in Fetching \cup {"derive", "compact"}
         /\ j.days \subseteq Day /\ j.instruments \subseteq Instrument
         /\ j.contract \in Contract /\ j.gran \in Granularity
         /\ j.revision \in Revision \cup {0}
         /\ YearsOf(j) \subseteq Year
         /\ Key(j).kind = j.kind /\ Key(j).days = j.days
BY DEF Request, YearsOf, Year, Key

(* The list of a command's years has every one of them.                     *)
LEMMA YearListSound ==
  ASSUME NEW j \in Request
  PROVE  /\ Cardinality(YearsOf(j)) \in Nat
         /\ YearList(j) \in [1 .. Cardinality(YearsOf(j)) -> YearsOf(j)]
         /\ \A y \in YearsOf(j) : \E k \in 1 .. Cardinality(YearsOf(j)) : YearList(j)[k] = y
<1> DEFINE S == YearsOf(j)
<1> DEFINE n == Cardinality(S)
<1>1. S \in SUBSET Year
  BY RequestFields
<1>2. IsFiniteSet(S) /\ n \in Nat /\ S \subseteq Nat
  BY <1>1, YearsFinite
<1> DEFINE at(k) == CHOOSE y \in S : Cardinality(EarlierIn(S, y)) = k - 1
<1>3. YearList(j) = [k \in 1 .. n |-> at(k)]
  BY DEF YearList, EarlierIn
<1> HIDE DEF S
<1>4. \A k \in 1 .. n : at(k) \in S /\ Cardinality(EarlierIn(S, at(k))) = k - 1
  BY <1>1, EveryYearPlaced
<1>5. ASSUME NEW y \in S PROVE \E k \in 1 .. n : at(k) = y
  <2> DEFINE p == Cardinality(EarlierIn(S, y))
  <2>1. p \in 0 .. n - 1
    BY <1>1, EarlierIsStrict
  <2> HIDE DEF p, at
  <2>2. p + 1 \in 1 .. n /\ (p + 1) - 1 = p
    BY <1>2, <2>1
  <2>3. at(p + 1) \in S /\ Cardinality(EarlierIn(S, at(p + 1))) = p
    BY <1>4, <2>2
  <2>4. at(p + 1) = y
    BY <1>1, <2>3, EveryYearPlaced DEF p
  <2> QED BY <2>2, <2>4
<1> HIDE DEF at
<1> QED BY <1>2, <1>3, <1>4, <1>5 DEF S

(* The requests of a command are finitely many frames, and the list of them *)
(* has each.                                                                *)
LEMMA RequestsListed ==
  ASSUME NEW j \in Request
  PROVE  /\ Requests(j) \subseteq Frame
         /\ SetToSeq(Requests(j)) \in Seq(Frame)
         /\ \A n \in 1 .. Len(SetToSeq(Requests(j))) : SetToSeq(Requests(j))[n] \in Requests(j)
         /\ \A q \in Requests(j) :
              \E n \in 1 .. Len(SetToSeq(Requests(j))) : SetToSeq(Requests(j))[n] = q
<1> DEFINE Q == Requests(j)
<1> DEFINE Place == (Contract \X Instrument) \X SUBSET Day
<1>1. Q \subseteq Frame /\ \A q \in Q : q.vintage = 0
  <2>1. j.days \subseteq Day /\ j.instruments \subseteq Instrument
    BY RequestFields
  <2>2. \A c \in Chunk : c \cap j.days \subseteq Day
    BY <2>1
  <2>3. Sources(j) \subseteq Contract
    BY DEF Sources, Contract
  <2>4. 0 \in Vintage
    BY PipelineRunsAssumption DEF Vintage
  <2> QED BY <2>1, <2>2, <2>3, <2>4 DEF Requests, Frame
<1> HIDE DEF Q
<1> DEFINE f == [q \in Q |-> <<<<q.source, q.instrument>>, q.chunk>>]
<1>2. f \in Injection(Q, Place)
  <2>1. \A q \in Q : <<<<q.source, q.instrument>>, q.chunk>> \in Place
    BY <1>1 DEF Frame
  <2>2. f \in [Q -> Place]
    BY <2>1
  <2>3. ASSUME NEW p \in Q, NEW q \in Q, f[p] = f[q] PROVE p = q
    <3>1. p.source = q.source /\ p.instrument = q.instrument /\ p.chunk = q.chunk
      BY <2>3
    <3>2. p.vintage = q.vintage
      BY <1>1
    <3> QED BY <1>1, <3>1, <3>2 DEF Frame
  <2> QED BY <2>2, <2>3 DEF Injection, IsInjective
<1>3. IsFiniteSet(Place)
  <2>1. IsFiniteSet(Contract)
    <3>1. IsFiniteSet({"native"}) /\ IsFiniteSet({"derived"})
      BY FS_Singleton
    <3>2. Contract = {"native"} \cup {"derived"}
      BY DEF Contract
    <3> QED BY <3>1, <3>2, FS_Union
  <2>2. IsFiniteSet(Instrument) /\ IsFiniteSet(Day)
    BY PipelineRunsAssumption
  <2>3. IsFiniteSet(Contract \X Instrument)
    BY <2>1, <2>2, FS_Product
  <2>4. IsFiniteSet(SUBSET Day)
    BY <2>2, FS_SUBSET
  <2> QED BY <2>3, <2>4, FS_Product
<1> HIDE DEF f, Place
<1>4. IsFiniteSet(Q)
  BY <1>2, <1>3, FS_Injection
<1> DEFINE n == Cardinality(Q)
<1>5. n \in Nat /\ ExistsBijection(1 .. n, Q)
  BY <1>4, FS_CardinalityType
<1>6. \E g \in [1 .. n -> Q] : IsInjective(g)
  BY <1>5 DEF ExistsBijection, Bijection, Injection
<1>7. SetToSeq(Q) \in [1 .. n -> Q] /\ IsInjective(SetToSeq(Q))
  BY <1>6 DEF SetToSeq
<1> DEFINE s == SetToSeq(Q)
<1>8. s \in Injection(1 .. n, Q)
  BY <1>7 DEF Injection
<1> HIDE DEF s
<1>9. IsFiniteSet(1 .. n) /\ Cardinality(1 .. n) = n
  <2>1. 1 \in Int /\ n \in Int
    BY <1>5
  <2>2. IsFiniteSet(1 .. n) /\ Cardinality(1 .. n) = IF 1 > n THEN 0 ELSE n - 1 + 1
    BY <2>1, FS_Interval
  <2> HIDE DEF n
  <2> QED BY <1>5, <2>2
<1>10. s \in Surjection(1 .. n, Q)
  BY <1>4, <1>8, <1>9, FS_Injection
<1>11. s \in [1 .. n -> Q] /\ Len(s) = n /\ s \in Seq(Frame)
  <2>1. s \in [1 .. n -> Q]
    BY <1>7 DEF s
  <2> HIDE DEF n
  <2> QED BY <1>1, <1>5, <2>1
<1>12. \A q \in Q : \E k \in 1 .. n : s[k] = q
  BY <1>10 DEF Surjection
<1> HIDE DEF n
<1> QED BY <1>1, <1>11, <1>12 DEF s, Q

(* The plan of a command is a list of datasets, with both datasets of every *)
(* year a collecting command names, and the one dataset of a compaction.    *)
CompactYear(j) == YearOf[CHOOSE d \in j.days : TRUE]
LEMMA CompactionsYear ==
  ASSUME NEW j \in Job, j.kind = "compact",
         j.gran = "WEEK" => \E mth \in Period["MONTH"] : j.days \subseteq mth
  PROVE  /\ CompactYear(j) \in Year
         /\ j.days # {} /\ j.days \subseteq DaysIn({CompactYear(j)})
         /\ YearsOf(j) = {CompactYear(j)}
         /\ \A m \in Period["MONTH"] : j.gran = "MONTH" => m = j.days \/ m \cap j.days = {}
<1>1. j \in Request /\ j.days \subseteq Day
  BY PipelineRunsAssumption, RequestFields
<1>2. j.gran # "DAY" /\ j.days \in Period[j.gran] /\ j.days # {} /\ j.gran \in Granularity
  BY <1>1, CalendarAssumption, RequestFields
<1>3. \E y \in Year : j.days \subseteq DaysIn({y})
  <2>1. CASE j.gran = "YEAR"
    <3>1. j.days \in {DaysIn({y}) : y \in Year}
      BY <1>2, <2>1, CalendarAssumption
    <3> QED BY <3>1
  <2>2. CASE j.gran = "MONTH"
    <3>1. j.days \in Period["MONTH"]
      BY <1>2, <2>2
    <3>2. \A m \in Period["MONTH"] : \E y \in Year : m \subseteq DaysIn({y})
      BY CalendarAssumption
    <3> QED BY <3>1, <3>2
  <2>3. CASE j.gran = "WEEK"
    <3>1. PICK m \in Period["MONTH"] : j.days \subseteq m
      BY <2>3
    <3>2. PICK y \in Year : m \subseteq DaysIn({y})
      BY CalendarAssumption
    <3> QED BY <3>1, <3>2
  <2> QED BY <1>2, <2>1, <2>2, <2>3 DEF Granularity
<1>4. PICK y \in Year : j.days \subseteq DaysIn({y})
  BY <1>3
<1>5. \A d \in j.days : YearOf[d] = y
  BY <1>4 DEF DaysIn
<1>6. (CHOOSE d \in j.days : TRUE) \in j.days
  BY <1>2
<1>7. CompactYear(j) = y
  BY <1>5, <1>6 DEF CompactYear
<1>8. YearsOf(j) = {y}
  BY <1>2, <1>5 DEF YearsOf
<1>9. \A m \in Period["MONTH"] : j.gran = "MONTH" => m = j.days \/ m \cap j.days = {}
  BY <1>2, CalendarAssumption
<1> QED BY <1>2, <1>4, <1>7, <1>8, <1>9

LEMMA PlanSound ==
  ASSUME NEW j \in Asked
  PROVE  /\ Plan(j) \in Seq(Dataset)
         /\ j.kind \in Fetching =>
              \A c \in Contract, y \in YearsOf(j) :
                \E n \in 1 .. Len(Plan(j)) : Plan(j)[n] = <<c, y>>
         /\ j.kind = "compact" /\ ~CrossesMonth(j) => Plan(j) = <<<<j.contract, CompactYear(j)>>>>
<1>1. j \in Request
  BY AskedAreRequests
<1> DEFINE ys == YearList(j)
<1> DEFINE n == Cardinality(YearsOf(j))
<1>2. /\ n \in Nat /\ YearsOf(j) \subseteq Year
      /\ ys \in [1 .. n -> YearsOf(j)]
      /\ \A y \in YearsOf(j) : \E k \in 1 .. n : ys[k] = y
  BY <1>1, YearListSound, RequestFields
<1>3. Len(ys) = n
  <2> HIDE DEF n, ys
  <2> QED BY <1>2
<1>4. \A c \in Contract, k \in 1 .. n : <<c, ys[k]>> \in Dataset
  BY <1>2 DEF Dataset
<1> DEFINE alternating == [k \in 1 .. 2 * n |->
             <<IF k % 2 = 1 THEN "native" ELSE "derived", ys[(k + 1) \div 2]>>]
<1> DEFINE inTurn == [k \in 1 .. 2 * n |->
             <<IF k <= n THEN "native" ELSE "derived", ys[((k - 1) % n) + 1]>>]
<1>5. CASE j.kind = "backfill"
  <2>1. Plan(j) = alternating
    BY <1>3, <1>5 DEF Plan
  <2> HIDE DEF ys, n
  <2>2. \A k \in 1 .. 2 * n : (k + 1) \div 2 \in 1 .. n
    BY <1>2
  <2>3. \A k \in 1 .. 2 * n :
          <<IF k % 2 = 1 THEN "native" ELSE "derived", ys[(k + 1) \div 2]>>
            \in Dataset
    BY <1>4, <2>2 DEF Contract
  <2>4. alternating \in Seq(Dataset) /\ Len(alternating) = 2 * n
    <3>1. alternating \in [1 .. 2 * n -> Dataset]
      BY <2>3
    <3>2. 2 * n \in Nat
      BY <1>2
    <3> HIDE DEF alternating
    <3> QED BY <3>1, <3>2
  <2>5. ASSUME NEW c \in Contract, NEW y \in YearsOf(j)
        PROVE  \E k \in 1 .. 2 * n : alternating[k] = <<c, y>>
    <3>1. PICK k \in 1 .. n : ys[k] = y
      BY <1>2
    <3>2. CASE c = "native"
      <4>1. 2 * k - 1 \in 1 .. 2 * n /\ (2 * k - 1) % 2 = 1 /\ ((2 * k - 1) + 1) \div 2 = k
        BY <1>2
      <4> QED BY <3>1, <3>2, <4>1
    <3>3. CASE c = "derived"
      <4>1. 2 * k \in 1 .. 2 * n /\ (2 * k) % 2 # 1 /\ (2 * k + 1) \div 2 = k
        BY <1>2
      <4> QED BY <3>1, <3>3, <4>1
    <3> QED BY <3>2, <3>3 DEF Contract
  <2> HIDE DEF alternating
  <2> QED BY <1>5, <2>1, <2>4, <2>5
<1>6. CASE j.kind \in {"migrate", "incremental"}
  <2>1. Plan(j) = inTurn
    BY <1>3, <1>6 DEF Plan
  <2> HIDE DEF ys, n
  <2>2. \A k \in 1 .. 2 * n : ((k - 1) % n) + 1 \in 1 .. n
    <3>1. \A a \in Nat : n > 0 => a % n \in 0 .. n - 1
      BY <1>2
    <3> QED BY <1>2, <3>1
  <2>3. \A k \in 1 .. 2 * n :
          <<IF k <= n THEN "native" ELSE "derived", ys[((k - 1) % n) + 1]>>
            \in Dataset
    BY <1>4, <2>2 DEF Contract
  <2>4. inTurn \in Seq(Dataset) /\ Len(inTurn) = 2 * n
    <3>1. inTurn \in [1 .. 2 * n -> Dataset]
      BY <2>3
    <3>2. 2 * n \in Nat
      BY <1>2
    <3> HIDE DEF inTurn
    <3> QED BY <3>1, <3>2
  <2>5. ASSUME NEW c \in Contract, NEW y \in YearsOf(j)
        PROVE  \E k \in 1 .. 2 * n : inTurn[k] = <<c, y>>
    <3>1. PICK k \in 1 .. n : ys[k] = y
      BY <1>2
    <3>2. CASE c = "native"
      <4>1. k \in 1 .. 2 * n /\ k <= n /\ ((k - 1) % n) + 1 = k
        BY <1>2
      <4> QED BY <3>1, <3>2, <4>1
    <3>3. CASE c = "derived"
      <4>1. n + k \in 1 .. 2 * n /\ ~(n + k <= n) /\ (((n + k) - 1) % n) + 1 = k
        BY <1>2
      <4> QED BY <3>1, <3>3, <4>1
    <3> QED BY <3>2, <3>3 DEF Contract
  <2> HIDE DEF inTurn
  <2> QED BY <1>6, <2>1, <2>4, <2>5 DEF Fetching
<1>7. CASE j.kind = "derive"
  <2>1. Plan(j) = [k \in 1 .. n |-> <<"derived", ys[k]>>]
    BY <1>3, <1>7 DEF Plan
  <2> HIDE DEF ys, n
  <2> QED BY <1>2, <1>4, <1>7, <2>1 DEF Contract, Fetching
<1>8. CASE j.kind = "compact"
  <2>1. Plan(j) = <<<<j.contract, ys[1]>>>>
    BY <1>8 DEF Plan
  <2>2. j \in Job
    BY <1>8, AskedAreRequests
  <2> HIDE DEF ys, n
  <2>3. j.days # {}
    BY <1>8, <2>2, CalendarAssumption
  <2>4. 1 \in 1 .. n
    <3>1. PICK d \in j.days : TRUE
      BY <2>3
    <3>2. PICK k \in 1 .. n : ys[k] = YearOf[d]
      BY <1>2, <3>1 DEF YearsOf
    <3> QED BY <1>2, <3>2
  <2>5. j.contract \in Contract
    BY <1>1, RequestFields
  <2>6. <<j.contract, ys[1]>> \in Dataset
    BY <1>4, <2>4, <2>5
  <2>7. ~CrossesMonth(j) => ys[1] = CompactYear(j)
    <3>1. ~CrossesMonth(j) => YearsOf(j) = {CompactYear(j)}
      BY <1>8, <2>2, CompactionsYear DEF CrossesMonth
    <3>2. ys[1] \in YearsOf(j)
      BY <1>2, <2>4
    <3> QED BY <3>1, <3>2
  <2> QED BY <1>8, <2>1, <2>6, <2>7 DEF Fetching
<1>9. j.kind \in {"backfill", "migrate", "incremental", "derive", "compact"}
  BY <1>1, RequestFields DEF Fetching
<1> QED BY <1>5, <1>6, <1>7, <1>8, <1>9

-----------------------------------------------------------------------------
(* The revisions of a dataset year.                                         *)

ManifestRecord == [status : Status, objects : SUBSET Object]
YearManifest == [Revision -> ManifestRecord]

(* Newest is the greatest AVAILABLE revision, 0 if there is none.           *)
LEMMA NewestSound ==
  ASSUME NEW m \in YearManifest
  PROVE  /\ Newest(m) \in Revision \cup {0}
         /\ Newest(m) # 0 => Newest(m) \in Available(m)
         /\ \A r \in Available(m) : r <= Newest(m) /\ Newest(m) # 0
<1>1. MaxRevision \in Nat /\ Revision = 1 .. MaxRevision
  BY PipelineRunsAssumption DEF Revision
<1>2. Available(m) \in SUBSET (0 .. MaxRevision) /\ Available(m) \subseteq Revision
  BY <1>1 DEF Available
<1>3. CASE Available(m) = {}
  BY <1>3 DEF Newest
<1>4. CASE Available(m) # {}
  <2>1. \E r \in Available(m) : \A q \in Available(m) : q <= r
    BY <1>1, <1>2, <1>4, GreatestThere
  <2>2. Newest(m) \in Available(m) /\ \A q \in Available(m) : q <= Newest(m)
    BY <1>4, <2>1 DEF Newest
  <2> QED BY <1>1, <1>2, <2>2
<1> QED BY <1>3, <1>4

(* A revision that is named is the newest, if it is AVAILABLE and no other  *)
(* AVAILABLE one is greater.                                                *)
LEMMA NewestNamed ==
  ASSUME NEW m \in YearManifest, NEW r \in Available(m), \A q \in Available(m) : q <= r
  PROVE  Newest(m) = r
<1>1. Available(m) \subseteq Nat
  BY PipelineRunsAssumption DEF Available, Revision
<1>2. Newest(m) \in Available(m) /\ r <= Newest(m)
  BY NewestSound
<1> QED BY <1>1, <1>2

(* What a dataset year lists are objects stored under its newest revision.  *)
LEMMA ListedSound ==
  ASSUME NEW m \in YearManifest
  PROVE  /\ Listed(m) \subseteq Object
         /\ Newest(m) = 0 => Listed(m) = {}
         /\ Newest(m) # 0 => Listed(m) = m[Newest(m)].objects /\ Newest(m) \in Revision
BY NewestSound DEF Listed, YearManifest, ManifestRecord, Available

GroupRecord == [gran : Granularity, days : SUBSET Day, instrument : Instrument,
                bars : SUBSET Bar]

(* A publication's objects, and the dataset year it leaves, are well typed; *)
(* its objects are listed ones and new ones.                                *)
LEMMA PublicationTyped ==
  ASSUME NEW m \in YearManifest, NEW groups \in SUBSET GroupRecord, NEW replaced,
         NEW forced \in Revision \cup {0}, NEW failed,
         NextRevision(m, forced) \in Revision
  PROVE  LET out == Outcome(m, groups, replaced, forced, failed)
         IN  /\ New(m, groups, forced) \subseteq Object
             /\ out.objects \subseteq Listed(m) \cup New(m, groups, forced)
             /\ out.objects \subseteq Object
             /\ out.status \in {"AVAILABLE", "QUARANTINED"}
             /\ out.status = "AVAILABLE" =>
                  out.objects = (Listed(m) \ Overlapping(Listed(m), replaced))
                                  \cup New(m, groups, forced)
             /\ AfterPublication(m, forced, out) \in YearManifest
<1> DEFINE out == Outcome(m, groups, replaced, forced, failed)
<1> DEFINE new == New(m, groups, forced)
<1>1. new \subseteq Object
  BY DEF New, GroupRecord, Object
<1>2. Listed(m) \subseteq Object
  BY ListedSound
<1> DEFINE retained == Listed(m) \ Overlapping(Listed(m), replaced)
<1> DEFINE put == {o \in new : ~Clashes(m, o)}
<1>3. /\ out.objects = retained \cup put
      /\ out.status = IF retained \cup put # {} /\ put = new /\ ~failed
                      THEN "AVAILABLE" ELSE "QUARANTINED"
  BY DEF Outcome
<1> HIDE DEF out, new
<1>4. put \subseteq new /\ retained \subseteq Listed(m)
  OBVIOUS
<1>5. /\ out.objects \subseteq Listed(m) \cup new
      /\ out.status \in {"AVAILABLE", "QUARANTINED"}
      /\ out.status = "AVAILABLE" => out.objects = retained \cup new
  BY <1>3, <1>4
<1>6. out.objects \subseteq Object
  BY <1>1, <1>2, <1>5
<1>7. AfterPublication(m, forced, out) \in YearManifest
  <2>1. ASSUME NEW r \in Revision
        PROVE  /\ m[r].objects \subseteq Object
               /\ [m[r] EXCEPT !.status = "SUPERSEDED"] \in ManifestRecord
               /\ [status |-> out.status, objects |-> m[r].objects \cup out.objects]
                    \in ManifestRecord
               /\ m[r] \in ManifestRecord
    BY <1>5, <1>6 DEF YearManifest, ManifestRecord, Status
  <2> QED BY <2>1 DEF AfterPublication, YearManifest
<1> QED BY <1>1, <1>5, <1>6, <1>7 DEF out, new

(* An AVAILABLE publication of no forced revision is the newest one, and    *)
(* lists its objects and what a QUARANTINED attempt left there; any other   *)
(* outcome leaves the dataset as it is listed.                              *)
LEMMA PublicationListed ==
  ASSUME NEW m \in YearManifest, NEW out \in ManifestRecord,
         out.status \in {"AVAILABLE", "QUARANTINED"},
         NextRevision(m, 0) \in Revision
  PROVE  LET after == AfterPublication(m, 0, out)
         IN  /\ out.status = "AVAILABLE" =>
                  Listed(after) = m[NextRevision(m, 0)].objects \cup out.objects
             /\ out.status = "QUARANTINED" => Listed(after) = Listed(m)
<1> DEFINE after == AfterPublication(m, 0, out)
<1> DEFINE n == Newest(m)
<1>1. n \in Revision \cup {0} /\ NextRevision(m, 0) = n + 1 /\ Revision \subseteq Nat
  BY NewestSound, PipelineRunsAssumption DEF NextRevision, Revision
<1>2. \A r \in Revision : /\ r = n /\ out.status = "AVAILABLE" =>
                               after[r] = [m[r] EXCEPT !.status = "SUPERSEDED"]
                          /\ r = n /\ out.status = "QUARANTINED" => after[r] = m[r]
                          /\ r = n + 1 => after[r] = [status |-> out.status,
                                            objects |-> m[r].objects \cup out.objects]
                          /\ r # n /\ r # n + 1 => after[r] = m[r]
  BY <1>1 DEF AfterPublication
<1>3. after \in YearManifest
  <2>1. \A r \in Revision : after[r] \in ManifestRecord
    <3>1. ASSUME NEW r \in Revision
          PROVE  /\ [m[r] EXCEPT !.status = "SUPERSEDED"] \in ManifestRecord
                 /\ [status |-> out.status, objects |-> m[r].objects \cup out.objects]
                      \in ManifestRecord
                 /\ m[r] \in ManifestRecord
      BY DEF YearManifest, ManifestRecord, Status
    <3> HIDE DEF after, n
    <3> QED BY <1>2, <3>1
  <2>2. after = [r \in Revision |-> after[r]]
    BY DEF AfterPublication
  <2> HIDE DEF after
  <2> QED BY <2>1, <2>2 DEF YearManifest
<1>4. n + 1 \in Revision
  BY <1>1
<1>5. n \in Nat /\ \A q \in Available(m) : q <= n /\ q \in Nat
  <2>1. \A q \in Available(m) : q <= n
    BY NewestSound
  <2>2. Available(m) \subseteq Revision
    BY DEF Available
  <2>3. n \in Nat
    <3>1. n \in Revision \/ n = 0
      BY <1>1
    <3>2. \A r \in Revision : r \in Nat
      BY <1>1
    <3> QED BY <3>1, <3>2
  <2>4. Revision \subseteq Nat
    BY <1>1
  <2> HIDE DEF n, after
  <2>5. \A q \in Available(m) : q \in Nat
    BY <2>2, <2>4
  <2> QED BY <2>1, <2>3, <2>5
<1> HIDE DEF after
<1>6. CASE out.status = "AVAILABLE"
  <2>1. Available(after) \subseteq (Available(m) \ {n}) \cup {n + 1} /\ n + 1 \in Available(after)
    <3>1. \A r \in Revision : r = n => after[r].status # "AVAILABLE"
      <4>1. ASSUME NEW r \in Revision, r = n PROVE after[r].status # "AVAILABLE"
        <5>1. after[r] = [m[r] EXCEPT !.status = "SUPERSEDED"] /\ m[r] \in ManifestRecord
          BY <1>2, <1>6, <4>1 DEF YearManifest
        <5> HIDE DEF n
        <5> QED BY <5>1 DEF ManifestRecord
      <4> QED BY <4>1
    <3>2. after[n + 1].status = "AVAILABLE"
      <4> HIDE DEF n
      <4>1. after[n + 1] = [status |-> out.status, objects |-> m[n + 1].objects \cup out.objects]
        BY <1>2, <1>4
      <4> QED BY <1>6, <4>1
    <3> HIDE DEF n
    <3> QED BY <1>2, <1>4, <3>1, <3>2 DEF Available
  <2>3. \A q \in Available(after) : q <= n + 1
    <3> HIDE DEF n
    <3> QED BY <2>1, <1>5
  <2>4. Newest(after) = n + 1
    BY <1>3, <2>1, <2>3, NewestNamed
  <2>5. Listed(after) = after[n + 1].objects
    <3> HIDE DEF n
    <3>1. n + 1 # 0
      BY <1>1
    <3> QED BY <2>4, <3>1 DEF Listed
  <2>6. after[n + 1].objects = m[n + 1].objects \cup out.objects
    <3> HIDE DEF n
    <3>1. after[n + 1] = [status |-> out.status, objects |-> m[n + 1].objects \cup out.objects]
      BY <1>2, <1>4
    <3> QED BY <3>1
  <2> QED BY <1>1, <1>6, <2>5, <2>6 DEF after
<1>7. CASE out.status = "QUARANTINED"
  <2>1. Available(after) = Available(m)
    <3>1. after[n + 1].status = "QUARANTINED"
      <4> HIDE DEF n
      <4>1. after[n + 1] = [status |-> out.status, objects |-> m[n + 1].objects \cup out.objects]
        BY <1>2, <1>4
      <4> QED BY <1>7, <4>1
    <3>2. n + 1 \notin Available(m)
      <4> HIDE DEF n
      <4> QED BY <1>5
    <3>3. \A r \in Revision : r # n + 1 => after[r] = m[r]
      BY <1>2, <1>7
    <3> HIDE DEF n
    <3> QED BY <1>4, <3>1, <3>2, <3>3 DEF Available
  <2>2. Newest(after) = n
    BY <2>1 DEF Newest
  <2>3. n # 0 => after[n].objects = m[n].objects
    BY <1>1, <1>2, <1>7
  <2> QED BY <1>7, <2>2, <2>3 DEF Listed, after
<1> QED BY <1>6, <1>7 DEF after

-----------------------------------------------------------------------------
(* What a command publishes.                                                *)

(* Staged bars and listed bars are bars.                                    *)
LEMMA BarsTyped ==
  ASSUME TypeOK
  PROVE  /\ \A k \in RunKey : \A c, i : \A y \in Year :
              /\ StagedBars(k, c, y, i) \subseteq Bar
              /\ \A b \in StagedBars(k, c, y, i) : YearOf[b[1]] = y
         /\ \A objects \in SUBSET Object : \A i : BarsListed(objects, i) \subseteq Bar
         /\ \A c \in Contract, y \in Year : manifest[<<c, y>>] \in YearManifest
<1>1. ASSUME NEW k \in RunKey, NEW c, NEW i, NEW y \in Year
      PROVE  /\ StagedBars(k, c, y, i) \subseteq Bar
             /\ \A b \in StagedBars(k, c, y, i) : YearOf[b[1]] = y
  <2>1. staged[k] \subseteq Fragment
    BY DEF TypeOK
  <2>2. \A f \in staged[k] : f.held \subseteq Day /\ f.vintage \in Vintage
    BY <2>1 DEF Fragment
  <2>3. StagedFor(k, c, y) \subseteq staged[k]
    BY DEF StagedFor
  <2>4. ASSUME NEW b \in StagedBars(k, c, y, i) PROVE b \in Bar /\ YearOf[b[1]] = y
    <3>1. PICK f \in StagedFor(k, c, y) :
            b \in {<<d, f.vintage>> : d \in {x \in f.held : YearOf[x] = y}}
      BY <2>4 DEF StagedBars
    <3>2. f.held \subseteq Day /\ f.vintage \in Vintage
      BY <2>2, <2>3
    <3> QED BY <3>1, <3>2 DEF Bar
  <2> QED BY <2>4
<1>2. ASSUME NEW objects \in SUBSET Object, NEW i PROVE BarsListed(objects, i) \subseteq Bar
  BY DEF BarsListed, Object
<1>3. \A c \in Contract, y \in Year : manifest[<<c, y>>] \in YearManifest
  BY DEF TypeOK, YearManifest, ManifestRecord, Dataset
<1> QED BY <1>1, <1>2, <1>3

(* The dataset year a compaction reads.                                     *)
LEMMA TargetTyped ==
  ASSUME TypeOK, NEW j \in Job, j.kind = "compact"
  PROVE  /\ Target(j) \in YearManifest
         /\ Target(j) = manifest[<<j.contract, CompactYear(j)>>]
         /\ <<j.contract, CompactYear(j)>> \in Dataset
<1>1. j \in Request /\ j.days \subseteq Day /\ j.contract \in Contract
  BY PipelineRunsAssumption, RequestFields
<1>2. j.days # {}
  BY CalendarAssumption
<1>3. (CHOOSE d \in j.days : TRUE) \in j.days
  BY <1>2
<1>4. CompactYear(j) \in Year
  BY <1>1, <1>3 DEF CompactYear, Year
<1>5. Target(j) = manifest[<<j.contract, CompactYear(j)>>]
  BY DEF Target, CompactYear
<1>6. manifest[<<j.contract, CompactYear(j)>>] \in YearManifest
  BY <1>1, <1>4, BarsTyped
<1> QED BY <1>1, <1>4, <1>5, <1>6 DEF Dataset

(* The groups of a publication are well typed.                              *)
LEMMA GroupsTyped ==
  ASSUME TypeOK, NEW j \in Asked, NEW c \in Contract, NEW y \in Year
  PROVE  Groups(j, c, y) \subseteq GroupRecord
<1>1. j \in Request /\ Key(j) \in RunKey /\ Key(j).days = j.days /\ j.days \subseteq Day
  BY AskedAreRequests, RequestFields
<1>2. \A i : StagedBars(Key(j), c, y, i) \subseteq Bar
  BY <1>1, BarsTyped
<1>3. DaysIn({y}) \subseteq Day
  BY DEF DaysIn
<1>4. \A g \in Granularity, i \in Instrument : \A days \in SUBSET Day, bars \in SUBSET Bar :
        Group(g, days, i, bars) \in GroupRecord
  BY DEF Group, GroupRecord
<1>5. AnnualGroups(Key(j), c, y) \subseteq GroupRecord
  BY <1>2, <1>3, <1>4 DEF AnnualGroups, NonEmpty, Granularity
<1>6. DailyGroups(Key(j), c, y) \subseteq GroupRecord
  <2>1. \A d \in j.days, i \in Instrument :
          Group("DAY", {d}, i, {b \in StagedBars(Key(j), c, y, i) : b[1] = d}) \in GroupRecord
    <3>1. ASSUME NEW d \in j.days, NEW i \in Instrument
          PROVE  Group("DAY", {d}, i, {b \in StagedBars(Key(j), c, y, i) : b[1] = d}) \in GroupRecord
      <4>1. {b \in StagedBars(Key(j), c, y, i) : b[1] = d} \in SUBSET Bar
        BY <1>2
      <4>2. {d} \in SUBSET Day
        BY <1>1
      <4> QED BY <1>4, <4>1, <4>2 DEF Granularity
    <3> QED BY <3>1
  <2>2. ASSUME NEW g \in DailyGroups(Key(j), c, y) PROVE g \in GroupRecord
    <3>1. PICK d \in {x \in Key(j).days : YearOf[x] = y}, i \in Instrument :
            g = Group("DAY", {d}, i, {b \in StagedBars(Key(j), c, y, i) : b[1] = d})
      BY <2>2 DEF DailyGroups, NonEmpty
    <3>2. d \in j.days
      BY <1>1
    <3> QED BY <2>1, <3>1, <3>2
  <2> QED BY <2>2
<1>7. DerivedGroups(y) \subseteq GroupRecord
  <2>1. Listed(manifest[<<"native", y>>]) \in SUBSET Object
    BY BarsTyped, ListedSound DEF Contract
  <2>2. \A i : BarsListed(Listed(manifest[<<"native", y>>]), i) \in SUBSET Bar
    BY <2>1, BarsTyped
  <2> QED BY <1>3, <1>4, <2>2 DEF DerivedGroups, NonEmpty, Granularity
<1>8. j.kind = "compact" => CompactGroups(j) \subseteq GroupRecord
  <2>1. SUFFICES ASSUME j.kind = "compact" PROVE CompactGroups(j) \subseteq GroupRecord
    OBVIOUS
  <2>2. j \in Job
    BY <2>1, AskedAreRequests
  <2>3. Inputs(j) \in SUBSET Object
    <3>1. Listed(Target(j)) \subseteq Object
      BY <2>1, <2>2, TargetTyped, ListedSound
    <3> QED BY <3>1 DEF Inputs, Overlapping
  <2>4. \A i : {b \in BarsListed(Inputs(j), i) : b[1] \in j.days} \in SUBSET Bar
    <3>1. \A i : BarsListed(Inputs(j), i) \subseteq Bar
      BY <2>3, BarsTyped
    <3> QED BY <3>1
  <2>5. j.gran \in Granularity
    BY <1>1, RequestFields
  <2> QED BY <1>1, <1>4, <2>4, <2>5 DEF CompactGroups, NonEmpty
<1>9. j.kind \in {"backfill", "migrate", "incremental", "derive", "compact"}
  BY <1>1, RequestFields DEF Fetching
<1> QED BY <1>5, <1>6, <1>7, <1>8, <1>9 DEF Groups

-----------------------------------------------------------------------------
(* Types.                                                                   *)

(* The process before a command, and at its start.                          *)
LEMMA IdleTyped ==
  /\ Idle \in Process
  /\ \A j \in Asked : \A ph \in {"asked", "ready"} :
       [Idle EXCEPT !.job = j, !.phase = ph] \in Process
  /\ \A j \in Job : [Idle EXCEPT !.phase = "ready", !.job = j] \in Process
<1>1. <<>> \in Seq(Frame) /\ <<>> \in Seq(Dataset)
  OBVIOUS
<1>2. Idle \in Process
  BY <1>1 DEF Idle, Process
<1>3. Job \subseteq Asked
  BY DEF Asked
<1> QED BY <1>1, <1>2, <1>3 DEF Idle, Process

(* What a command leaves behind when it ends.                               *)
LEMMA ConcludeTyped ==
  ASSUME TypeOK, NEW succeeded, Conclude(succeeded)
  PROVE  /\ proc' \in Process
         /\ proc'.phase \in {"idle", "ready"}
         /\ proc'.phase # "idle" => proc'.job # NoJob
<1>1. proc \in Process
  BY DEF TypeOK
<1>2. proc.outer \in Job \cup {NoJob} /\ Job \subseteq Asked
  BY <1>1 DEF Process, Asked
<1>3. CASE proc' = Idle
  BY <1>3, IdleTyped DEF Idle
<1>4. CASE proc.outer # NoJob /\ proc' = [Idle EXCEPT !.phase = "ready", !.job = proc.outer]
  <2>1. proc.outer \in Job
    BY <1>2, <1>4
  <2> QED BY <1>4, <2>1, IdleTyped DEF Idle
<1> QED BY <1>3, <1>4 DEF Conclude

(* The job at work is one that was asked for, and its run has a record.     *)
LEMMA JobTyped ==
  ASSUME TypeOK, proc.phase # "idle"
  PROVE  /\ proc.job \in Asked /\ proc.job \in Request /\ Key(proc.job) \in RunKey
         /\ proc \in Process
<1>1. proc \in Process /\ proc.job # NoJob
  BY DEF TypeOK
<1>2. proc.job \in Asked
  BY <1>1 DEF Process
<1> QED BY <1>1, <1>2, AskedAreRequests

(* A publication leaves its dataset year well typed.                        *)
LEMMA PublishTyped ==
  ASSUME TypeOK, NEW bad, PublishNext(bad)
  PROVE  LET j == proc.job
             c == Head(proc.plan)[1]
             y == Head(proc.plan)[2]
             m == manifest[<<c, y>>]
             failed == \/ bad
                       \/ j.kind # "migrate" /\ y \in proc.failed
                       \/ j.kind = "migrate" /\ NoSource(c, y)
             out == Outcome(m, Groups(j, c, y), Replaced(j, y), j.revision, failed)
         IN  /\ c \in Contract /\ y \in Year /\ m \in YearManifest
             /\ j \in Asked /\ j.revision \in Revision \cup {0}
             /\ NextRevision(m, j.revision) \in Revision
             /\ Groups(j, c, y) \in SUBSET GroupRecord
             /\ out.status \in {"AVAILABLE", "QUARANTINED"} /\ out.objects \subseteq Object
             /\ AfterPublication(m, j.revision, out) \in YearManifest
             /\ manifest' = [manifest EXCEPT ![<<c, y>>] = AfterPublication(m, j.revision, out)]
             /\ proc' = [proc EXCEPT !.plan = Tail(@), !.ok = @ /\ out.status = "AVAILABLE"]
<1> DEFINE j == proc.job
           c == Head(proc.plan)[1]
           y == Head(proc.plan)[2]
           m == manifest[<<c, y>>]
           failed == \/ bad
                     \/ j.kind # "migrate" /\ y \in proc.failed
                     \/ j.kind = "migrate" /\ NoSource(c, y)
           out == Outcome(m, Groups(j, c, y), Replaced(j, y), j.revision, failed)
<1>1. /\ proc.phase = "running" /\ proc.plan # <<>>
      /\ NextRevision(m, j.revision) \in Revision
      /\ manifest' = [manifest EXCEPT ![<<c, y>>] = AfterPublication(m, j.revision, out)]
      /\ proc' = [proc EXCEPT !.plan = Tail(@), !.ok = @ /\ out.status = "AVAILABLE"]
  BY DEF PublishNext, Publishing
<1>2. j \in Asked /\ j \in Request /\ proc \in Process
  BY <1>1, JobTyped
<1>3. j.revision \in Revision \cup {0}
  BY <1>2, RequestFields
<1>4. Head(proc.plan) \in Dataset
  <2>1. proc.plan \in Seq(Dataset)
    BY <1>2 DEF Process
  <2> QED BY <1>1, <2>1
<1>5. c \in Contract /\ y \in Year
  BY <1>4 DEF Dataset
<1> HIDE DEF c, y
<1>6. m \in YearManifest
  BY <1>5, BarsTyped
<1>7. Groups(j, c, y) \in SUBSET GroupRecord
  BY <1>2, <1>5, GroupsTyped
<1> HIDE DEF m, j, failed
<1>8. /\ out.status \in {"AVAILABLE", "QUARANTINED"} /\ out.objects \subseteq Object
      /\ AfterPublication(m, j.revision, out) \in YearManifest
  BY <1>1, <1>3, <1>6, <1>7, PublicationTyped
<1> HIDE DEF out
<1> QED BY <1>1, <1>2, <1>3, <1>5, <1>6, <1>7, <1>8 DEF c, y, m, j, failed, out

(* The rows of runs and fragments that a step leaves alone keep their       *)
(* types, and the process may go on with the same run.                      *)
StoresKept == UNCHANGED <<run, staged, lacking, manifest>>
ProcessGood ==
  /\ proc' \in Process
  /\ proc'.phase # "idle" => proc'.job # NoJob
  /\ proc'.phase = "running" => run'[Key(proc'.job)] = "RUNNING"
LEMMA StoresTyped ==
  ASSUME TypeOK, StoresKept, ProcessGood, vintage' \in Vintage,
         commands' \in 0 .. MaxCommands, faults' \in 0 .. MaxFaults
  PROVE  TypeOK'
BY DEF TypeOK, StoresKept, ProcessGood

LEMMA StartTyped ==
  ASSUME TypeOK, NEW j \in Job, Start(j)
  PROVE  TypeOK'
<1>1. proc' \in Process /\ proc'.phase \in {"asked", "ready"} /\ proc'.job = j
  <2>1. j \in Asked
    BY DEF Asked
  <2> DEFINE ph == IF j.kind \in {"incremental", "compact"} THEN "asked" ELSE "ready"
  <2>2. proc' = [Idle EXCEPT !.job = j, !.phase = ph] /\ ph \in {"asked", "ready"}
    BY DEF Start
  <2> QED BY <2>1, <2>2, IdleTyped DEF Idle
<1>2. j # NoJob
  BY AskedAreRequests DEF Asked
<1>3. ProcessGood
  BY <1>1, <1>2 DEF ProcessGood
<1>4. /\ StoresKept /\ vintage' = vintage /\ faults' = faults
      /\ commands < MaxCommands /\ commands' = commands + 1
  BY DEF Start, StoresKept
<1>5. commands' \in 0 .. MaxCommands
  BY <1>4, PipelineRunsAssumption DEF TypeOK
<1> QED BY <1>3, <1>4, <1>5, StoresTyped DEF TypeOK

(* The years of retained manifests are years, and a correction of them has  *)
(* been provided for.                                                       *)
LEMMA DetectTyped ==
  ASSUME TypeOK, Detect
  PROVE  TypeOK'
<1>1. proc.phase = "asked" /\ proc.job.kind = "incremental" /\ StoresKept
      /\ UNCHANGED <<vintage, commands>>
  BY DEF Detect, StoresKept
<1>2. proc \in Process /\ proc.job \in Asked /\ proc.job \in Job
  BY <1>1, JobTyped, AskedAreRequests
<1>3. faults' \in 0 .. MaxFaults
  BY PipelineRunsAssumption DEF Detect, TypeOK
<1>4. ProcessGood
  <2>1. CASE proc' = [proc EXCEPT !.phase = "ready"]
    BY <1>2, <2>1, AskedAreRequests DEF Process, ProcessGood
  <2>2. CASE /\ NextForced \in Revision
             /\ proc' = [proc EXCEPT !.phase = "ready", !.outer = proc.job,
                                     !.job = Correction(Retained, NextForced)]
    <3>1. Correction(Retained, NextForced) \in Asked
      <4>1. Retained \in SUBSET Year
        BY DEF Retained
      <4> HIDE DEF Retained
      <4> QED BY <2>2, <4>1 DEF Asked
    <3> HIDE DEF Correction, Retained, NextForced
    <3> QED BY <1>2, <2>2, <3>1, AskedAreRequests DEF Process, ProcessGood
  <2> QED BY <2>1, <2>2 DEF Detect
<1> QED BY <1>1, <1>3, <1>4, StoresTyped DEF TypeOK

LEMMA CheckCompactionTyped ==
  ASSUME TypeOK, CheckCompaction
  PROVE  TypeOK'
<1>1. proc.phase = "asked" /\ StoresKept /\ UNCHANGED <<vintage, faults, commands>>
      /\ (proc' = Idle \/ proc' = [proc EXCEPT !.phase = "ready"])
  BY DEF CheckCompaction, StoresKept
<1>2. proc \in Process /\ proc.job \in Asked
  BY <1>1, JobTyped
<1>3. ProcessGood
  <2>1. CASE proc' = Idle
    BY <2>1, IdleTyped DEF Idle, ProcessGood
  <2>2. CASE proc' = [proc EXCEPT !.phase = "ready"]
    BY <1>2, <2>2, AskedAreRequests DEF Process, ProcessGood
  <2> QED BY <1>1, <2>1, <2>2
<1> QED BY <1>1, <1>3, StoresTyped DEF TypeOK

LEMMA ReuseRunTyped ==
  ASSUME TypeOK, ReuseRun
  PROVE  TypeOK'
<1>1. Conclude(TRUE) /\ StoresKept /\ UNCHANGED <<vintage, faults, commands>>
  BY DEF ReuseRun, StoresKept
<1>2. ProcessGood
  BY <1>1, ConcludeTyped DEF ProcessGood
<1> QED BY <1>1, <1>2, StoresTyped DEF TypeOK

LEMMA BeginRunTyped ==
  ASSUME TypeOK, BeginRun
  PROVE  TypeOK'
<1>1. /\ proc.phase = "ready"
      /\ run' = [run EXCEPT ![Key(proc.job)] = "RUNNING"]
      /\ proc' = [proc EXCEPT !.phase = "running", !.todo = SetToSeq(Requests(proc.job)),
                              !.plan = Plan(proc.job)]
      /\ UNCHANGED <<vintage, staged, lacking, manifest, faults, commands>>
  BY DEF BeginRun
<1>2. proc \in Process /\ proc.job \in Asked /\ proc.job \in Request /\ Key(proc.job) \in RunKey
  BY <1>1, JobTyped
<1> DEFINE todo == SetToSeq(Requests(proc.job))
<1> DEFINE plan == Plan(proc.job)
<1>3. todo \in Seq(Frame) /\ plan \in Seq(Dataset)
  BY <1>2, RequestsListed, PlanSound
<1>4. proc' = [proc EXCEPT !.phase = "running", !.todo = todo, !.plan = plan]
  BY <1>1
<1> HIDE DEF todo, plan
<1>5. proc' \in Process /\ proc'.job = proc.job
  BY <1>2, <1>3, <1>4 DEF Process
<1>6. /\ run' \in [RunKey -> {"ABSENT", "RUNNING", "SUCCEEDED", "FAILED"}]
      /\ run'[Key(proc.job)] = "RUNNING"
      /\ \A k \in RunKey : run[k] # "ABSENT" => run'[k] # "ABSENT"
  BY <1>1, <1>2 DEF TypeOK
<1>7. proc'.job # NoJob
  BY <1>2, <1>5, AskedAreRequests
<1> QED BY <1>1, <1>5, <1>6, <1>7 DEF TypeOK

(* What a run knows it lacks are sessions of its requests.                  *)
LEMMA RelearnedTyped ==
  ASSUME NEW lacks \in SUBSET Lack, NEW q \in Frame, NEW gap
  PROVE  Relearned(lacks, q, gap) \in SUBSET Lack
BY DEF Relearned, Lack, Frame

(* The step of a running command keeps it running.                          *)
LEMMA StillRunning ==
  ASSUME TypeOK, proc.phase = "running", proc' \in Process, run' = run,
         proc'.phase = "running", proc'.job = proc.job
  PROVE  ProcessGood
BY DEF TypeOK, ProcessGood

LEMMA CollectTyped ==
  ASSUME TypeOK, Collect
  PROVE  TypeOK'
<1> DEFINE q == Head(proc.todo)
           years(gap) == {YearOf[d] : d \in q.chunk \ gap}
           asked == [q EXCEPT !.vintage = vintage]
<1>1. proc.phase = "running" /\ proc.todo # <<>>
      /\ UNCHANGED <<vintage, run, staged, manifest, commands>>
  BY DEF Collect
<1>2. proc \in Process /\ proc.todo \in Seq(Frame) /\ Key(proc.job) \in RunKey
  BY <1>1, JobTyped DEF Process
<1>3. q \in Frame /\ Tail(proc.todo) \in Seq(Frame)
  BY <1>1, <1>2
<1>4. MissedYears(q) \subseteq Year /\ q.chunk \subseteq Day
      /\ \A gap : years(gap) \subseteq Year
  BY <1>3 DEF Frame, Year, MissedYears
<1>5. vintage \in Vintage
  BY DEF TypeOK
<1>6. \/ /\ proc' = [proc EXCEPT !.todo = Tail(@)]
         /\ lacking' = lacking
      \/ \E gap \in Gaps :
           /\ proc' = [proc EXCEPT !.todo = Tail(@), !.frame = asked,
                                   !.held = q.chunk \ gap, !.unwritten = years(gap)]
           /\ lacking' = [lacking EXCEPT ![Key(proc.job)] = Relearned(@, q, gap)]
      \/ /\ proc' = [proc EXCEPT !.todo = Tail(@), !.failed = @ \cup MissedYears(q)]
         /\ lacking' = lacking
  BY DEF Collect
<1>7. asked \in Frame
  BY <1>3, <1>5 DEF Frame
<1> HIDE DEF q, years, asked
<1>8. /\ proc' \in Process /\ proc'.phase = "running" /\ proc'.job = proc.job
      /\ lacking' \in [RunKey -> SUBSET Lack]
  <2>1. lacking \in [RunKey -> SUBSET Lack]
    BY DEF TypeOK
  <2>2. CASE proc' = [proc EXCEPT !.todo = Tail(@)] /\ lacking' = lacking
    BY <1>1, <1>2, <1>3, <2>1, <2>2 DEF Process
  <2>3. ASSUME NEW gap \in Gaps,
               proc' = [proc EXCEPT !.todo = Tail(@), !.frame = asked,
                                    !.held = q.chunk \ gap, !.unwritten = years(gap)],
               lacking' = [lacking EXCEPT ![Key(proc.job)] = Relearned(@, q, gap)]
        PROVE  /\ proc' \in Process /\ proc'.phase = "running" /\ proc'.job = proc.job
               /\ lacking' \in [RunKey -> SUBSET Lack]
    <3>1. Relearned(lacking[Key(proc.job)], q, gap) \in SUBSET Lack
      BY <1>2, <1>3, <2>1, RelearnedTyped
    <3>2. lacking' \in [RunKey -> SUBSET Lack]
      BY <2>1, <2>3, <3>1
    <3>3. q.chunk \ gap \in SUBSET Day /\ years(gap) \in SUBSET Year
      BY <1>4
    <3>4. proc' \in Process /\ proc'.phase = "running" /\ proc'.job = proc.job
      BY <1>1, <1>2, <1>3, <1>7, <2>3, <3>3 DEF Process
    <3> QED BY <3>2, <3>4
  <2>4. CASE proc' = [proc EXCEPT !.todo = Tail(@), !.failed = @ \cup MissedYears(q)]
             /\ lacking' = lacking
    BY <1>1, <1>2, <1>3, <1>4, <2>1, <2>4 DEF Process
  <2> QED BY <1>6, <2>2, <2>3, <2>4
<1>9. faults' \in 0 .. MaxFaults
  <2>1. faults' = faults \/ (faults < MaxFaults /\ faults' = faults + 1)
    BY DEF Collect
  <2> QED BY <2>1, PipelineRunsAssumption DEF TypeOK
<1>10. ProcessGood
  BY <1>1, <1>8, StillRunning
<1> QED BY <1>1, <1>8, <1>9, <1>10 DEF TypeOK, ProcessGood

(* Only the year that was fetched is written, so the fragment is one.       *)
LEMMA WriteFragmentTyped ==
  ASSUME TypeOK, WriteFragment, proc.unwritten # {} => proc.frame \in Frame
  PROVE  TypeOK'
<1>1. proc.phase = "running" /\ UNCHANGED <<vintage, run, lacking, manifest, faults, commands>>
  BY DEF WriteFragment
<1>2. proc \in Process /\ proc.job \in Asked /\ Key(proc.job) \in RunKey
  BY <1>1, JobTyped
<1> DEFINE k == Key(proc.job)
<1> DEFINE f(y) == [source |-> proc.frame.source, instrument |-> proc.frame.instrument,
                    chunk |-> proc.frame.chunk, year |-> y, held |-> proc.held,
                    vintage |-> proc.frame.vintage]
<1>3. PICK y \in proc.unwritten :
        /\ staged' = [staged EXCEPT ![k] = {g \in @ : ~SameFile(f(y), g)} \cup {f(y)}]
        /\ proc' = [proc EXCEPT !.unwritten = @ \ {y}]
  BY DEF WriteFragment
<1>4. proc.unwritten \subseteq Year /\ proc.held \subseteq Day
  BY <1>2 DEF Process
<1>5. f(y) \in Fragment
  BY <1>3, <1>4 DEF Frame, Fragment
<1>6. proc' \in Process /\ proc'.phase = "running" /\ proc'.job = proc.job
  BY <1>1, <1>2, <1>3, <1>4 DEF Process
<1> HIDE DEF f, k
<1>7. staged' \in [RunKey -> SUBSET Fragment] /\ \A r \in RunKey : r # k => staged'[r] = staged[r]
  <2>1. staged \in [RunKey -> SUBSET Fragment] /\ k \in RunKey
    BY <1>2 DEF TypeOK, k
  <2>2. {g \in staged[k] : ~SameFile(f(y), g)} \cup {f(y)} \in SUBSET Fragment
    BY <1>5, <2>1
  <2> QED BY <1>3, <2>1, <2>2
<1>8. \A r \in RunKey : staged'[r] # {} => run'[r] # "ABSENT"
  BY <1>1, <1>7 DEF TypeOK, k
<1>9. ProcessGood
  BY <1>1, <1>6, StillRunning
<1> QED BY <1>1, <1>7, <1>8, <1>9 DEF TypeOK, ProcessGood

LEMMA PublicationKeepsTypes ==
  ASSUME TypeOK, Publication
  PROVE  TypeOK'
<1>1. PICK bad \in BOOLEAN : PublishNext(bad)
  BY DEF Publication
<1>2. faults' \in 0 .. MaxFaults
  <2>1. faults' = faults \/ (faults < MaxFaults /\ faults' = faults + 1)
    BY DEF Publication
  <2> QED BY <2>1, PipelineRunsAssumption DEF TypeOK
<1>3. UNCHANGED <<vintage, run, staged, lacking, commands>> /\ proc.phase = "running" /\ proc.plan # <<>>
  BY <1>1 DEF PublishNext, Publishing
<1>4. PICK c \in Contract, y \in Year, after \in YearManifest, ok \in BOOLEAN :
        /\ manifest' = [manifest EXCEPT ![<<c, y>>] = after]
        /\ proc' = [proc EXCEPT !.plan = Tail(@), !.ok = @ /\ ok]
  <2> DEFINE j == proc.job
             c == Head(proc.plan)[1]
             y == Head(proc.plan)[2]
             m == manifest[<<c, y>>]
             failed == \/ bad
                       \/ j.kind # "migrate" /\ y \in proc.failed
                       \/ j.kind = "migrate" /\ NoSource(c, y)
             out == Outcome(m, Groups(j, c, y), Replaced(j, y), j.revision, failed)
             after == AfterPublication(m, j.revision, out)
             ok == out.status = "AVAILABLE"
  <2>1. /\ c \in Contract /\ y \in Year /\ after \in YearManifest
        /\ manifest' = [manifest EXCEPT ![<<c, y>>] = after]
        /\ proc' = [proc EXCEPT !.plan = Tail(@), !.ok = @ /\ ok]
    BY <1>1, PublishTyped
  <2>2. ok \in BOOLEAN
    OBVIOUS
  <2> HIDE DEF c, y, after, ok
  <2> QED BY <2>1, <2>2
<1>5. manifest' \in [Dataset -> [Revision -> [status : Status, objects : SUBSET Object]]]
  <2>1. manifest \in [Dataset -> YearManifest] /\ <<c, y>> \in Dataset
    BY DEF TypeOK, YearManifest, ManifestRecord, Dataset
  <2>2. manifest' \in [Dataset -> YearManifest]
    BY <1>4, <2>1
  <2> QED BY <2>2 DEF YearManifest, ManifestRecord
<1>6. proc \in Process
  BY DEF TypeOK
<1>7. Tail(proc.plan) \in Seq(Dataset) /\ (proc.ok /\ ok) \in BOOLEAN
  BY <1>3, <1>6 DEF Process
<1>8. proc' \in Process /\ proc'.phase = "running" /\ proc'.job = proc.job
  BY <1>3, <1>4, <1>6, <1>7 DEF Process
<1>9. ProcessGood
  BY <1>3, <1>8, StillRunning
<1> QED BY <1>2, <1>3, <1>5, <1>9 DEF TypeOK, ProcessGood

LEMMA DeriveWithoutSourceTyped ==
  ASSUME TypeOK, DeriveWithoutSource
  PROVE  TypeOK'
<1>1. /\ proc.phase = "running" /\ proc.plan # <<>> /\ StoresKept
      /\ proc' = [proc EXCEPT !.plan = Tail(@), !.ok = FALSE]
      /\ UNCHANGED <<vintage, faults, commands>>
  BY DEF DeriveWithoutSource, Publishing, StoresKept
<1>2. proc \in Process
  BY DEF TypeOK
<1>3. Tail(proc.plan) \in Seq(Dataset)
  BY <1>1, <1>2 DEF Process
<1>4. proc' \in Process /\ proc'.phase = "running" /\ proc'.job = proc.job
  BY <1>1, <1>2, <1>3 DEF Process
<1> QED BY <1>1, <1>4, StillRunning, StoresTyped DEF TypeOK, StoresKept

(* A run that ends has a record, and the fragments of no other run.         *)
LEMMA FinishTyped ==
  ASSUME TypeOK, Finish
  PROVE  TypeOK'
<1> DEFINE k == Key(proc.job)
           answer == IF Succeeded THEN "SUCCEEDED" ELSE "FAILED"
<1>1. /\ proc.phase = "running" /\ Conclude(Succeeded)
      /\ run' = [run EXCEPT ![k] = answer]
      /\ UNCHANGED <<vintage, staged, lacking, manifest, faults, commands>>
  BY DEF Finish, Publishing
<1>2. answer \in {"SUCCEEDED", "FAILED"} /\ k \in RunKey
  BY <1>1, JobTyped
<1> HIDE DEF answer, k
<1>3. /\ run' \in [RunKey -> {"ABSENT", "RUNNING", "SUCCEEDED", "FAILED"}]
      /\ \A r \in RunKey : run[r] # "ABSENT" => run'[r] # "ABSENT"
  BY <1>1, <1>2 DEF TypeOK
<1>4. /\ proc' \in Process /\ proc'.phase # "running"
      /\ proc'.phase # "idle" => proc'.job # NoJob
  BY <1>1, ConcludeTyped
<1> QED BY <1>1, <1>3, <1>4 DEF TypeOK

LEMMA TypeCorrectNext ==
  ASSUME TypeOK, [Next]_vars, proc.unwritten # {} => proc.frame \in Frame
  PROVE  TypeOK'
<1>1. ASSUME NEW j \in Job, Start(j) PROVE TypeOK'
  BY <1>1, StartTyped
<1>2. ASSUME RefuseRevision \/ Crash PROVE TypeOK'
  <2>1. proc' = Idle /\ StoresKept /\ UNCHANGED <<vintage, commands>>
    BY <1>2 DEF RefuseRevision, Crash, StoresKept
  <2>2. faults' \in 0 .. MaxFaults
    BY <1>2, PipelineRunsAssumption DEF RefuseRevision, Crash, TypeOK
  <2>3. ProcessGood
    BY <2>1, IdleTyped DEF ProcessGood, Idle
  <2> QED BY <2>1, <2>2, <2>3, StoresTyped DEF TypeOK
<1>3. ASSUME NEW k \in RunKey, CleanStaging(k) PROVE TypeOK'
  <2>1. /\ staged' \in [RunKey -> SUBSET Fragment]
        /\ \A r \in RunKey : staged'[r] # {} => staged[r] # {}
    BY <1>3 DEF CleanStaging, TypeOK
  <2> QED BY <1>3, <2>1 DEF CleanStaging, TypeOK
<1>4. ASSUME ProviderRevises PROVE TypeOK'
  <2>1. vintage' \in Vintage
    BY <1>4, PipelineRunsAssumption DEF ProviderRevises, TypeOK, Vintage
  <2> QED BY <1>4, <2>1 DEF ProviderRevises, TypeOK
<1>5. ASSUME UNCHANGED vars PROVE TypeOK'
  BY <1>5 DEF vars, TypeOK
<1> QED
  BY <1>1, <1>2, <1>3, <1>4, <1>5, DetectTyped, CheckCompactionTyped, ReuseRunTyped,
     BeginRunTyped, CollectTyped, WriteFragmentTyped, PublicationKeepsTypes,
     DeriveWithoutSourceTyped, FinishTyped
  DEF Next

-----------------------------------------------------------------------------
(* The inductive invariants.                                                *)

(* The years left to write are years of the chunk that was fetched.         *)
FrameFits ==
  proc.unwritten # {} =>
    /\ proc.frame \in Frame
    /\ \A y \in proc.unwritten : \E d \in proc.frame.chunk : YearOf[d] = y
RunsTyped == TypeOK /\ FrameFits

(* A run has been told that the answer to a request lacks a session.        *)
Lacking(k, q, d) == \E a \in lacking[k] : a.day = d /\ OfRequest(a, q)

(* What a running command has in hand is the whole answer to a request.     *)
FrameAnswered ==
  IF proc.phase = "running"
  THEN proc.unwritten # {} =>
         \A d \in proc.frame.chunk :
           d \in proc.held \/ Lacking(Key(proc.job), proc.frame, d)
  ELSE proc.unwritten = {}

(* A fragment is of a year of its chunk; if it may be taken over, it holds  *)
(* that year's sessions but for those the answer lacked.                    *)
FragmentsFit ==
  \A k \in RunKey : \A f \in staged[k] :
    /\ \E d \in f.chunk : YearOf[d] = f.year
    /\ Resume => \A d \in f.chunk : YearOf[d] = f.year => d \in f.held \/ Lacking(k, f, d)

(* A running command fetches what it was asked for and nothing else; each   *)
(* session of a request is still to be fetched, being written, staged or    *)
(* known to be lacking, unless a fetch failed.                              *)
TodoAsked ==
  proc.phase = "running" =>
    \A n \in 1 .. Len(proc.todo) : proc.todo[n] \in Requests(proc.job)
Pending(q) == \E n \in 1 .. Len(proc.todo) : proc.todo[n] = q
InHand(q, d) == YearOf[d] \in proc.unwritten /\ d \in proc.held /\ OfRequest(proc.frame, q)
DayStaged(q, d) ==
  \E f \in staged[Key(proc.job)] : f.year = YearOf[d] /\ d \in f.held /\ OfRequest(f, q)
Got(q, d) == InHand(q, d) \/ DayStaged(q, d) \/ Lacking(Key(proc.job), q, d)
Collected ==
  proc.phase = "running" /\ proc.failed = {} =>
    \A q \in Requests(proc.job) : Pending(q) \/ \A d \in q.chunk : Got(q, d)

(* Each dataset of a running command is still in its plan, or has the bars  *)
(* asked for but for those lacking, unless a publication failed; nothing is *)
(* published before everything is fetched.                                  *)
Planned(c, y) == \E n \in 1 .. Len(proc.plan) : proc.plan[n] = <<c, y>>
BarThere(c, i, d) == \E b \in Published(c, YearOf[d]) : b[1] = i /\ b[2] = d
PlanWhole ==
  proc.phase = "running" /\ proc.todo # <<>> /\ proc.job.kind \in Fetching =>
    \A c \in Contract, d \in proc.job.days : Planned(c, YearOf[d])
PlanServed ==
  proc.phase = "running" /\ proc.job.kind \in Fetching /\ proc.job.revision = 0
    /\ proc.failed = {} /\ proc.ok =>
      \A c \in Contract, i \in proc.job.instruments, d \in proc.job.days :
        Planned(c, YearOf[d]) \/ Lacked(proc.job, c, i, d) \/ BarThere(c, i, d)
CollectInv ==
  FrameAnswered /\ FragmentsFit /\ TodoAsked /\ Collected /\ PlanWhole /\ PlanServed

(* An object holds bars of its own days, and its days are those of its      *)
(* granularity in the year of its dataset.                                  *)
ObjectFits(y, o) ==
  /\ o.days \subseteq DaysIn({y}) /\ \A b \in o.bars : b[1] \in o.days
  /\ o.gran = "DAY" => \E d \in Day : o.days = {d}
  /\ o.gran = "WEEK" => \E mth \in Period["MONTH"] : o.days \subseteq mth
  /\ o.gran = "MONTH" => o.days \in Period["MONTH"]
ObjectsFit ==
  \A c \in Contract, y \in Year, r \in Revision :
    \A o \in manifest[<<c, y>>][r].objects : ObjectFits(y, o)

(* A compaction that goes on is still one that may, until it has published, *)
(* and no command but an incremental one waits for another.                 *)
CompactionChecked ==
  /\ proc.phase \in {"ready", "running"} /\ proc.job.kind = "compact"
       /\ (proc.phase = "running" => proc.plan # <<>>) => ~NotCompactable(proc.job)
  /\ proc.phase = "running" /\ proc.job.kind = "compact" =>
       proc.plan \in {<<>>, <<<<proc.job.contract, CompactYear(proc.job)>>>>}
  /\ proc.outer # NoJob => proc.outer.kind = "incremental"
CompactInv == ObjectsFit /\ CompactionChecked

(* The commands that end or hand over leave an idle or a fresh process.     *)
LEMMA FreshProcess ==
  ASSUME NEW succeeded, Conclude(succeeded)
  PROVE  /\ proc'.phase \in {"idle", "ready"} /\ proc'.unwritten = {}
         /\ proc'.outer = NoJob
         /\ proc'.phase = "ready" => proc'.job = proc.outer /\ proc.outer # NoJob
BY DEF Conclude, Idle

LEMMA RunsTypedNext ==
  ASSUME RunsTyped, [Next]_vars
  PROVE  RunsTyped'
<1>1. TypeOK /\ FrameFits /\ proc \in Process
  BY DEF RunsTyped, TypeOK
<1>2. TypeOK'
  BY <1>1, TypeCorrectNext DEF FrameFits
<1>3. ASSUME proc'.unwritten = {} PROVE FrameFits'
  BY <1>3 DEF FrameFits
<1>4. ASSUME proc'.frame = proc.frame, proc'.unwritten \subseteq proc.unwritten PROVE FrameFits'
  BY <1>1, <1>4 DEF FrameFits
<1>5. ASSUME NEW j \in Job, Start(j) PROVE FrameFits'
  BY <1>3, <1>5 DEF Start, Idle
<1>6. ASSUME Detect PROVE FrameFits'
  BY <1>1, <1>4, <1>6 DEF Detect, Process
<1>7. ASSUME CheckCompaction PROVE FrameFits'
  BY <1>1, <1>3, <1>4, <1>7 DEF CheckCompaction, Process, Idle
<1>8. ASSUME ReuseRun \/ Finish PROVE FrameFits'
  BY <1>3, <1>8, FreshProcess DEF ReuseRun, Finish
<1>9. ASSUME BeginRun PROVE FrameFits'
  BY <1>1, <1>4, <1>9 DEF BeginRun, Process
<1>10. ASSUME Collect PROVE FrameFits'
  <2> DEFINE q == Head(proc.todo)
             asked == [q EXCEPT !.vintage = vintage]
             years(gap) == {YearOf[d] : d \in q.chunk \ gap}
  <2>1. proc.unwritten = {} /\ proc.todo # <<>> /\ proc.todo \in Seq(Frame)
    BY <1>1, <1>10 DEF Collect, Process
  <2>2. q \in Frame /\ vintage \in Vintage
    BY <1>1, <2>1 DEF TypeOK
  <2>3. asked \in Frame /\ asked.chunk = q.chunk
    BY <2>2 DEF Frame
  <2>4. \/ proc' = [proc EXCEPT !.todo = Tail(@)]
        \/ \E gap \in Gaps :
             proc' = [proc EXCEPT !.todo = Tail(@), !.frame = asked,
                                  !.held = q.chunk \ gap, !.unwritten = years(gap)]
        \/ proc' = [proc EXCEPT !.todo = Tail(@), !.failed = @ \cup MissedYears(q)]
    BY <1>10 DEF Collect
  <2>5. \A gap : \A y \in years(gap) : \E d \in q.chunk : YearOf[d] = y
    OBVIOUS
  <2> HIDE DEF q, asked, years
  <2>6. CASE \/ proc' = [proc EXCEPT !.todo = Tail(@)]
             \/ proc' = [proc EXCEPT !.todo = Tail(@), !.failed = @ \cup MissedYears(q)]
    BY <1>1, <1>3, <2>1, <2>6 DEF Process
  <2>7. ASSUME NEW gap \in Gaps,
               proc' = [proc EXCEPT !.todo = Tail(@), !.frame = asked,
                                    !.held = q.chunk \ gap, !.unwritten = years(gap)]
        PROVE  FrameFits'
    <3>1. proc'.unwritten = years(gap) /\ proc'.frame = asked
      BY <1>1, <2>7 DEF Process
    <3> QED BY <2>3, <2>5, <3>1 DEF FrameFits
  <2> QED BY <2>4, <2>6, <2>7
<1>11. ASSUME WriteFragment PROVE FrameFits'
  <2>1. PICK y \in proc.unwritten : proc' = [proc EXCEPT !.unwritten = @ \ {y}]
    BY <1>11 DEF WriteFragment
  <2>2. proc'.frame = proc.frame /\ proc'.unwritten \subseteq proc.unwritten
    BY <1>1, <2>1 DEF Process
  <2> QED BY <1>4, <2>2
<1>12. ASSUME Publication PROVE FrameFits'
  <2>1. proc.unwritten = {}
    BY <1>12 DEF Publication, PublishNext, Publishing
  <2>2. PICK ok : proc' = [proc EXCEPT !.plan = Tail(@), !.ok = ok]
    BY <1>12 DEF Publication, PublishNext
  <2> QED BY <1>1, <1>3, <2>1, <2>2 DEF Process
<1>13. ASSUME DeriveWithoutSource PROVE FrameFits'
  BY <1>1, <1>3, <1>13 DEF DeriveWithoutSource, Publishing, Process
<1>14. ASSUME RefuseRevision \/ Crash PROVE FrameFits'
  BY <1>3, <1>14 DEF RefuseRevision, Crash, Idle
<1>15. ASSUME UNCHANGED proc PROVE FrameFits'
  BY <1>1, <1>15 DEF FrameFits
<1>16. (\E k \in RunKey : CleanStaging(k)) \/ ProviderRevises \/ UNCHANGED vars => UNCHANGED proc
  BY DEF CleanStaging, ProviderRevises, vars
<1>17. FrameFits'
  BY <1>5, <1>6, <1>7, <1>8, <1>9, <1>10, <1>11, <1>12, <1>13, <1>14, <1>15, <1>16 DEF Next
<1> QED BY <1>2, <1>17 DEF RunsTyped

LEMMA RunsTypedInit ==
  ASSUME Init
  PROVE  RunsTyped
<1>1. 0 \in Vintage /\ 0 \in 0 .. MaxCommands /\ 0 \in 0 .. MaxFaults
  BY PipelineRunsAssumption DEF Vintage
<1>2. NoManifest \in ManifestRecord
  BY DEF NoManifest, ManifestRecord, Status
<1>3. manifest \in [Dataset -> [Revision -> ManifestRecord]]
  BY <1>2 DEF Init
<1>4. proc \in Process /\ proc.phase = "idle" /\ proc.unwritten = {}
  BY IdleTyped DEF Init, Idle
<1> QED BY <1>1, <1>3, <1>4 DEF Init, RunsTyped, TypeOK, FrameFits, ManifestRecord

(* Every variable of the runs holds values of its type, a run at work is    *)
(* recorded RUNNING and only a recorded run has fragments (TypeOK).         *)
THEOREM RunsTypeCorrect == Spec => []TypeOK
<1>1. Init => RunsTyped
  BY RunsTypedInit
<1>2. RunsTyped /\ [Next]_vars => RunsTyped'
  BY RunsTypedNext
<1>3. RunsTyped => TypeOK
  BY DEF RunsTyped
<1> QED BY <1>1, <1>2, <1>3, PTL DEF Spec

-----------------------------------------------------------------------------
(* Collecting.                                                              *)

(* A chunk taken over whole needs one year only.                            *)
ChunksWithinYears == \A ch \in Chunk : \A d, e \in ch : YearOf[d] = YearOf[e]
ResumesWhole == ~Resume \/ ChunksWithinYears

(* Each day a command asks for belongs to a request of each source and      *)
(* instrument; no request is empty.                                         *)
LEMMA RequestsCover ==
  ASSUME NEW j \in Request, j.kind \in Fetching
  PROVE  /\ \A s \in Sources(j), i \in j.instruments, d \in j.days :
              \E q \in Requests(j) : q.source = s /\ q.instrument = i /\ d \in q.chunk
         /\ \A q \in Requests(j) : q.chunk # {} /\ \E ch \in Chunk : q.chunk \subseteq ch
<1> DEFINE C == {x \in Chunk : x \cap j.days # {}}
<1> DEFINE r(s, i, c) == [source |-> s, instrument |-> i, chunk |-> c \cap j.days, vintage |-> 0]
<1>1. Requests(j) = {r(s, i, c) : s \in Sources(j), i \in j.instruments, c \in C}
  BY DEF Requests
<1>2. ASSUME NEW s \in Sources(j), NEW i \in j.instruments, NEW d \in j.days
      PROVE  \E q \in Requests(j) : q.source = s /\ q.instrument = i /\ d \in q.chunk
  <2>1. d \in Day
    BY RequestFields
  <2>2. PICK c \in Chunk : d \in c
    BY <2>1, PipelineRunsAssumption
  <2>3. c \in C
    BY <2>2
  <2>4. r(s, i, c) \in Requests(j)
    <3> HIDE DEF r, C
    <3> QED BY <1>1, <2>3
  <2>5. r(s, i, c).source = s /\ r(s, i, c).instrument = i /\ d \in r(s, i, c).chunk
    BY <2>2
  <2> HIDE DEF r
  <2> QED BY <2>4, <2>5
<1>3. ASSUME NEW q \in Requests(j)
      PROVE  q.chunk # {} /\ \E ch \in Chunk : q.chunk \subseteq ch
  <2>1. PICK s \in Sources(j), i \in j.instruments, c \in C : q = r(s, i, c)
    BY <1>1
  <2>2. q.chunk = c \cap j.days
    BY <2>1
  <2> QED BY <2>2
<1> QED BY <1>2, <1>3

(* Of a command that only collects on, the steps: what they leave alone.    *)
LEMMA CollectedKept ==
  ASSUME FrameAnswered, Collected, PlanWhole,
         proc'.phase = proc.phase, proc'.job = proc.job, proc'.todo = proc.todo,
         proc'.unwritten = proc.unwritten, proc'.frame = proc.frame, proc'.held = proc.held,
         proc'.failed = proc.failed, staged' = staged, lacking' = lacking
  PROVE  /\ FrameAnswered' /\ Collected'
         /\ proc'.plan = proc.plan \/ proc.todo = <<>> => PlanWhole'
<1>1. FrameAnswered'
  BY DEF FrameAnswered, Lacking
<1>2. Collected'
  BY DEF Collected, Pending, Got, InHand, DayStaged, Lacking
<1>3. ASSUME proc'.plan = proc.plan \/ proc.todo = <<>> PROVE PlanWhole'
  BY <1>3 DEF PlanWhole, Planned
<1> QED BY <1>1, <1>2, <1>3

(* What a run is told about one request leaves what it knows of others.     *)
LEMMA RelearnedKeeps ==
  ASSUME NEW k \in RunKey, NEW q, NEW gap, NEW d, NEW p,
         lacking \in [RunKey -> SUBSET Lack],
         lacking' = [lacking EXCEPT ![k] = Relearned(@, q, gap)]
  PROVE  /\ \A r \in RunKey : r # k => lacking'[r] = lacking[r]
         /\ ~OfRequest(p, q) /\ Lacking(k, p, d) => Lacking(k, p, d)'
         /\ OfRequest(p, q) /\ d \in q.chunk /\ d \in gap => Lacking(k, p, d)'
<1>1. lacking'[k] = Relearned(lacking[k], q, gap) /\ \A r \in RunKey : r # k => lacking'[r] = lacking[r]
  OBVIOUS
<1>2. ASSUME ~OfRequest(p, q), Lacking(k, p, d) PROVE Lacking(k, p, d)'
  <2>1. PICK a \in lacking[k] : a.day = d /\ OfRequest(a, p)
    BY <1>2 DEF Lacking
  <2>2. ~OfRequest(a, q)
    BY <1>2, <2>1 DEF OfRequest
  <2>3. a \in lacking'[k]
    BY <1>1, <2>2 DEF Relearned
  <2> QED BY <2>1, <2>3 DEF Lacking, OfRequest
<1>3. ASSUME OfRequest(p, q), d \in q.chunk, d \in gap PROVE Lacking(k, p, d)'
  <2> DEFINE a == [source |-> q.source, instrument |-> q.instrument, chunk |-> q.chunk, day |-> d]
  <2>1. a \in lacking'[k]
    BY <1>1, <1>3 DEF Relearned
  <2>2. a.day = d /\ OfRequest(a, p)
    BY <1>3 DEF OfRequest
  <2> HIDE DEF a
  <2> QED BY <2>1, <2>2 DEF Lacking, OfRequest
<1> QED BY <1>1, <1>2, <1>3

(* The three ends of a request: taken over from disk, answered, or failed.  *)
Taken(h) ==
  /\ Resume /\ OnDisk(h)
  /\ proc' = [proc EXCEPT !.todo = Tail(@)] /\ lacking' = lacking
Answered(h, gap) ==
  /\ ~(Resume /\ OnDisk(h))
  /\ proc' = [proc EXCEPT !.todo = Tail(@), !.frame = [h EXCEPT !.vintage = vintage],
                          !.held = h.chunk \ gap,
                          !.unwritten = {YearOf[d] : d \in h.chunk \ gap}]
  /\ lacking' = [lacking EXCEPT ![Key(proc.job)] = Relearned(@, h, gap)]
Missed(h) ==
  /\ proc' = [proc EXCEPT !.todo = Tail(@), !.failed = @ \cup MissedYears(h)]
  /\ lacking' = lacking
LEMMA CollectEnds ==
  ASSUME RunsTyped, CollectInv, Collect
  PROVE  LET h == Head(proc.todo)
         IN  /\ proc.phase = "running" /\ proc.unwritten = {} /\ proc.todo # <<>>
             /\ staged' = staged /\ manifest' = manifest
             /\ proc \in Process /\ proc.job \in Request /\ Key(proc.job) \in RunKey
             /\ proc.todo \in Seq(Frame) /\ lacking \in [RunKey -> SUBSET Lack]
             /\ h \in Requests(proc.job) /\ h \in Frame /\ proc.job.kind \in Fetching
             /\ h.chunk # {} /\ \E ch \in Chunk : h.chunk \subseteq ch
             /\ Taken(h) \/ (\E gap \in Gaps : Answered(h, gap)) \/ Missed(h)
<1> DEFINE h == Head(proc.todo)
<1>1. /\ proc.phase = "running" /\ proc.unwritten = {} /\ proc.todo # <<>>
      /\ staged' = staged /\ manifest' = manifest
      /\ Taken(h) \/ (\E gap \in Gaps : Answered(h, gap)) \/ Missed(h)
  BY DEF Collect, Taken, Answered, Missed
<1>2. /\ proc \in Process /\ proc.job \in Request /\ Key(proc.job) \in RunKey
      /\ proc.todo \in Seq(Frame) /\ lacking \in [RunKey -> SUBSET Lack]
  BY <1>1, JobTyped DEF RunsTyped, TypeOK, Process
<1>3. h = proc.todo[1] /\ 1 \in 1 .. Len(proc.todo)
  BY <1>1, <1>2
<1>4. h \in Requests(proc.job)
  BY <1>1, <1>3 DEF CollectInv, TodoAsked
<1>5. h \in Frame
  BY <1>2, <1>4, RequestsListed
<1>6. proc.job.kind \in Fetching
  BY <1>4 DEF Requests
<1>7. h.chunk # {} /\ \E ch \in Chunk : h.chunk \subseteq ch
  BY <1>2, <1>4, <1>6, RequestsCover
<1> HIDE DEF h
<1> QED BY <1>1, <1>2, <1>4, <1>5, <1>6, <1>7 DEF h

(* What a request's end does to the process.                                *)
LEMMA CollectStep ==
  ASSUME RunsTyped, CollectInv, Collect
  PROVE  /\ proc'.todo = Tail(proc.todo) /\ proc'.job = proc.job /\ proc'.phase = proc.phase
         /\ proc'.plan = proc.plan /\ proc'.ok = proc.ok /\ proc'.outer = proc.outer
         /\ proc.failed \subseteq proc'.failed
         /\ \A h : Taken(h) => proc'.unwritten = {}
         /\ \A h : Missed(h) => proc'.failed = proc.failed \cup MissedYears(h) /\ proc'.unwritten = {}
         /\ \A h, gap : Answered(h, gap) =>
              /\ proc'.frame = [h EXCEPT !.vintage = vintage] /\ proc'.held = h.chunk \ gap
              /\ proc'.unwritten = {YearOf[d] : d \in h.chunk \ gap}
<1>1. proc \in Process /\ proc.unwritten = {}
  BY CollectEnds
<1>2. ASSUME NEW h, Taken(h)
      PROVE  /\ proc'.todo = Tail(proc.todo) /\ proc'.job = proc.job /\ proc'.phase = proc.phase
             /\ proc'.plan = proc.plan /\ proc'.ok = proc.ok /\ proc'.outer = proc.outer
             /\ proc.failed \subseteq proc'.failed /\ proc'.unwritten = {}
  BY <1>1, <1>2 DEF Taken, Process
<1>3. ASSUME NEW h, Missed(h)
      PROVE  /\ proc'.todo = Tail(proc.todo) /\ proc'.job = proc.job /\ proc'.phase = proc.phase
             /\ proc'.plan = proc.plan /\ proc'.ok = proc.ok /\ proc'.outer = proc.outer
             /\ proc'.failed = proc.failed \cup MissedYears(h) /\ proc'.unwritten = {}
  BY <1>1, <1>3 DEF Missed, Process
<1>4. ASSUME NEW h, NEW gap, Answered(h, gap)
      PROVE  /\ proc'.todo = Tail(proc.todo) /\ proc'.job = proc.job /\ proc'.phase = proc.phase
             /\ proc'.plan = proc.plan /\ proc'.ok = proc.ok /\ proc'.outer = proc.outer
             /\ proc'.failed = proc.failed
             /\ proc'.frame = [h EXCEPT !.vintage = vintage] /\ proc'.held = h.chunk \ gap
             /\ proc'.unwritten = {YearOf[d] : d \in h.chunk \ gap}
  <2> DEFINE a == [h EXCEPT !.vintage = vintage]
             u == {YearOf[d] : d \in h.chunk \ gap}
  <2>1. proc' = [proc EXCEPT !.todo = Tail(@), !.frame = a, !.held = h.chunk \ gap, !.unwritten = u]
    BY <1>4 DEF Answered
  <2> HIDE DEF a, u
  <2>2. /\ proc'.todo = Tail(proc.todo) /\ proc'.job = proc.job /\ proc'.phase = proc.phase
        /\ proc'.plan = proc.plan /\ proc'.ok = proc.ok /\ proc'.outer = proc.outer
        /\ proc'.failed = proc.failed /\ proc'.frame = a /\ proc'.held = h.chunk \ gap
        /\ proc'.unwritten = u
    BY <1>1, <2>1 DEF Process
  <2> QED BY <2>2 DEF a, u
<1>5. Taken(Head(proc.todo)) \/ (\E gap \in Gaps : Answered(Head(proc.todo), gap))
      \/ Missed(Head(proc.todo))
  BY CollectEnds
<1>6. /\ proc'.todo = Tail(proc.todo) /\ proc'.job = proc.job /\ proc'.phase = proc.phase
      /\ proc'.plan = proc.plan /\ proc'.ok = proc.ok /\ proc'.outer = proc.outer
      /\ proc.failed \subseteq proc'.failed
  BY <1>2, <1>3, <1>4, <1>5
<1> QED BY <1>2, <1>3, <1>4, <1>6

(* An answer in hand is whole, and what a fragment that may be taken over   *)
(* does not hold stays known to be lacking: its request is not asked again. *)
LEMMA CollectFits ==
  ASSUME RunsTyped, CollectInv, Collect
  PROVE  FrameAnswered' /\ FragmentsFit'
<1>0. PICK h, k : h = Head(proc.todo) /\ k = Key(proc.job)
  OBVIOUS
<1>1. /\ proc.phase = "running" /\ proc.unwritten = {} /\ staged' = staged
      /\ k \in RunKey /\ lacking \in [RunKey -> SUBSET Lack] /\ h \in Frame
      /\ Taken(h) \/ (\E gap \in Gaps : Answered(h, gap)) \/ Missed(h)
  BY <1>0, CollectEnds
<1>2. proc'.phase = "running" /\ proc'.job = proc.job
  BY <1>1, CollectStep
<1>3. CASE Taken(h) \/ Missed(h)
  <2>1. proc'.unwritten = {} /\ lacking' = lacking
    BY <1>3, CollectStep DEF Taken, Missed
  <2>2. FragmentsFit'
    BY <1>1, <2>1 DEF CollectInv, FragmentsFit, Lacking
  <2> QED BY <1>2, <2>1, <2>2 DEF FrameAnswered
<1>4. ASSUME NEW gap \in Gaps, Answered(h, gap) PROVE FrameAnswered' /\ FragmentsFit'
  <2>0. PICK p : p = proc'.frame
    OBVIOUS
  <2>1. p = [h EXCEPT !.vintage = vintage] /\ proc'.held = h.chunk \ gap
    BY <1>4, <2>0, CollectStep
  <2>2. /\ lacking' = [lacking EXCEPT ![k] = Relearned(@, h, gap)]
        /\ ~(Resume /\ OnDisk(h))
    BY <1>0, <1>4 DEF Answered
  <2>3. p.chunk = h.chunk /\ OfRequest(p, h)
    BY <1>1, <2>1 DEF Frame, OfRequest
  <2>4. ASSUME NEW d \in h.chunk PROVE d \in proc'.held \/ Lacking(k, p, d)'
    <3>1. CASE d \notin gap
      BY <2>1, <3>1
    <3>2. CASE d \in gap
      BY <1>1, <2>2, <2>3, <2>4, <3>2, RelearnedKeeps
    <3> QED BY <3>1, <3>2
  <2>5. FrameAnswered'
    BY <1>0, <1>2, <2>0, <2>3, <2>4 DEF FrameAnswered, Lacking, OfRequest
  <2>6. ASSUME NEW r \in RunKey, NEW f \in staged'[r]
        PROVE  /\ \E d \in f.chunk : YearOf[d] = f.year
               /\ Resume => \A d \in f.chunk : YearOf[d] = f.year => d \in f.held \/ Lacking(r, f, d)'
    <3>1. f \in staged[r]
      BY <1>1
    <3>2. /\ \E d \in f.chunk : YearOf[d] = f.year
          /\ Resume => \A d \in f.chunk : YearOf[d] = f.year => d \in f.held \/ Lacking(r, f, d)
      BY <3>1 DEF CollectInv, FragmentsFit
    <3>3. ASSUME Resume, NEW d, Lacking(r, f, d) PROVE Lacking(r, f, d)'
      <4>1. CASE r # k
        BY <1>1, <2>2, <3>3, <4>1 DEF Lacking, OfRequest
      <4>2. CASE r = k
        <5>1. ~OfRequest(f, h)
          BY <1>0, <2>2, <3>1, <3>3, <4>2 DEF OnDisk
        <5> QED BY <1>1, <2>2, <3>3, <4>2, <5>1, RelearnedKeeps
      <4> QED BY <4>1, <4>2
    <3> QED BY <3>2, <3>3
  <2>7. FragmentsFit'
    BY <2>6 DEF FragmentsFit
  <2> QED BY <2>5, <2>7
<1> QED BY <1>1, <1>3, <1>4

(* A request that ends without a failure has each of its sessions.          *)
LEMMA RequestGot ==
  ASSUME RunsTyped, CollectInv, Collect, ResumesWhole, proc'.failed = {},
         NEW h, h = Head(proc.todo), NEW d \in h.chunk
  PROVE  Got(h, d)'
<1>0. PICK k : k = Key(proc.job)
  OBVIOUS
<1>1. /\ staged' = staged /\ proc.phase = "running"
      /\ k \in RunKey /\ lacking \in [RunKey -> SUBSET Lack] /\ h \in Frame
      /\ h.chunk # {} /\ \E ch \in Chunk : h.chunk \subseteq ch
      /\ Taken(h) \/ (\E gap \in Gaps : Answered(h, gap)) \/ Missed(h)
  BY <1>0, CollectEnds
<1>2. proc'.job = proc.job /\ k = Key(proc'.job)
  BY <1>0, CollectStep
<1>3. CASE Taken(h)
  <2>1. Resume /\ OnDisk(h) /\ lacking' = lacking
    BY <1>3 DEF Taken
  <2>2. PICK f \in staged[k] : OfRequest(f, h)
    BY <1>0, <2>1 DEF OnDisk
  <2>3. /\ \E e \in f.chunk : YearOf[e] = f.year
        /\ \A e \in f.chunk : YearOf[e] = f.year => e \in f.held \/ Lacking(k, f, e)
    BY <1>1, <2>1, <2>2 DEF CollectInv, FragmentsFit
  <2>4. f.chunk = h.chunk
    BY <2>2 DEF OfRequest
  <2>5. YearOf[d] = f.year
    BY <1>1, <1>2, <2>1, <2>3, <2>4 DEF ResumesWhole, ChunksWithinYears
  <2>6. d \in f.held \/ Lacking(k, f, d)
    BY <1>2, <2>3, <2>4, <2>5
  <2>7. CASE d \in f.held
    <3>1. DayStaged(h, d)'
      BY <1>1, <1>2, <2>2, <2>5, <2>7 DEF DayStaged, OfRequest
    <3> QED BY <3>1 DEF Got
  <2>8. CASE Lacking(k, f, d)
    <3>1. Lacking(k, h, d)'
      BY <2>1, <2>2, <2>8 DEF Lacking, OfRequest
    <3> QED BY <1>2, <3>1 DEF Got
  <2> QED BY <2>6, <2>7, <2>8
<1>4. ASSUME NEW gap \in Gaps, Answered(h, gap) PROVE Got(h, d)'
  <2>1. /\ proc'.frame = [h EXCEPT !.vintage = vintage] /\ proc'.held = h.chunk \ gap
        /\ proc'.unwritten = {YearOf[e] : e \in h.chunk \ gap}
    BY <1>4, CollectStep
  <2>2. CASE d \notin gap
    <3>1. OfRequest(proc'.frame, h)
      BY <1>1, <2>1 DEF Frame, OfRequest
    <3>2. d \in proc'.held /\ YearOf[d] \in proc'.unwritten
      BY <1>2, <2>1, <2>2
    <3>3. InHand(h, d)'
      BY <3>1, <3>2 DEF InHand, OfRequest
    <3> QED BY <3>3 DEF Got
  <2>3. CASE d \in gap
    <3>1. lacking' = [lacking EXCEPT ![k] = Relearned(@, h, gap)]
      BY <1>0, <1>4 DEF Answered
    <3>2. Lacking(k, h, d)'
      BY <1>1, <2>3, <3>1, RelearnedKeeps DEF OfRequest
    <3> QED BY <1>2, <3>2 DEF Got
  <2> QED BY <2>2, <2>3
<1>5. CASE Missed(h)
  <2>1. proc'.failed = proc.failed \cup MissedYears(h)
    BY <1>5, CollectStep
  <2>2. MissedYears(h) # {}
    BY <1>1 DEF MissedYears
  <2> QED BY <2>1, <2>2
<1> QED BY <1>1, <1>3, <1>4, <1>5

(* The other requests keep theirs.                                          *)
LEMMA OthersGot ==
  ASSUME RunsTyped, CollectInv, Collect, NEW h, h = Head(proc.todo),
         NEW q, NEW d, Got(q, d), ~OfRequest(q, h)
  PROVE  Got(q, d)'
<1>0. PICK k : k = Key(proc.job)
  OBVIOUS
<1>1. /\ staged' = staged /\ proc.unwritten = {}
      /\ k \in RunKey /\ lacking \in [RunKey -> SUBSET Lack]
      /\ Taken(h) \/ (\E gap \in Gaps : Answered(h, gap)) \/ Missed(h)
  BY <1>0, CollectEnds
<1>2. proc'.job = proc.job /\ k = Key(proc'.job)
  BY <1>0, CollectStep
<1>3. DayStaged(q, d) \/ Lacking(k, q, d)
  BY <1>0, <1>1 DEF Got, InHand
<1>4. CASE DayStaged(q, d)
  BY <1>1, <1>2, <1>4 DEF DayStaged, Got
<1>5. CASE Lacking(k, q, d)
  <2>1. CASE lacking' = lacking
    <3>1. Lacking(k, q, d)'
      BY <1>5, <2>1 DEF Lacking
    <3> QED BY <1>2, <3>1 DEF Got
  <2>2. ASSUME NEW gap \in Gaps, Answered(h, gap) PROVE Got(q, d)'
    <3>1. lacking' = [lacking EXCEPT ![k] = Relearned(@, h, gap)]
      BY <1>0, <2>2 DEF Answered
    <3>2. Lacking(k, q, d)'
      BY <1>1, <1>5, <3>1, RelearnedKeeps
    <3> QED BY <1>2, <3>2 DEF Got
  <2> QED BY <1>1, <2>1, <2>2 DEF Taken, Missed
<1> QED BY <1>3, <1>4, <1>5

LEMMA CollectCollects ==
  ASSUME RunsTyped, CollectInv, Collect, ResumesWhole
  PROVE  TodoAsked' /\ Collected' /\ PlanWhole'
<1>0. PICK h : h = Head(proc.todo)
  OBVIOUS
<1> DEFINE j == proc.job
<1>1. /\ proc.phase = "running" /\ proc.todo # <<>> /\ proc.todo \in Seq(Frame)
      /\ h \in Requests(j)
  BY <1>0, CollectEnds
<1>2. /\ proc'.todo = Tail(proc.todo) /\ proc'.job = j /\ proc'.phase = "running"
      /\ proc'.plan = proc.plan /\ proc.failed \subseteq proc'.failed
  BY <1>1, CollectStep
<1>3. /\ h = proc.todo[1] /\ Len(proc.todo) \in Nat
      /\ Len(Tail(proc.todo)) = Len(proc.todo) - 1
      /\ \A n \in 1 .. Len(proc.todo) - 1 : Tail(proc.todo)[n] = proc.todo[n + 1]
  BY <1>0, <1>1
<1>4. TodoAsked'
  <2>1. \A n \in 1 .. Len(proc.todo) : proc.todo[n] \in Requests(j)
    BY <1>1 DEF CollectInv, TodoAsked
  <2>2. ASSUME NEW n \in 1 .. Len(Tail(proc.todo)) PROVE Tail(proc.todo)[n] \in Requests(j)
    <3>1. n \in 1 .. Len(proc.todo) - 1 /\ n + 1 \in 1 .. Len(proc.todo)
      BY <1>3, <2>2
    <3> QED BY <1>3, <2>1, <3>1
  <2> QED BY <1>2, <2>2 DEF TodoAsked
<1>5. ASSUME proc'.failed = {}, NEW q \in Requests(j)
      PROVE  Pending(q)' \/ \A d \in q.chunk : Got(q, d)'
  <2>1. Pending(q) \/ \A d \in q.chunk : Got(q, d)
    BY <1>1, <1>2, <1>5 DEF CollectInv, Collected
  <2>2. CASE OfRequest(q, h)
    <3>1. ASSUME NEW d \in q.chunk PROVE Got(q, d)'
      <4>1. d \in h.chunk
        BY <2>2, <3>1 DEF OfRequest
      <4>2. Got(h, d)'
        BY <1>0, <1>5, <4>1, RequestGot
      <4> QED BY <2>2, <4>2 DEF Got, InHand, DayStaged, Lacking, OfRequest
    <3> QED BY <3>1
  <2>3. CASE ~OfRequest(q, h) /\ \A d \in q.chunk : Got(q, d)
    BY <1>0, <2>3, OthersGot
  <2>4. CASE ~OfRequest(q, h) /\ Pending(q)
    <3>1. PICK n \in 1 .. Len(proc.todo) : proc.todo[n] = q
      BY <2>4 DEF Pending
    <3>2. q # h
      BY <2>4 DEF OfRequest
    <3>3. n - 1 \in 1 .. Len(proc.todo) - 1 /\ (n - 1) + 1 = n
      BY <1>3, <3>1, <3>2
    <3>4. Tail(proc.todo)[n - 1] = q /\ n - 1 \in 1 .. Len(Tail(proc.todo))
      BY <1>3, <3>1, <3>3
    <3> QED BY <1>2, <3>4 DEF Pending
  <2> QED BY <2>1, <2>2, <2>3, <2>4
<1>6. Collected'
  BY <1>2, <1>5 DEF Collected
<1>7. PlanWhole'
  BY <1>1, <1>2 DEF CollectInv, PlanWhole, Planned
<1> QED BY <1>4, <1>6, <1>7

(* A fragment that is written is the one in hand; one it replaces holds     *)
(* nothing more that the answer does not lack.                              *)
LEMMA WriteCollects ==
  ASSUME RunsTyped, CollectInv, WriteFragment
  PROVE  FrameAnswered' /\ FragmentsFit' /\ TodoAsked' /\ Collected' /\ PlanWhole'
<1> DEFINE k == Key(proc.job)
<1> DEFINE f(y) == [source |-> proc.frame.source, instrument |-> proc.frame.instrument,
                    chunk |-> proc.frame.chunk, year |-> y, held |-> proc.held,
                    vintage |-> proc.frame.vintage]
<1>1. PICK y \in proc.unwritten :
        /\ staged' = [staged EXCEPT ![k] = {g \in @ : ~SameFile(f(y), g)} \cup {f(y)}]
        /\ proc' = [proc EXCEPT !.unwritten = @ \ {y}]
  BY DEF WriteFragment
<1>2. proc.phase = "running" /\ proc \in Process /\ k \in RunKey /\ lacking' = lacking
  BY JobTyped DEF WriteFragment, RunsTyped
<1>3. /\ proc'.unwritten = proc.unwritten \ {y} /\ proc'.frame = proc.frame
      /\ proc'.phase = proc.phase /\ proc'.job = proc.job /\ proc'.todo = proc.todo
      /\ proc'.failed = proc.failed /\ proc'.held = proc.held /\ proc'.plan = proc.plan
  BY <1>1, <1>2 DEF Process
<1>4. \E d \in proc.frame.chunk : YearOf[d] = y
  BY <1>1 DEF RunsTyped, FrameFits
<1>5. \A d \in proc.frame.chunk : d \in proc.held \/ Lacking(k, proc.frame, d)
  BY <1>1, <1>2 DEF CollectInv, FrameAnswered
<1>6. /\ f(y).year = y /\ f(y).chunk = proc.frame.chunk /\ f(y).held = proc.held
      /\ OfRequest(f(y), proc.frame)
  BY DEF OfRequest
<1> HIDE DEF f, k
<1>7. /\ staged'[k] = {g \in staged[k] : ~SameFile(f(y), g)} \cup {f(y)}
      /\ \A r \in RunKey : r # k => staged'[r] = staged[r]
  BY <1>1, <1>2 DEF RunsTyped, TypeOK
<1>8. FrameAnswered'
  BY <1>2, <1>3, <1>5 DEF FrameAnswered, Lacking, k, Key
<1>9. FragmentsFit'
  <2>1. \A r : \A g, d : Lacking(r, g, d)' <=> Lacking(r, g, d)
    BY <1>2 DEF Lacking
  <2>2. \A d \in f(y).chunk : d \in f(y).held \/ Lacking(k, f(y), d)
    BY <1>5, <1>6 DEF Lacking, OfRequest
  <2>3. \E d \in f(y).chunk : YearOf[d] = f(y).year
    BY <1>4, <1>6
  <2>4. ASSUME NEW r \in RunKey, NEW g \in staged'[r]
        PROVE  /\ \E d \in g.chunk : YearOf[d] = g.year
               /\ Resume => \A d \in g.chunk : YearOf[d] = g.year => d \in g.held \/ Lacking(r, g, d)
    <3>1. g \in staged[r] \/ (r = k /\ g = f(y))
      BY <1>7
    <3>2. CASE g \in staged[r]
      BY <3>2 DEF CollectInv, FragmentsFit
    <3>3. CASE r = k /\ g = f(y)
      BY <2>2, <2>3, <3>3
    <3> QED BY <3>1, <3>2, <3>3
  <2> QED BY <2>1, <2>4 DEF FragmentsFit
<1>10. TodoAsked' /\ PlanWhole'
  BY <1>3 DEF CollectInv, TodoAsked, PlanWhole, Planned
<1>11. ASSUME NEW q, NEW d \in q.chunk, Got(q, d) PROVE Got(q, d)'
  <2>1. k' = k
    BY <1>3 DEF k, Key
  <2>2. ASSUME NEW g \in staged'[k], g.year = YearOf[d], d \in g.held, OfRequest(g, q)
        PROVE  Got(q, d)'
    BY <2>1, <2>2 DEF DayStaged, Got, k
  <2>3. ASSUME Lacking(k, q, d) PROVE Got(q, d)'
    BY <1>2, <2>1, <2>3 DEF Lacking, Got, k
  <2>4. f(y) \in staged'[k]
    BY <1>7
  <2>5. CASE InHand(q, d) /\ YearOf[d] = y
    <3>1. OfRequest(f(y), q) /\ d \in f(y).held
      BY <1>6, <2>5 DEF InHand, OfRequest
    <3> QED BY <1>6, <2>2, <2>4, <2>5, <3>1
  <2>6. CASE InHand(q, d) /\ YearOf[d] # y
    BY <1>3, <2>6 DEF InHand, Got
  <2>7. CASE DayStaged(q, d)
    <3>1. PICK g \in staged[k] : g.year = YearOf[d] /\ d \in g.held /\ OfRequest(g, q)
      BY <2>7 DEF DayStaged, k
    <3>2. CASE SameFile(f(y), g)
      <4>1. f(y).year = YearOf[d] /\ OfRequest(f(y), q) /\ OfRequest(proc.frame, q)
        BY <1>6, <3>1, <3>2 DEF SameFile, OfRequest
      <4>2. d \in proc.frame.chunk
        BY <1>11, <4>1 DEF OfRequest
      <4>3. CASE d \in proc.held
        BY <1>6, <2>2, <2>4, <4>1, <4>3
      <4>4. CASE Lacking(k, proc.frame, d)
        <5>1. Lacking(k, q, d)
          BY <4>1, <4>4 DEF Lacking, OfRequest
        <5> QED BY <2>3, <5>1
      <4> QED BY <1>5, <4>2, <4>3, <4>4
    <3>3. CASE ~SameFile(f(y), g)
      <4>1. g \in staged'[k]
        BY <1>7, <3>1, <3>3
      <4> QED BY <2>2, <3>1, <4>1
    <3> QED BY <3>2, <3>3
  <2> QED BY <1>11, <2>3, <2>5, <2>6, <2>7 DEF Got, k
<1>12. Collected'
  <2>1. ASSUME proc'.phase = "running", proc'.failed = {}, NEW q \in Requests(proc'.job)
        PROVE  Pending(q)' \/ \A d \in q.chunk : Got(q, d)'
    <3>1. Pending(q) \/ \A d \in q.chunk : Got(q, d)
      BY <1>3, <2>1 DEF CollectInv, Collected
    <3>2. Pending(q) => Pending(q)'
      BY <1>3 DEF Pending
    <3> QED BY <1>11, <3>1, <3>2
  <2> QED BY <2>1 DEF Collected
<1> QED BY <1>8, <1>9, <1>10, <1>12

(* Once everything is staged, each year, instrument and session asked for   *)
(* has a bar among those a publication reads, or was lacking.               *)
LEMMA StagedComplete ==
  ASSUME RunsTyped, CollectInv, Publishing, proc.failed = {}, proc.job.kind \in Fetching,
         NEW c \in Contract, NEW i \in proc.job.instruments, NEW d \in proc.job.days,
         ~Lacked(proc.job, c, i, d)
  PROVE  \E b \in StagedBars(Key(proc.job), c, YearOf[d], i) : b[1] = d
<1> DEFINE j == proc.job
           k == Key(proc.job)
           s == SourceOf(j, c)
<1>1. j \in Request /\ k.kind = j.kind /\ d \in Day
  BY JobTyped, RequestFields DEF Publishing, RunsTyped
<1>2. s \in Sources(j) /\ SourceOf(k, c) = s
  BY <1>1 DEF Sources, SourceOf
<1> HIDE DEF s
<1>3. PICK q \in Requests(j) : q.source = s /\ q.instrument = i /\ d \in q.chunk
  BY <1>1, <1>2, RequestsCover
<1>4. ~Pending(q) /\ ~InHand(q, d)
  BY DEF Publishing, Pending, InHand
<1>5. Got(q, d)
  BY <1>3, <1>4 DEF Publishing, CollectInv, Collected
<1>6. ~Lacking(k, q, d)
  BY <1>3 DEF Lacking, Lacked, OfRequest, s
<1>7. PICK f \in staged[k] : f.year = YearOf[d] /\ d \in f.held /\ OfRequest(f, q)
  BY <1>4, <1>5, <1>6 DEF Got, DayStaged
<1> HIDE DEF k
<1>8. f \in StagedFor(k, c, YearOf[d]) /\ f.instrument = i
  BY <1>2, <1>3, <1>7 DEF StagedFor, OfRequest
<1>9. <<d, f.vintage>> \in StagedBars(k, c, YearOf[d], i)
  BY <1>7, <1>8 DEF StagedBars
<1> QED BY <1>9 DEF k

(* So a publication of a complete collection has a group for each.          *)
LEMMA GroupsServe ==
  ASSUME RunsTyped, CollectInv, Publishing, proc.failed = {}, proc.job.kind \in Fetching,
         NEW c \in Contract, NEW i \in proc.job.instruments, NEW d \in proc.job.days,
         ~Lacked(proc.job, c, i, d)
  PROVE  \E g \in Groups(proc.job, c, YearOf[d]) :
           g.instrument = i /\ \E b \in g.bars : b[1] = d
<1> DEFINE k == Key(proc.job)
           y == YearOf[d]
<1>1. PICK b \in StagedBars(k, c, y, i) : b[1] = d
  BY StagedComplete
<1>2. proc.job \in Request /\ k.days = proc.job.days /\ i \in Instrument
  BY JobTyped, RequestFields DEF Publishing, RunsTyped
<1> HIDE DEF k
<1>3. CASE proc.job.kind = "incremental"
  <2> DEFINE D == {x \in k.days : YearOf[x] = y}
             grp(e, o) == Group("DAY", {e}, o, {x \in StagedBars(k, c, y, o) : x[1] = e})
             g == grp(d, i)
  <2>1. b \in g.bars /\ g.instrument = i
    BY <1>1 DEF Group
  <2>2. d \in D
    BY <1>2
  <2>3. DailyGroups(k, c, y) = NonEmpty({grp(e, o) : e \in D, o \in Instrument})
    BY DEF DailyGroups
  <2>4. g \in DailyGroups(k, c, y)
    <3> HIDE DEF grp, D
    <3>1. g \in {grp(e, o) : e \in D, o \in Instrument}
      BY <1>2, <2>2
    <3> QED BY <2>1, <2>3, <3>1 DEF NonEmpty
  <2>5. Groups(proc.job, c, y) = DailyGroups(k, c, y)
    BY <1>3 DEF Groups, k
  <2> HIDE DEF g, y
  <2> QED BY <1>1, <2>1, <2>4, <2>5 DEF y
<1>4. CASE proc.job.kind \in {"backfill", "migrate"}
  <2> DEFINE g == Group("YEAR", DaysIn({y}), i, StagedBars(k, c, y, i))
  <2>1. b \in g.bars /\ g.instrument = i
    BY <1>1 DEF Group
  <2>2. g \in AnnualGroups(k, c, y)
    <3>1. g \in {Group("YEAR", DaysIn({y}), o, StagedBars(k, c, y, o)) : o \in Instrument}
      BY <1>2
    <3> HIDE DEF g
    <3> QED BY <2>1, <3>1 DEF AnnualGroups, NonEmpty
  <2>3. Groups(proc.job, c, y) = AnnualGroups(k, c, y)
    BY <1>4 DEF Groups, k
  <2> HIDE DEF g, y
  <2> QED BY <1>1, <2>1, <2>2, <2>3 DEF y
<1> QED BY <1>3, <1>4 DEF Fetching

(* The bars of objects listed are published.                                *)
LEMMA ListedIsPublished ==
  ASSUME NEW c, NEW y, NEW o \in Listed(manifest[<<c, y>>])', NEW b \in o.bars
  PROVE  <<o.instrument, b[1], b[2]>> \in Published(c, y)'
<1>1. Published(c, y)' = BarsOf(Listed(manifest[<<c, y>>])')
  BY DEF Published, BarsOf
<1> HIDE DEF Published
<1> DEFINE L == Listed(manifest[<<c, y>>])'
<1>2. <<o.instrument, b[1], b[2]>> \in BarsOf(L)
  <2>1. o \in L
    OBVIOUS
  <2> HIDE DEF L
  <2> QED BY <2>1 DEF BarsOf
<1> QED BY <1>1, <1>2

-----------------------------------------------------------------------------
(* Publishing.                                                              *)

(* What one publication does to its dataset year, and to no other.          *)
PublishesTo(c, y, after, ok) ==
  LET m == manifest[<<c, y>>]
      j == proc.job
      new == New(m, Groups(j, c, y), j.revision)
  IN /\ manifest' = [manifest EXCEPT ![<<c, y>>] = after]
     /\ proc' = [proc EXCEPT !.plan = Tail(@), !.ok = @ /\ ok]
     /\ \A r \in Revision : after[r].objects \subseteq (m[r].objects \cup Listed(m)) \cup new
     /\ j.revision = 0 /\ ok =>
          Listed(after) = m[NextRevision(m, 0)].objects
                            \cup ((Listed(m) \ Overlapping(Listed(m), Replaced(j, y))) \cup new)
     /\ j.revision = 0 /\ ~ok => Listed(after) = Listed(m)

LEMMA PublicationEffect ==
  ASSUME RunsTyped, Publication
  PROVE  /\ Publishing /\ proc.plan # <<>> /\ UNCHANGED <<vintage, run, staged, lacking>>
         /\ \E c \in Contract, y \in Year, after \in YearManifest, ok \in BOOLEAN :
              Head(proc.plan) = <<c, y>> /\ PublishesTo(c, y, after, ok)
<1>1. PICK bad \in BOOLEAN : PublishNext(bad)
  BY DEF Publication
<1>2. Publishing /\ proc.plan # <<>> /\ UNCHANGED <<vintage, run, staged, lacking>>
  BY <1>1 DEF PublishNext
<1> DEFINE j == proc.job
           c == Head(proc.plan)[1]
           y == Head(proc.plan)[2]
           m == manifest[<<c, y>>]
           groups == Groups(j, c, y)
           failed == \/ bad
                     \/ j.kind # "migrate" /\ y \in proc.failed
                     \/ j.kind = "migrate" /\ NoSource(c, y)
           out == Outcome(m, groups, Replaced(j, y), j.revision, failed)
           after == AfterPublication(m, j.revision, out)
           new == New(m, groups, j.revision)
           ok == out.status = "AVAILABLE"
<1>3. /\ c \in Contract /\ y \in Year /\ m \in YearManifest
      /\ j.revision \in Revision \cup {0}
      /\ NextRevision(m, j.revision) \in Revision
      /\ groups \in SUBSET GroupRecord
      /\ out.status \in {"AVAILABLE", "QUARANTINED"} /\ out.objects \subseteq Object
      /\ after \in YearManifest
      /\ manifest' = [manifest EXCEPT ![<<c, y>>] = after]
      /\ proc' = [proc EXCEPT !.plan = Tail(@), !.ok = @ /\ ok]
  BY <1>1, PublishTyped DEF RunsTyped
<1>4. Head(proc.plan) = <<c, y>>
  <2>1. proc.plan \in Seq(Dataset)
    BY DEF RunsTyped, TypeOK, Process
  <2>2. Head(proc.plan) \in Dataset
    BY <1>2, <2>1
  <2> QED BY <2>2 DEF Dataset
<1> HIDE DEF c, y
<1>5. out \in ManifestRecord
  <2>1. DOMAIN out = {"objects", "status"} /\ out = [objects |-> out.objects, status |-> out.status]
    BY DEF Outcome
  <2> HIDE DEF out
  <2> QED BY <1>3, <2>1 DEF ManifestRecord, Status
<1>6. /\ out.objects \subseteq Listed(m) \cup new
      /\ ok => out.objects = (Listed(m) \ Overlapping(Listed(m), Replaced(j, y))) \cup new
  <2> HIDE DEF m, j, groups, failed
  <2> QED BY <1>3, PublicationTyped
<1> HIDE DEF m, groups, failed, out
<1>7. \A r \in Revision : after[r].objects \subseteq (m[r].objects \cup Listed(m)) \cup new
  <2>1. ASSUME NEW r \in Revision
        PROVE  after[r].objects \subseteq m[r].objects \cup out.objects
    <3>1. m[r] \in ManifestRecord
      BY <1>3 DEF YearManifest
    <3>2. [m[r] EXCEPT !.status = "SUPERSEDED"].objects = m[r].objects
      BY <3>1 DEF ManifestRecord
    <3> QED BY <3>2 DEF AfterPublication
  <2> HIDE DEF after, new
  <2> QED BY <1>6, <2>1
<1>8. j.revision = 0 => /\ ok => Listed(after) = m[NextRevision(m, 0)].objects \cup out.objects
                        /\ ~ok => Listed(after) = Listed(m)
  BY <1>3, <1>5, PublicationListed
<1>9. ok \in BOOLEAN
  OBVIOUS
<1>10. PublishesTo(c, y, after, ok)
  <2> HIDE DEF after, ok
  <2> QED BY <1>3, <1>6, <1>7, <1>8 DEF PublishesTo, m, groups, new
<1> HIDE DEF after, ok
<1> QED BY <1>2, <1>3, <1>4, <1>9, <1>10

(* A dataset that is not the one published keeps its bars, the one that is  *)
(* has those of its new listing.                                            *)
LEMMA PublishedElsewhere ==
  ASSUME RunsTyped, NEW c \in Contract, NEW y \in Year, NEW after, NEW ok, PublishesTo(c, y, after, ok)
  PROVE  /\ manifest'[<<c, y>>] = after
         /\ \A d \in Contract, z \in Year : <<d, z>> # <<c, y>> =>
              manifest'[<<d, z>>] = manifest[<<d, z>>] /\ Published(d, z)' = Published(d, z)
         /\ Published(c, y)' = BarsOf(Listed(after))
<1>1. manifest' = [manifest EXCEPT ![<<c, y>>] = after]
  BY DEF PublishesTo
<1>2. \A d \in Contract, z \in Year : <<d, z>> \in DOMAIN manifest
  BY DEF RunsTyped, TypeOK, Dataset
<1>3. manifest'[<<c, y>>] = after
  BY <1>1, <1>2
<1>4. \A d \in Contract, z \in Year : <<d, z>> # <<c, y>> => manifest'[<<d, z>>] = manifest[<<d, z>>]
  BY <1>1, <1>2
<1>5. ASSUME NEW d \in Contract, NEW z \in Year
      PROVE  Published(d, z)' = BarsOf(Listed(manifest'[<<d, z>>]))
  BY DEF Published, BarsOf, Listed, Newest, Available
<1>6. \A d \in Contract, z \in Year : Published(d, z) = BarsOf(Listed(manifest[<<d, z>>]))
  BY DEF Published
<1> QED BY <1>3, <1>4, <1>5, <1>6

LEMMA PublicationCollects ==
  ASSUME RunsTyped, CollectInv, Publication
  PROVE  CollectInv'
<1>1. /\ Publishing /\ proc.plan # <<>> /\ UNCHANGED <<vintage, run, staged, lacking>>
      /\ \E c \in Contract, y \in Year, after \in YearManifest, ok \in BOOLEAN :
              Head(proc.plan) = <<c, y>> /\ PublishesTo(c, y, after, ok)
  BY PublicationEffect
<1>2. PICK c \in Contract, y \in Year, after \in YearManifest, ok \in BOOLEAN :
        Head(proc.plan) = <<c, y>> /\ PublishesTo(c, y, after, ok)
  BY <1>1
<1>3. proc \in Process /\ proc.phase = "running" /\ proc.plan \in Seq(Dataset)
  BY <1>1 DEF RunsTyped, TypeOK, Process, Publishing
<1>4. /\ proc' = [proc EXCEPT !.plan = Tail(@), !.ok = @ /\ ok]
  BY <1>2 DEF PublishesTo
<1>5. /\ proc'.plan = Tail(proc.plan) /\ proc'.ok = (proc.ok /\ ok)
      /\ proc'.phase = proc.phase /\ proc'.job = proc.job /\ proc'.todo = proc.todo
      /\ proc'.unwritten = proc.unwritten /\ proc'.frame = proc.frame
      /\ proc'.failed = proc.failed /\ proc'.held = proc.held
  BY <1>3, <1>4 DEF Process
<1>6. FrameAnswered' /\ FragmentsFit' /\ TodoAsked' /\ Collected' /\ PlanWhole'
  <2>1. FragmentsFit'
    BY <1>1 DEF CollectInv, FragmentsFit, Lacking
  <2>2. TodoAsked'
    BY <1>5 DEF CollectInv, TodoAsked
  <2>3. FrameAnswered' /\ Collected' /\ PlanWhole'
    BY <1>1, <1>5, CollectedKept DEF CollectInv, Publishing
  <2> QED BY <2>1, <2>2, <2>3
<1>7. ASSUME proc.job.kind \in Fetching, proc.job.revision = 0, proc.failed = {}, proc'.ok,
             NEW e \in Contract, NEW i \in proc.job.instruments, NEW d \in proc.job.days
      PROVE  Planned(e, YearOf[d])' \/ Lacked(proc.job, e, i, d)' \/ BarThere(e, i, d)'
  <2>1. proc.ok /\ ok
    BY <1>3, <1>5, <1>7 DEF Process
  <2>2. d \in Day /\ YearOf[d] \in Year
    <3>1. proc.job \in Request
      BY <1>3, JobTyped DEF RunsTyped
    <3> QED BY <3>1, RequestFields DEF Year
  <2>7. CASE Lacked(proc.job, e, i, d)
    BY <1>1, <1>5, <2>7 DEF Lacked
  <2>3. CASE <<e, YearOf[d]>> = <<c, y>> /\ ~Lacked(proc.job, e, i, d)
    <3>1. PICK g \in Groups(proc.job, c, y) : g.instrument = i /\ \E b \in g.bars : b[1] = d
      BY <1>1, <1>7, <2>3, GroupsServe
    <3>2. PICK b \in g.bars : b[1] = d
      BY <3>1
    <3> DEFINE m == manifest[<<c, y>>]
               o == [gran |-> g.gran, days |-> g.days, bars |-> g.bars,
                     instrument |-> g.instrument, rev |-> NextRevision(m, 0)]
    <3>3. o \in New(m, Groups(proc.job, c, y), 0)
      BY DEF New
    <3>4. o.bars = g.bars /\ o.instrument = i
      BY <3>1
    <3> HIDE DEF o
    <3>5. o \in Listed(after)
      BY <1>2, <1>7, <2>1, <3>3 DEF PublishesTo
    <3>6. <<i, d, b[2]>> \in BarsOf(Listed(after))
      BY <3>2, <3>4, <3>5 DEF BarsOf
    <3>7. Published(c, y)' = BarsOf(Listed(after))
      BY <1>2, PublishedElsewhere
    <3> HIDE DEF Published
    <3>8. <<i, d, b[2]>> \in Published(e, YearOf[d])'
      BY <2>3, <3>6, <3>7
    <3> QED BY <3>8 DEF BarThere
  <2>4. CASE <<e, YearOf[d]>> # <<c, y>> /\ BarThere(e, i, d)
    <3>1. Published(e, YearOf[d])' = Published(e, YearOf[d])
      BY <1>2, <2>2, <2>4, PublishedElsewhere
    <3> QED BY <1>5, <2>4, <3>1 DEF BarThere
  <2>5. CASE <<e, YearOf[d]>> # <<c, y>> /\ Planned(e, YearOf[d])
    <3>1. PICK n \in 1 .. Len(proc.plan) : proc.plan[n] = <<e, YearOf[d]>>
      BY <2>5 DEF Planned
    <3>2. /\ Len(proc.plan) \in Nat /\ Head(proc.plan) = proc.plan[1]
          /\ Len(Tail(proc.plan)) = Len(proc.plan) - 1
          /\ \A k \in 1 .. Len(proc.plan) - 1 : Tail(proc.plan)[k] = proc.plan[k + 1]
      BY <1>1, <1>3
    <3>3. n # 1
      BY <1>2, <2>5, <3>1, <3>2
    <3>4. n - 1 \in 1 .. Len(proc.plan) - 1 /\ (n - 1) + 1 = n
      BY <3>2, <3>3
    <3>5. Tail(proc.plan)[n - 1] = <<e, YearOf[d]>> /\ n - 1 \in 1 .. Len(Tail(proc.plan))
      BY <3>1, <3>2, <3>4
    <3> QED BY <1>5, <3>5 DEF Planned
  <2>6. Planned(e, YearOf[d]) \/ Lacked(proc.job, e, i, d) \/ BarThere(e, i, d)
    BY <1>3, <1>7, <2>1 DEF CollectInv, PlanServed
  <2> QED BY <2>7, <2>3, <2>4, <2>5, <2>6
<1>8. PlanServed'
  BY <1>5, <1>7 DEF PlanServed
<1> QED BY <1>6, <1>8 DEF CollectInv

LEMMA BeginRunCollects ==
  ASSUME RunsTyped, CollectInv, BeginRun
  PROVE  CollectInv'
<1> DEFINE j == proc.job
           todo == SetToSeq(Requests(j))
           plan == Plan(j)
<1>1. proc \in Process /\ j \in Asked /\ j \in Request
  BY JobTyped DEF BeginRun, RunsTyped
<1>2. proc' = [proc EXCEPT !.phase = "running", !.todo = todo, !.plan = plan]
      /\ staged' = staged /\ lacking' = lacking /\ proc.phase = "ready"
  BY DEF BeginRun
<1>3. /\ \A n \in 1 .. Len(todo) : todo[n] \in Requests(j)
      /\ \A q \in Requests(j) : \E n \in 1 .. Len(todo) : todo[n] = q
  BY <1>1, RequestsListed
<1>4. j.kind \in Fetching =>
        \A c \in Contract, y \in YearsOf(j) : \E n \in 1 .. Len(plan) : plan[n] = <<c, y>>
  BY <1>1, PlanSound
<1> HIDE DEF todo, plan
<1>5. proc'.todo = todo /\ proc'.plan = plan /\ proc'.job = j /\ proc'.unwritten = proc.unwritten
  BY <1>1, <1>2 DEF Process
<1>6. FragmentsFit' /\ FrameAnswered'
  <2>1. FragmentsFit'
    BY <1>2 DEF CollectInv, FragmentsFit, Lacking
  <2>2. proc.unwritten = {}
    BY <1>2 DEF CollectInv, FrameAnswered
  <2> QED BY <1>5, <2>1, <2>2 DEF FrameAnswered
<1>7. TodoAsked' /\ Collected'
  BY <1>3, <1>5 DEF TodoAsked, Collected, Pending
<1>8. PlanWhole' /\ PlanServed'
  <2>1. \A d \in j.days : YearOf[d] \in YearsOf(j)
    BY DEF YearsOf
  <2>2. ASSUME j.kind \in Fetching, NEW c \in Contract, NEW d \in j.days
        PROVE  Planned(c, YearOf[d])'
    BY <1>4, <1>5, <2>1, <2>2 DEF Planned
  <2> QED BY <1>5, <2>2 DEF PlanWhole, PlanServed
<1> QED BY <1>6, <1>7, <1>8 DEF CollectInv

LEMMA CollectInvNext ==
  ASSUME RunsTyped, CollectInv, [Next]_vars, ResumesWhole
  PROVE  CollectInv'
<1>1. proc \in Process
  BY DEF RunsTyped, TypeOK
<1>2. ASSUME staged' = staged, lacking' = lacking, proc'.phase # "running", proc'.unwritten = {}
      PROVE  CollectInv'
  <2>1. FragmentsFit'
    BY <1>2 DEF CollectInv, FragmentsFit, Lacking
  <2> QED BY <1>2, <2>1 DEF CollectInv, FrameAnswered, TodoAsked, Collected, PlanWhole, PlanServed
<1>3. ASSUME UNCHANGED <<staged, lacking, proc, manifest>> PROVE CollectInv'
  <2>1. FragmentsFit' /\ TodoAsked'
    BY <1>3 DEF CollectInv, FragmentsFit, TodoAsked, Lacking
  <2>2. FrameAnswered' /\ Collected' /\ PlanWhole'
    BY <1>3, CollectedKept DEF CollectInv
  <2>3. \A c, y : Published(c, y)' = Published(c, y)
    BY <1>3 DEF Published, BarsOf, Listed, Newest, Available
  <2>4. PlanServed'
    <3>1. \A c, y : Planned(c, y)' <=> Planned(c, y)
      BY <1>3 DEF Planned
    <3>2. \A c, i, d : BarThere(c, i, d)' <=> BarThere(c, i, d)
      BY <1>3, <2>3 DEF BarThere
    <3>3. \A c, i, d : Lacked(proc.job, c, i, d)' <=> Lacked(proc.job, c, i, d)
      BY <1>3 DEF Lacked
    <3> QED BY <1>3, <3>1, <3>2, <3>3 DEF CollectInv, PlanServed
  <2> QED BY <2>1, <2>2, <2>4 DEF CollectInv
<1>4. ASSUME NEW j \in Job, Start(j) PROVE CollectInv'
  BY <1>2, <1>4 DEF Start, Idle
<1>5. ASSUME Detect PROVE CollectInv'
  <2>1. proc.unwritten = {} /\ staged' = staged /\ lacking' = lacking
    BY <1>5 DEF Detect, CollectInv, FrameAnswered
  <2> QED BY <1>1, <1>2, <1>5, <2>1 DEF Detect, Process
<1>6. ASSUME CheckCompaction PROVE CollectInv'
  <2>1. proc.unwritten = {} /\ staged' = staged /\ lacking' = lacking
    BY <1>6 DEF CheckCompaction, CollectInv, FrameAnswered
  <2> QED BY <1>1, <1>2, <1>6, <2>1 DEF CheckCompaction, Process, Idle
<1>7. ASSUME ReuseRun \/ Finish PROVE CollectInv'
  BY <1>2, <1>7, FreshProcess DEF ReuseRun, Finish
<1>8. ASSUME RefuseRevision \/ Crash PROVE CollectInv'
  BY <1>2, <1>8 DEF RefuseRevision, Crash, Idle
<1>9. ASSUME Collect PROVE CollectInv'
  <2>1. FrameAnswered' /\ FragmentsFit' /\ TodoAsked' /\ Collected' /\ PlanWhole'
    BY <1>9, CollectFits, CollectCollects
  <2>2. /\ proc.phase = "running" /\ proc.todo # <<>> /\ proc.job.kind \in Fetching
    BY <1>9, CollectEnds
  <2>3. proc'.job = proc.job /\ proc'.plan = proc.plan
    BY <1>9, CollectStep
  <2>4. PlanServed'
    <3>1. \A c \in Contract, d \in proc.job.days : Planned(c, YearOf[d])
      BY <2>2 DEF CollectInv, PlanWhole
    <3>2. \A c \in Contract, d \in proc'.job.days : Planned(c, YearOf[d])'
      BY <2>3, <3>1 DEF Planned
    <3> QED BY <3>2 DEF PlanServed
  <2> QED BY <2>1, <2>4 DEF CollectInv
<1>10. ASSUME WriteFragment PROVE CollectInv'
  <2>1. FrameAnswered' /\ FragmentsFit' /\ TodoAsked' /\ Collected' /\ PlanWhole'
    BY <1>10, WriteCollects
  <2>2. /\ proc'.phase = proc.phase /\ proc'.job = proc.job /\ proc'.plan = proc.plan
        /\ proc'.ok = proc.ok /\ proc'.failed = proc.failed
        /\ manifest' = manifest /\ lacking' = lacking
    <3>1. PICK u : proc' = [proc EXCEPT !.unwritten = u]
      BY <1>10 DEF WriteFragment
    <3> QED BY <1>1, <1>10, <3>1 DEF WriteFragment, Process
  <2>3. \A c, y : Published(c, y)' = Published(c, y)
    BY <2>2 DEF Published, BarsOf, Listed, Newest, Available
  <2>4. PlanServed'
    <3>1. \A c, y : Planned(c, y)' <=> Planned(c, y)
      BY <2>2 DEF Planned
    <3>2. \A c, i, d : BarThere(c, i, d)' <=> BarThere(c, i, d)
      BY <2>3 DEF BarThere
    <3>3. \A c, i, d : Lacked(proc.job, c, i, d)' <=> Lacked(proc.job, c, i, d)
      BY <2>2 DEF Lacked
    <3> QED BY <2>2, <3>1, <3>2, <3>3 DEF CollectInv, PlanServed
  <2> QED BY <2>1, <2>4 DEF CollectInv
<1>11. ASSUME DeriveWithoutSource PROVE CollectInv'
  <2>1. /\ proc'.phase = proc.phase /\ proc'.job = proc.job /\ proc'.todo = proc.todo
        /\ proc'.unwritten = proc.unwritten /\ proc'.frame = proc.frame /\ proc'.held = proc.held
        /\ proc'.failed = proc.failed /\ proc'.ok = FALSE
        /\ staged' = staged /\ lacking' = lacking /\ proc.todo = <<>>
    BY <1>1, <1>11 DEF DeriveWithoutSource, Process, Publishing
  <2>2. FragmentsFit' /\ TodoAsked'
    BY <2>1 DEF CollectInv, FragmentsFit, TodoAsked, Lacking
  <2>3. FrameAnswered' /\ Collected' /\ PlanWhole'
    BY <2>1, CollectedKept DEF CollectInv
  <2>4. PlanServed'
    BY <2>1 DEF PlanServed
  <2> QED BY <2>2, <2>3, <2>4 DEF CollectInv
<1>12. ASSUME NEW k \in RunKey, CleanStaging(k) PROVE CollectInv'
  <2>1. proc.phase = "idle" /\ proc' = proc /\ lacking' = lacking
    BY <1>12 DEF CleanStaging
  <2>2. \A r \in RunKey : staged'[r] \subseteq staged[r]
    BY <1>12 DEF CleanStaging, RunsTyped, TypeOK
  <2>3. FragmentsFit'
    BY <2>1, <2>2 DEF CollectInv, FragmentsFit, Lacking
  <2>4. FrameAnswered'
    BY <2>1 DEF CollectInv, FrameAnswered
  <2> QED BY <2>1, <2>3, <2>4 DEF CollectInv, TodoAsked, Collected, PlanWhole, PlanServed
<1>13. ASSUME ProviderRevises \/ UNCHANGED vars PROVE CollectInv'
  BY <1>3, <1>13 DEF ProviderRevises, vars
<1> QED
  BY <1>4, <1>5, <1>6, <1>7, <1>8, <1>9, <1>10, <1>11, <1>12, <1>13, BeginRunCollects,
     PublicationCollects
  DEF Next

(* Unless a chunk that spans years may be taken over half written, a        *)
(* collecting run recorded SUCCEEDED has published, in both datasets, a bar *)
(* of every instrument and session it was asked for but those the answer to *)
(* its request lacked, whatever attempts of the same run, deaths and failed *)
(* fetches came before (RunComplete).                                       *)
THEOREM RunsAreComplete == ASSUME ResumesWhole PROVE Spec => RunComplete
<1>1. Init => RunsTyped
  BY RunsTypedInit
<1>2. RunsTyped /\ [Next]_vars => RunsTyped'
  BY RunsTypedNext
<1>3. Init => CollectInv
  BY DEF Init, Idle, CollectInv, FrameAnswered, FragmentsFit, TodoAsked, Collected, PlanWhole,
         PlanServed
<1>4. RunsTyped /\ CollectInv /\ [Next]_vars => CollectInv'
  BY CollectInvNext
<1>5. RunsTyped /\ CollectInv =>
        (Finish /\ Succeeded /\ proc.job.kind \in Fetching /\ proc.job.revision = 0 =>
           \A c \in Contract, i \in proc.job.instruments, d \in proc.job.days :
             \/ Lacked(proc.job, c, i, d)
             \/ \E b \in Published(c, YearOf[d]) : b[1] = i /\ b[2] = d)
  <2>1. SUFFICES ASSUME RunsTyped, CollectInv, Finish, Succeeded, proc.job.kind \in Fetching,
                        proc.job.revision = 0, NEW c \in Contract,
                        NEW i \in proc.job.instruments, NEW d \in proc.job.days
                 PROVE  Lacked(proc.job, c, i, d) \/ BarThere(c, i, d)
    BY DEF BarThere
  <2>2. ~Planned(c, YearOf[d])
    BY <2>1 DEF Finish, Planned
  <2> QED BY <2>1, <2>2 DEF Finish, Publishing, Succeeded, CollectInv, PlanServed
<1> QED BY <1>1, <1>2, <1>3, <1>4, <1>5, PTL DEF Spec, RunComplete

-----------------------------------------------------------------------------
(* Compaction.                                                              *)

(* What a publication writes are objects that fit its dataset year, given   *)
(* that those it reads do; a compaction must be one of that year.           *)
LEMMA GroupsFit ==
  ASSUME RunsTyped, ObjectsFit, NEW j \in Asked, NEW c \in Contract, NEW y \in Year,
         j.kind = "compact" => ~CrossesMonth(j) /\ y = CompactYear(j),
         NEW g \in Groups(j, c, y)
  PROVE  ObjectFits(y, g)
<1>1. j \in Request /\ Key(j) \in RunKey /\ Key(j).days = j.days /\ j.days \subseteq Day
  BY AskedAreRequests, RequestFields
<1>2. \A i : \A b \in StagedBars(Key(j), c, y, i) : b[1] \in DaysIn({y})
  <2>1. \A i : /\ StagedBars(Key(j), c, y, i) \subseteq Bar
               /\ \A b \in StagedBars(Key(j), c, y, i) : YearOf[b[1]] = y
    BY <1>1, BarsTyped DEF RunsTyped
  <2>2. \A b \in Bar : b[1] \in Day
    BY DEF Bar
  <2> QED BY <2>1, <2>2 DEF DaysIn
<1>3. CASE j.kind \in {"backfill", "migrate"}
  <2>1. g \in AnnualGroups(Key(j), c, y)
    BY <1>3 DEF Groups
  <2>2. PICK i \in Instrument : g = Group("YEAR", DaysIn({y}), i, StagedBars(Key(j), c, y, i))
    BY <2>1 DEF AnnualGroups, NonEmpty
  <2>3. g.gran = "YEAR" /\ g.days = DaysIn({y}) /\ g.bars = StagedBars(Key(j), c, y, i)
    BY <2>2 DEF Group
  <2> QED BY <1>2, <2>3 DEF ObjectFits
<1>4. CASE j.kind = "incremental"
  <2> DEFINE D == {x \in Key(j).days : YearOf[x] = y}
             grp(e, o) == Group("DAY", {e}, o, {x \in StagedBars(Key(j), c, y, o) : x[1] = e})
  <2>1. DailyGroups(Key(j), c, y) = NonEmpty({grp(e, o) : e \in D, o \in Instrument})
    BY DEF DailyGroups
  <2>2. g \in DailyGroups(Key(j), c, y)
    BY <1>4 DEF Groups
  <2>3. PICK d \in D, i \in Instrument : g = grp(d, i)
    <3> HIDE DEF grp, D
    <3> QED BY <2>1, <2>2 DEF NonEmpty
  <2>4. g.gran = "DAY" /\ g.days = {d} /\ \A b \in g.bars : b[1] = d
    BY <2>3 DEF Group
  <2>5. d \in Day /\ d \in DaysIn({y})
    BY <1>1 DEF DaysIn
  <2> QED BY <2>4, <2>5 DEF ObjectFits
<1>5. CASE j.kind = "derive"
  <2> DEFINE L == Listed(manifest[<<"native", y>>])
  <2>1. g \in DerivedGroups(y)
    BY <1>5 DEF Groups
  <2>2. PICK i \in Instrument : g = Group("YEAR", DaysIn({y}), i, BarsListed(L, i))
    BY <2>1 DEF DerivedGroups, NonEmpty
  <2>3. g.gran = "YEAR" /\ g.days = DaysIn({y}) /\ g.bars = BarsListed(L, i)
    BY <2>2 DEF Group
  <2>4. ASSUME NEW o \in L PROVE ObjectFits(y, o)
    <3>1. manifest[<<"native", y>>] \in YearManifest
      BY BarsTyped DEF RunsTyped, Contract
    <3>2. Newest(manifest[<<"native", y>>]) \in Revision
          /\ o \in manifest[<<"native", y>>][Newest(manifest[<<"native", y>>])].objects
      BY <3>1, ListedSound
    <3> QED BY <3>2 DEF ObjectsFit, Contract
  <2>5. \A b \in BarsListed(L, i) : b[1] \in DaysIn({y})
    BY <2>4 DEF BarsListed, ObjectFits
  <2> QED BY <2>3, <2>5 DEF ObjectFits
<1>6. CASE j.kind = "compact"
  <2>1. j \in Job /\ g \in CompactGroups(j)
    BY <1>6, AskedAreRequests DEF Groups
  <2> DEFINE bars(i) == {b \in BarsListed(Inputs(j), i) : b[1] \in j.days}
  <2>2. PICK i \in Instrument : g = Group(j.gran, j.days, i, bars(i))
    BY <2>1 DEF CompactGroups, NonEmpty
  <2>3. g.gran = j.gran /\ g.days = j.days /\ \A b \in g.bars : b[1] \in j.days
    BY <2>2 DEF Group
  <2>4. j.days \subseteq DaysIn({y})
    BY <1>6, <2>1, CompactionsYear DEF CrossesMonth
  <2>5. j.gran # "DAY" /\ j.days \in Period[j.gran]
    BY <1>6, <2>1, CalendarAssumption
  <2>6. j.gran = "WEEK" => \E mth \in Period["MONTH"] : j.days \subseteq mth
    BY <1>6 DEF CrossesMonth
  <2> QED BY <2>3, <2>4, <2>5, <2>6 DEF ObjectFits
<1>7. j.kind \in {"backfill", "migrate", "incremental", "derive", "compact"}
  BY <1>1, RequestFields DEF Fetching
<1> QED BY <1>3, <1>4, <1>5, <1>6, <1>7

(* A compaction that publishes is one that was found possible, of the       *)
(* dataset year at the head of its plan.                                    *)
LEMMA CompactionPublishes ==
  ASSUME RunsTyped, CompactInv, Publishing, proc.plan # <<>>, proc.job.kind = "compact"
  PROVE  /\ proc.job \in Job /\ ~NotCompactable(proc.job) /\ ~CrossesMonth(proc.job)
         /\ proc.plan = <<<<proc.job.contract, CompactYear(proc.job)>>>>
         /\ Head(proc.plan) = <<proc.job.contract, CompactYear(proc.job)>>
         /\ Tail(proc.plan) = <<>>
         /\ proc.job.revision = 0
<1>1. proc.phase = "running" /\ proc.job \in Job
  BY JobTyped, AskedAreRequests DEF Publishing, RunsTyped
<1>2. ~NotCompactable(proc.job)
      /\ proc.plan = <<<<proc.job.contract, CompactYear(proc.job)>>>>
  BY <1>1 DEF CompactInv, CompactionChecked
<1>3. ~CrossesMonth(proc.job)
  BY <1>2 DEF NotCompactable
<1>4. proc.job.revision = 0
  BY <1>1, CalendarAssumption
<1>5. \A x : Head(<<x>>) = x /\ Tail(<<x>>) = <<>>
  OBVIOUS
<1>6. Head(proc.plan) = <<proc.job.contract, CompactYear(proc.job)>> /\ Tail(proc.plan) = <<>>
  BY <1>2, <1>5
<1> QED BY <1>1, <1>2, <1>3, <1>4, <1>6

(* An object fits by its days, bars and granularity alone.                  *)
LEMMA PublicationFits ==
  ASSUME RunsTyped, CompactInv, Publication
  PROVE  ObjectsFit'
<1>1. Publishing /\ proc.plan # <<>>
  BY PublicationEffect
<1>2. PICK c \in Contract, y \in Year, after \in YearManifest, ok \in BOOLEAN :
        Head(proc.plan) = <<c, y>> /\ PublishesTo(c, y, after, ok)
  BY PublicationEffect
<1> DEFINE j == proc.job
           m == manifest[<<c, y>>]
           new == New(m, Groups(j, c, y), j.revision)
<1>3. \A r \in Revision : after[r].objects \subseteq (m[r].objects \cup Listed(m)) \cup new
  BY <1>2 DEF PublishesTo
<1>4. j \in Asked
  BY <1>1, JobTyped DEF Publishing, RunsTyped
<1>5. j.kind = "compact" => ~CrossesMonth(j) /\ y = CompactYear(j)
  <2>1. j.kind = "compact" => ~CrossesMonth(j) /\ Head(proc.plan) = <<j.contract, CompactYear(j)>>
    BY <1>1, CompactionPublishes
  <2> QED BY <1>2, <2>1
<1>6. ASSUME NEW o \in new PROVE ObjectFits(y, o)
  <2>1. PICK g \in Groups(j, c, y) : o.gran = g.gran /\ o.days = g.days /\ o.bars = g.bars
    BY DEF New
  <2>2. ObjectFits(y, g)
    BY <1>4, <1>5, GroupsFit DEF CompactInv
  <2> QED BY <2>1, <2>2 DEF ObjectFits
<1>7. ASSUME NEW o \in Listed(m) PROVE ObjectFits(y, o)
  <2>1. m \in YearManifest
    BY BarsTyped DEF RunsTyped
  <2>2. Newest(m) \in Revision /\ o \in m[Newest(m)].objects
    BY <2>1, ListedSound
  <2> QED BY <2>2 DEF CompactInv, ObjectsFit
<1>8. \A r \in Revision : \A o \in after[r].objects : ObjectFits(y, o)
  <2>1. \A r \in Revision : \A o \in m[r].objects : ObjectFits(y, o)
    BY DEF CompactInv, ObjectsFit
  <2> HIDE DEF m, new
  <2> QED BY <1>3, <1>6, <1>7, <2>1
<1>9. manifest'[<<c, y>>] = after
      /\ \A d \in Contract, z \in Year : <<d, z>> # <<c, y>> => manifest'[<<d, z>>] = manifest[<<d, z>>]
  BY <1>2, PublishedElsewhere
<1>10. ASSUME NEW d \in Contract, NEW z \in Year, NEW r \in Revision,
              NEW o \in manifest'[<<d, z>>][r].objects
       PROVE  ObjectFits(z, o)
  <2>1. CASE <<d, z>> = <<c, y>>
    BY <1>8, <1>9, <1>10, <2>1
  <2>2. CASE <<d, z>> # <<c, y>>
    BY <1>9, <1>10, <2>2 DEF CompactInv, ObjectsFit
  <2> QED BY <2>1, <2>2
<1> QED BY <1>10 DEF ObjectsFit, ObjectFits, DaysIn

(* A compaction is judged by the manifests alone.                           *)
LEMMA VerdictKept ==
  ASSUME manifest' = manifest, proc'.job = proc.job
  PROVE  NotCompactable(proc.job)' <=> NotCompactable(proc.job)
BY DEF NotCompactable, CrossesMonth, AlreadyCompact, Covered, Inputs, Overlapping, Listed,
       Newest, Available, Target

LEMMA CompactInvNext ==
  ASSUME RunsTyped, CompactInv, [Next]_vars
  PROVE  CompactInv'
<1>1. proc \in Process
  BY DEF RunsTyped, TypeOK
<1>2. ObjectsFit'
  <2>1. ASSUME manifest' = manifest PROVE ObjectsFit'
    BY <2>1 DEF CompactInv, ObjectsFit, ObjectFits, DaysIn
  <2>2. Publication \/ manifest' = manifest
    BY DEF Next, Start, Detect, CheckCompaction, ReuseRun, BeginRun, Collect, WriteFragment,
           DeriveWithoutSource, RefuseRevision, Finish, CleanStaging, Crash, ProviderRevises, vars
  <2> QED BY <2>1, <2>2, PublicationFits
<1>3. ASSUME proc'.phase \in {"idle", "asked"}, proc'.outer = NoJob PROVE CompactionChecked'
  BY <1>3 DEF CompactionChecked
<1>4. ASSUME manifest' = manifest, proc'.phase = proc.phase, proc'.job = proc.job,
             proc'.plan = proc.plan, proc'.outer = proc.outer
      PROVE  CompactionChecked'
  <2>1. NotCompactable(proc.job)' <=> NotCompactable(proc.job)
    BY <1>4, VerdictKept
  <2> QED BY <1>4, <2>1 DEF CompactInv, CompactionChecked, CompactYear
<1>5. ASSUME proc'.job.kind # "compact", proc'.outer # NoJob => proc'.outer.kind = "incremental"
      PROVE  CompactionChecked'
  BY <1>5 DEF CompactionChecked
<1>6. ASSUME NEW j \in Job, Start(j) PROVE CompactionChecked'
  <2>1. proc'.phase = (IF j.kind \in {"incremental", "compact"} THEN "asked" ELSE "ready")
        /\ proc'.job = j /\ proc'.outer = NoJob
    BY <1>6 DEF Start, Idle
  <2> QED BY <1>3, <1>5, <2>1
<1>7. ASSUME Detect PROVE CompactionChecked'
  <2>1. proc.job.kind = "incremental" /\ proc.phase = "asked"
    BY <1>7 DEF Detect
  <2>2. CASE proc' = [proc EXCEPT !.phase = "ready"]
    <3>1. proc'.job = proc.job /\ proc'.outer = proc.outer
      BY <1>1, <2>2 DEF Process
    <3> QED BY <1>5, <2>1, <3>1 DEF CompactInv, CompactionChecked
  <2>3. CASE proc' = [proc EXCEPT !.phase = "ready", !.outer = proc.job,
                                  !.job = Correction(Retained, NextForced)]
    <3>1. proc'.job.kind = "backfill" /\ proc'.outer = proc.job
      BY <1>1, <2>3 DEF Process, Correction
    <3> QED BY <1>5, <2>1, <3>1
  <2> QED BY <1>7, <2>2, <2>3 DEF Detect
<1>8. ASSUME CheckCompaction PROVE CompactionChecked'
  <2>1. proc.job.kind = "compact" /\ proc.phase = "asked" /\ manifest' = manifest
    BY <1>8 DEF CheckCompaction
  <2>2. CASE proc' = Idle
    BY <1>3, <2>2 DEF Idle
  <2>3. CASE ~NotCompactable(proc.job) /\ proc' = [proc EXCEPT !.phase = "ready"]
    <3>1. proc'.phase = "ready" /\ proc'.job = proc.job /\ proc'.outer = proc.outer
      BY <1>1, <2>3 DEF Process
    <3>2. ~NotCompactable(proc.job)'
      BY <2>1, <2>3, <3>1, VerdictKept
    <3> QED BY <3>1, <3>2 DEF CompactInv, CompactionChecked
  <2> QED BY <1>8, <2>2, <2>3 DEF CheckCompaction
<1>9. ASSUME ReuseRun \/ Finish PROVE CompactionChecked'
  <2>1. /\ proc'.phase \in {"idle", "ready"} /\ proc'.outer = NoJob
        /\ proc'.phase = "ready" => proc'.job = proc.outer /\ proc.outer # NoJob
    BY <1>9, FreshProcess DEF ReuseRun, Finish
  <2>2. proc.outer # NoJob => proc.outer.kind = "incremental"
    BY DEF CompactInv, CompactionChecked
  <2> QED BY <1>3, <1>5, <2>1, <2>2
<1>10. ASSUME BeginRun PROVE CompactionChecked'
  <2> DEFINE j == proc.job
             todo == SetToSeq(Requests(j))
             plan == Plan(j)
  <2>1. proc.phase = "ready" /\ manifest' = manifest /\ j \in Asked
    BY <1>10, JobTyped DEF BeginRun, RunsTyped
  <2>2. proc' = [proc EXCEPT !.phase = "running", !.todo = todo, !.plan = plan]
    BY <1>10 DEF BeginRun
  <2>3. j.kind = "compact" => ~NotCompactable(j)
    BY <2>1 DEF CompactInv, CompactionChecked
  <2>4. j.kind = "compact" => plan = <<<<j.contract, CompactYear(j)>>>>
    BY <2>1, <2>3, PlanSound DEF NotCompactable
  <2> HIDE DEF todo, plan
  <2>5. proc'.job = proc.job /\ proc'.plan = plan /\ proc'.outer = proc.outer
    BY <1>1, <2>2 DEF Process
  <2>6. NotCompactable(proc.job)' <=> NotCompactable(proc.job)
    BY <2>1, <2>5, VerdictKept
  <2> QED BY <2>3, <2>4, <2>5, <2>6 DEF CompactInv, CompactionChecked, CompactYear
<1>11. ASSUME Collect PROVE CompactionChecked'
  <2> DEFINE q == Head(proc.todo)
             asked == [q EXCEPT !.vintage = vintage]
             years(gap) == {YearOf[d] : d \in q.chunk \ gap}
  <2>1. \/ proc' = [proc EXCEPT !.todo = Tail(@)]
        \/ \E gap \in Gaps :
             proc' = [proc EXCEPT !.todo = Tail(@), !.frame = asked,
                                  !.held = q.chunk \ gap, !.unwritten = years(gap)]
        \/ proc' = [proc EXCEPT !.todo = Tail(@), !.failed = @ \cup MissedYears(q)]
    BY <1>11 DEF Collect
  <2>2. manifest' = manifest
    BY <1>11 DEF Collect
  <2> HIDE DEF q, asked, years
  <2>3. /\ proc'.phase = proc.phase /\ proc'.job = proc.job
        /\ proc'.plan = proc.plan /\ proc'.outer = proc.outer
    BY <1>1, <2>1 DEF Process
  <2> QED BY <1>4, <2>2, <2>3
<1>12. ASSUME WriteFragment PROVE CompactionChecked'
  <2>1. PICK u : proc' = [proc EXCEPT !.unwritten = u]
    BY <1>12 DEF WriteFragment
  <2>2. manifest' = manifest
    BY <1>12 DEF WriteFragment
  <2>3. /\ proc'.phase = proc.phase /\ proc'.job = proc.job
        /\ proc'.plan = proc.plan /\ proc'.outer = proc.outer
    BY <1>1, <2>1 DEF Process
  <2> QED BY <1>4, <2>2, <2>3
<1>13. ASSUME Publication PROVE CompactionChecked'
  <2>1. Publishing /\ proc.plan # <<>>
    BY <1>13, PublicationEffect
  <2>2. PICK ok : proc' = [proc EXCEPT !.plan = Tail(@), !.ok = ok]
    BY <1>13 DEF Publication, PublishNext
  <2>3. proc'.job = proc.job /\ proc'.plan = Tail(proc.plan) /\ proc'.outer = proc.outer
        /\ proc'.phase = proc.phase
    BY <1>1, <2>2 DEF Process
  <2>4. proc.job.kind = "compact" => Tail(proc.plan) = <<>>
    BY <2>1, CompactionPublishes
  <2>5. proc.phase = "running"
    BY <2>1 DEF Publishing
  <2> QED BY <2>3, <2>4, <2>5 DEF CompactInv, CompactionChecked
<1>14. ASSUME DeriveWithoutSource PROVE CompactionChecked'
  <2>1. proc.job.kind = "derive" /\ proc'.job = proc.job /\ proc'.outer = proc.outer
    BY <1>1, <1>14 DEF DeriveWithoutSource, Process
  <2> QED BY <1>5, <2>1 DEF CompactInv, CompactionChecked
<1>15. ASSUME RefuseRevision \/ Crash PROVE CompactionChecked'
  BY <1>3, <1>15 DEF RefuseRevision, Crash, Idle
<1>16. ASSUME (\E k \in RunKey : CleanStaging(k)) \/ ProviderRevises \/ UNCHANGED vars
       PROVE  CompactionChecked'
  BY <1>4, <1>16 DEF CleanStaging, ProviderRevises, vars
<1>17. CompactionChecked'
  BY <1>6, <1>7, <1>8, <1>9, <1>10, <1>11, <1>12, <1>13, <1>14, <1>15, <1>16 DEF Next
<1> QED BY <1>2, <1>17 DEF CompactInv

LEMMA CompactInvInit ==
  ASSUME Init
  PROVE  CompactInv
BY DEF Init, Idle, NoManifest, Dataset, CompactInv, ObjectsFit, CompactionChecked

(* What a possible compaction of a clean listing reads is everything listed *)
(* that overlaps its period, and lies in it.                                *)
LEMMA InputsAreAll ==
  ASSUME RunsTyped, CompactInv, NEW j \in Job, j.kind = "compact", ~NotCompactable(j),
         ~Overlap(Listed(Target(j)))
  PROVE  /\ Inputs(j) = Overlapping(Listed(Target(j)), j.days)
         /\ \A x \in Inputs(j) : x.days \subseteq j.days
<1> DEFINE L == Listed(Target(j))
           y == CompactYear(j)
<1>1. /\ Target(j) \in YearManifest /\ Target(j) = manifest[<<j.contract, y>>]
      /\ <<j.contract, y>> \in Dataset
  BY TargetTyped DEF RunsTyped
<1>2. j.contract \in Contract /\ y \in Year
  BY <1>1 DEF Dataset
<1>3. \A x \in L : x \in Object /\ ObjectFits(y, x)
  <2>1. \A x \in L : x \in Object /\ Newest(Target(j)) \in Revision
                     /\ x \in Target(j)[Newest(Target(j))].objects
    BY <1>1, ListedSound
  <2> QED BY <1>1, <1>2, <2>1 DEF CompactInv, ObjectsFit
<1>4. /\ j.days # {} /\ j.days \subseteq DaysIn({y})
      /\ \A mth \in Period["MONTH"] : j.gran = "MONTH" => mth = j.days \/ mth \cap j.days = {}
  BY CompactionsYear DEF NotCompactable, CrossesMonth
<1>5. j.days \subseteq UNION {o.days : o \in Inputs(j)}
  BY DEF NotCompactable, Covered
<1>6. \A x \in L, z \in L : x.days \cap z.days # {} => x.gran = z.gran
  BY DEF Overlap
<1> HIDE DEF L, y
<1>7. Inputs(j) = {o \in Overlapping(L, j.days) : Rank[o.gran] < Rank[j.gran]}
  BY DEF Inputs, L
<1>8. ASSUME NEW x \in Overlapping(L, j.days)
      PROVE  x \in Inputs(j) /\ x.days \subseteq j.days
  <2>1. PICK d \in j.days : d \in x.days
    BY <1>8 DEF Overlapping
  <2>2. PICK o \in Inputs(j) : d \in o.days
    BY <1>5, <2>1
  <2>3. o \in L /\ x \in L /\ Rank[o.gran] < Rank[j.gran]
    BY <1>7, <1>8, <2>2 DEF Overlapping
  <2>4. x.gran = o.gran
    BY <1>6, <2>1, <2>2, <2>3
  <2>5. x \in Inputs(j) /\ Rank[x.gran] < Rank[j.gran]
    BY <1>7, <1>8, <2>3, <2>4
  <2>6. ObjectFits(y, x) /\ x.gran \in Granularity
    BY <1>3, <2>3 DEF Object
  <2>7. j.gran \in Granularity /\ j.days \in Period[j.gran]
    BY PipelineRunsAssumption, CalendarAssumption, RequestFields
  <2>8. /\ x.gran = "DAY" \/ (x.gran = "WEEK" /\ j.gran \in {"MONTH", "YEAR"})
           \/ (x.gran = "MONTH" /\ j.gran = "YEAR")
    BY <2>5, <2>6, <2>7 DEF Granularity, Rank
  <2>9. CASE x.gran = "DAY"
    BY <2>1, <2>5, <2>6, <2>9 DEF ObjectFits
  <2>10. CASE j.gran = "YEAR"
    <3>1. PICK z \in Year : j.days = DaysIn({z})
      <4>1. j.days \in {DaysIn({z}) : z \in Year}
        BY <2>7, <2>10, CalendarAssumption
      <4> QED BY <4>1
    <3>2. z = y
      BY <1>4, <3>1 DEF DaysIn
    <3> QED BY <2>5, <2>6, <3>1, <3>2 DEF ObjectFits
  <2>11. CASE x.gran = "WEEK" /\ j.gran = "MONTH"
    <3>1. PICK mth \in Period["MONTH"] : x.days \subseteq mth
      BY <2>6, <2>11 DEF ObjectFits
    <3>2. d \in mth \cap j.days
      BY <2>1, <3>1
    <3> QED BY <1>4, <2>5, <2>11, <3>1, <3>2
  <2> QED BY <2>5, <2>8, <2>9, <2>10, <2>11
<1> QED BY <1>7, <1>8 DEF Overlapping, L

(* So the objects it writes hold the bars of the ones it takes out.         *)
LEMMA CompactionKeepsBars ==
  ASSUME RunsTyped, CompactInv, NEW j \in Job, j.kind = "compact", ~NotCompactable(j),
         ~Overlap(Listed(Target(j)))
  PROVE  LET L == Listed(Target(j))
         IN  BarsOf((L \ Overlapping(L, j.days)) \cup New(Target(j), CompactGroups(j), 0)) = BarsOf(L)
<1> DEFINE L == Listed(Target(j))
           new == New(Target(j), CompactGroups(j), 0)
           kept == L \ Overlapping(L, j.days)
           bars(i) == {b \in BarsListed(Inputs(j), i) : b[1] \in j.days}
<1>1. /\ Target(j) \in YearManifest /\ Target(j) = manifest[<<j.contract, CompactYear(j)>>]
      /\ <<j.contract, CompactYear(j)>> \in Dataset
  BY TargetTyped DEF RunsTyped
<1>2. j.contract \in Contract /\ CompactYear(j) \in Year
  BY <1>1 DEF Dataset
<1>3. \A x \in L : x \in Object /\ \A b \in x.bars : b[1] \in x.days
  <2>1. \A x \in L : x \in Object /\ Newest(Target(j)) \in Revision
                     /\ x \in Target(j)[Newest(Target(j))].objects
    BY <1>1, ListedSound
  <2> QED BY <1>1, <1>2, <2>1 DEF CompactInv, ObjectsFit, ObjectFits
<1>4. /\ Inputs(j) = Overlapping(L, j.days)
      /\ \A x \in Inputs(j) : x.days \subseteq j.days
  BY InputsAreAll
<1>5. CompactGroups(j) = NonEmpty({Group(j.gran, j.days, i, bars(i)) : i \in Instrument})
  BY DEF CompactGroups
<1>6. \A g \in CompactGroups(j) : g.instrument \in Instrument /\ g.bars = bars(g.instrument)
  <2> HIDE DEF bars
  <2> QED BY <1>5 DEF NonEmpty, Group
<1>7. \A i \in Instrument : bars(i) # {} =>
        \E g \in CompactGroups(j) : g.instrument = i /\ g.bars = bars(i)
  <2> HIDE DEF bars
  <2>1. \A i \in Instrument :
          /\ Group(j.gran, j.days, i, bars(i)).instrument = i
          /\ Group(j.gran, j.days, i, bars(i)).bars = bars(i)
    BY DEF Group
  <2> QED BY <1>5, <2>1 DEF NonEmpty
<1>8. /\ \A o \in new : o.instrument \in Instrument /\ o.bars = bars(o.instrument)
      /\ \A i \in Instrument : bars(i) # {} => \E o \in new : o.instrument = i /\ o.bars = bars(i)
  <2> HIDE DEF bars
  <2> DEFINE obj(g) == [gran |-> g.gran, days |-> g.days, bars |-> g.bars,
                        instrument |-> g.instrument, rev |-> NextRevision(Target(j), 0)]
  <2>1. new = {obj(g) : g \in CompactGroups(j)}
    BY DEF New
  <2>2. \A g : obj(g).instrument = g.instrument /\ obj(g).bars = g.bars
    OBVIOUS
  <2> HIDE DEF obj, new
  <2> QED BY <1>6, <1>7, <2>1, <2>2
<1> HIDE DEF L, new
<1>9. ASSUME NEW t \in BarsOf(kept \cup new) PROVE t \in BarsOf(L)
  <2>1. PICK o \in kept \cup new : \E b \in o.bars : t = <<o.instrument, b[1], b[2]>>
    BY DEF BarsOf
  <2>2. PICK b \in o.bars : t = <<o.instrument, b[1], b[2]>>
    BY <2>1
  <2>3. CASE o \in kept
    <3>1. o \in L
      BY <2>3
    <3> QED BY <2>2, <3>1 DEF BarsOf
  <2>4. CASE o \in new
    <3>1. b \in BarsListed(Inputs(j), o.instrument)
      BY <1>8, <2>2, <2>4
    <3>2. PICK x \in Inputs(j) : x.instrument = o.instrument /\ b \in x.bars
      BY <3>1 DEF BarsListed
    <3>3. x \in L /\ t = <<x.instrument, b[1], b[2]>>
      BY <1>4, <2>2, <3>2 DEF Overlapping
    <3> QED BY <3>2, <3>3 DEF BarsOf
  <2> QED BY <2>3, <2>4
<1>10. ASSUME NEW t \in BarsOf(L) PROVE t \in BarsOf(kept \cup new)
  <2>1. PICK x \in L : \E b \in x.bars : t = <<x.instrument, b[1], b[2]>>
    BY DEF BarsOf
  <2>2. PICK b \in x.bars : t = <<x.instrument, b[1], b[2]>>
    BY <2>1
  <2>3. CASE x \in kept
    <3>1. x \in kept \cup new
      BY <2>3
    <3> HIDE DEF kept
    <3> QED BY <2>2, <3>1 DEF BarsOf
  <2>4. CASE x \notin kept
    <3>1. x \in Inputs(j)
      BY <1>4, <2>4
    <3>2. b[1] \in j.days
      BY <1>3, <1>4, <2>2, <3>1
    <3>3. x.instrument \in Instrument
      BY <1>3 DEF Object
    <3>4. b \in bars(x.instrument)
      BY <2>2, <3>1, <3>2 DEF BarsListed
    <3>5. PICK o \in new : o.instrument = x.instrument /\ o.bars = bars(x.instrument)
      BY <1>8, <3>3, <3>4
    <3>6. o \in kept \cup new /\ b \in o.bars /\ t = <<o.instrument, b[1], b[2]>>
      BY <2>2, <3>4, <3>5
    <3> HIDE DEF kept
    <3> QED BY <3>6 DEF BarsOf
  <2> QED BY <2>3, <2>4
<1> HIDE DEF kept
<1>11. BarsOf(kept \cup new) = BarsOf(L)
  BY <1>9, <1>10
<1> QED BY <1>11 DEF kept, new, L

(* A compaction changes no bar of any dataset, whatever DAY, WEEK and MONTH *)
(* objects it joins, if no QUARANTINED attempt left rows under the revision *)
(* it reads or the one it publishes (CompactionPreserves).                  *)
THEOREM CompactionIsLossless == Spec => CompactionPreserves
<1>1. Init => RunsTyped /\ CompactInv
  BY RunsTypedInit, CompactInvInit
<1>2. RunsTyped /\ CompactInv /\ [Next]_vars => RunsTyped' /\ CompactInv'
  BY RunsTypedNext, CompactInvNext
<1>3. RunsTyped /\ CompactInv =>
        (Publication /\ proc.job.kind = "compact" /\ Clean(Target(proc.job)) =>
           \A c \in Contract, y \in Year : Published(c, y)' = Published(c, y))
  <2>1. SUFFICES ASSUME RunsTyped, CompactInv, Publication, proc.job.kind = "compact",
                        Clean(Target(proc.job))
                 PROVE  \A d \in Contract, z \in Year : Published(d, z)' = Published(d, z)
    OBVIOUS
  <2>2. Publishing /\ proc.plan # <<>>
    BY <2>1, PublicationEffect
  <2>3. PICK c \in Contract, y \in Year, after \in YearManifest, ok \in BOOLEAN :
          Head(proc.plan) = <<c, y>> /\ PublishesTo(c, y, after, ok)
    BY <2>1, PublicationEffect
  <2> DEFINE j == proc.job
             m == manifest[<<c, y>>]
             L == Listed(m)
  <2>4. /\ j \in Job /\ ~NotCompactable(j) /\ j.revision = 0 /\ ~CrossesMonth(j)
        /\ Head(proc.plan) = <<j.contract, CompactYear(j)>>
    BY <2>1, <2>2, CompactionPublishes
  <2>5. c = j.contract /\ y = CompactYear(j)
    BY <2>3, <2>4
  <2>6. Target(j) = m
    BY <2>1, <2>4, <2>5, TargetTyped DEF RunsTyped
  <2>7. Replaced(j, y) = j.days /\ Groups(j, c, y) = CompactGroups(j)
    <3>1. j.days \subseteq DaysIn({y})
      BY <2>1, <2>4, <2>5, CompactionsYear DEF CrossesMonth
    <3>2. \A d \in j.days : YearOf[d] = y
      BY <3>1 DEF DaysIn
    <3> QED BY <2>1, <3>2 DEF Replaced, Groups
  <2>8. ~Overlap(L) /\ m[NextRevision(m, 0)].objects = {}
    BY <2>1, <2>6 DEF Clean
  <2>9. BarsOf((L \ Overlapping(L, j.days)) \cup New(m, CompactGroups(j), 0)) = BarsOf(L)
    BY <2>1, <2>4, <2>6, <2>8, CompactionKeepsBars
  <2>10. /\ ok => Listed(after) = (L \ Overlapping(L, j.days)) \cup New(m, CompactGroups(j), 0)
         /\ ~ok => Listed(after) = L
    <3> HIDE DEF L
    <3>1. /\ ok => Listed(after) = m[NextRevision(m, 0)].objects
                          \cup ((Listed(m) \ Overlapping(Listed(m), Replaced(j, y)))
                                \cup New(m, Groups(j, c, y), 0))
          /\ ~ok => Listed(after) = Listed(m)
      BY <2>3, <2>4 DEF PublishesTo
    <3> QED BY <2>7, <2>8, <3>1 DEF L
  <2> HIDE DEF L
  <2>11. BarsOf(Listed(after)) = BarsOf(L)
    BY <2>9, <2>10
  <2>12. Published(c, y)' = Published(c, y)
    <3>1. Published(c, y)' = BarsOf(Listed(after))
      BY <2>1, <2>3, PublishedElsewhere
    <3>2. Published(c, y) = BarsOf(L)
      BY DEF Published, L
    <3> QED BY <2>11, <3>1, <3>2
  <2>13. \A d \in Contract, z \in Year : <<d, z>> # <<c, y>> => Published(d, z)' = Published(d, z)
    BY <2>1, <2>3, PublishedElsewhere
  <2> QED BY <2>12, <2>13
<1> QED BY <1>1, <1>2, <1>3, PTL DEF Spec, CompactionPreserves
=============================================================================
