----------------------------- MODULE VerdictProofs -----------------------------
(***************************************************************************)
(* Verdicts.tla's properties for every status, header and error, however   *)
(* long or deep: what a Retry-After field says, what the doors make of a   *)
(* response, and what marks and reductions do to an error on its way up.   *)
(***************************************************************************)
EXTENDS Verdicts, OperatorProofs

Headers == [form : {"absent", "seconds", "date"}, sign : {"", "+", "-"},
            digits : Seq(0 .. 9), date : Duration]

VerdictTypeOK == err \in Error /\ code \in 100 .. 999 /\ header \in Headers

(***************************************************************************)
(* Retry-After.                                                            *)
(***************************************************************************)

\* Reading digits from the left is a linear recursion.
LEMMA ValueReads ==
  ASSUME NEW ds \in Seq(0 .. 9)
  PROVE  \E v : FollowsLinear(v, Len(ds), 0, 10, ds) /\ Value(ds) = v[Len(ds)]
<1> DEFINE N    == Len(ds)
           ten  == 10
           zero == 0
           v    == CHOOSE f : f = [i \in 0 .. N |-> IF i = 0 THEN zero ELSE ten * f[i - 1] + ds[i]]
<1>1. N \in Nat /\ ten \in Nat /\ zero \in Nat /\ ds \in [1 .. N -> Nat]
  OBVIOUS
<1>2. Value(ds) = v[N] /\ DefinedLinear(v, N, zero, ten, ds)
  BY DEF Value, DefinedLinear
<1> HIDE DEF N, ten, zero, v
<1>3. FollowsLinear(v, N, zero, ten, ds)
  BY <1>1, <1>2, LinearRecursion
<1> QED BY <1>2, <1>3 DEF N, ten, zero

\* A numeral means a natural number.
LEMMA ValueType == \A ds \in Seq(0 .. 9) : Value(ds) \in Nat
<1> SUFFICES ASSUME NEW ds \in Seq(0 .. 9)  PROVE Value(ds) \in Nat
  OBVIOUS
<1>1. Len(ds) \in 0 .. Len(ds)
  OBVIOUS
<1> QED BY <1>1, ValueReads DEF FollowsLinear

\* The smaller of two.
LEMMA MinOfTwo ==
  ASSUME NEW a \in Int, NEW b \in Int
  PROVE  Min({a, b}) = IF a <= b THEN a ELSE b
BY DEF Min

\* There is a longest run of leading zeros.
LEMMA LeadingZeros ==
  ASSUME NEW ds \in Seq(0 .. 9)
  PROVE  LET leading == {i \in 0 .. Len(ds) : \A j \in 1 .. i : ds[j] = 0}
         IN  Max(leading) \in leading /\ \A i \in leading : i <= Max(leading)
<1> DEFINE leading == {i \in 0 .. Len(ds) : \A j \in 1 .. i : ds[j] = 0}
           rests   == {Len(ds) - i : i \in leading}
<1>1. 0 \in leading /\ leading \subseteq 0 .. Len(ds) /\ Len(ds) \in Nat
  OBVIOUS
<1>2. rests \in SUBSET Nat /\ rests # {}
  <2> HIDE DEF leading
  <2> QED BY <1>1
<1>3. PICK r \in rests : \A q \in rests : r <= q
  <2> HIDE DEF rests
  <2> QED BY <1>2, LeastNatural
<1>4. PICK m \in leading : r = Len(ds) - m
  OBVIOUS
<1>5. \A i \in leading : i <= m
  <2>1. \A i \in leading : Len(ds) - i \in rests
    OBVIOUS
  <2> HIDE DEF leading, rests
  <2> QED BY <1>1, <1>3, <1>4, <2>1
<1>6. Max(leading) \in leading /\ \A i \in leading : Max(leading) >= i
  <2> HIDE DEF leading
  <2> QED BY <1>1, <1>5 DEF Max
<1> QED BY <1>1, <1>6

\* Dropping leading zeros leaves digits.
LEMMA TrimmedDigits == \A ds \in Seq(0 .. 9) : TrimZeros(ds) \in Seq(0 .. 9)
<1> SUFFICES ASSUME NEW ds \in Seq(0 .. 9)  PROVE TrimZeros(ds) \in Seq(0 .. 9)
  OBVIOUS
<1> DEFINE leading == {i \in 0 .. Len(ds) : \A j \in 1 .. i : ds[j] = 0}
<1>1. Max(leading) \in 0 .. Len(ds)
  BY LeadingZeros
<1>2. SubSeq(ds, Max(leading) + 1, Len(ds)) \in Seq(0 .. 9)
  <2> HIDE DEF leading
  <2>1. \A i \in Max(leading) + 1 .. Len(ds) : ds[i] \in 0 .. 9
    BY <1>1
  <2> QED BY <1>1, <2>1, SubSeqProperties
<1> QED BY <1>2 DEF TrimZeros

\* The wait a header asks for is an integer.
LEMMA WaitType == header \in Headers => ParseRetryAfterResponse(header) \in Int
<1> SUFFICES ASSUME header \in Headers  PROVE ParseRetryAfterResponse(header) \in Int
  OBVIOUS
<1>1. MaxDur \in Nat /\ Second \in Nat \ {0}
  BY ResponsesAssumption, DurationsAssumption
<1>2. maxSecs \in Int
  BY <1>1 DEF maxSecs
<1>3. header.date \in Int
  <2>1. header.date \in Duration
    BY DEF Headers
  <2>2. \A d \in Duration : d \in Int
    BY <1>1 DEF Duration
  <2> QED BY <2>1, <2>2
<1>4. header.digits \in Seq(0 .. 9)
  BY DEF Headers
<1>5. ParseInt(TrimZeros(header.digits)) \in Int
  BY <1>4, TrimmedDigits, ValueType DEF ParseInt
<1>6. deltaSeconds(header) \in Int
  <2>1. Min({ParseInt(TrimZeros(header.digits)), maxSecs}) \in Int
    BY <1>2, <1>5, MinOfTwo
  <2>2. \A x, y \in Int : x * y \in Int
    OBVIOUS
  <2> QED BY <1>1, <2>1, <2>2 DEF deltaSeconds
<1> QED BY <1>3, <1>6 DEF ParseRetryAfterResponse, parseRetryAfterValue

\* The powers of ten, up to the first an int64 cannot hold.
LEMMA PowersOfTen ==
  /\ PowerOf10 \in [0 .. maxInt64Digits -> Nat]
  /\ PowerOf10[0] = 1
  /\ \A k \in 1 .. maxInt64Digits : PowerOf10[k] = 10 * PowerOf10[k - 1]
<1> DEFINE ten == 10
           one == 1
<1>1. maxInt64Digits \in Nat /\ ten \in Nat /\ one \in Nat
  BY ResponsesAssumption
<1>2. DefinedGeometric(PowerOf10, maxInt64Digits, one, ten)
  BY DEF PowerOf10, DefinedGeometric
<1> HIDE DEF ten, one
<1>3. /\ PowerOf10 \in [0 .. maxInt64Digits -> Nat]
      /\ PowerOf10[0] = one
      /\ \A k \in 1 .. maxInt64Digits : PowerOf10[k] = ten * PowerOf10[k - 1]
  BY <1>1, <1>2, GeometricRecursion
<1> QED BY <1>3 DEF ten, one

\* Leading zeros have no value.
LEMMA ZerosAreZero ==
  ASSUME NEW ds \in Seq(0 .. 9), NEW v, FollowsLinear(v, Len(ds), 0, 10, ds),
         NEW m \in 0 .. Len(ds), \A j \in 1 .. m : ds[j] = 0
  PROVE  v[m] = 0
<1> DEFINE Worth == {i \in 0 .. m : v[i] # 0}
<1>1. Worth = {}
  <2> SUFFICES ASSUME Worth # {}  PROVE FALSE
    OBVIOUS
  <2>1. PICK i \in Worth : \A j \in Worth : i <= j
    <3>1. Worth \in SUBSET Nat
      OBVIOUS
    <3> HIDE DEF Worth
    <3> QED BY <3>1, LeastNatural
  <2>2. v[0] = 0 /\ \A k \in 1 .. Len(ds) : v[k] = 10 * v[k - 1] + ds[k]
    BY DEF FollowsLinear
  <2>3. i \in 1 .. m /\ v[i - 1] = 0
    BY <2>1, <2>2
  <2>4. v[i] = 10 * v[i - 1] + ds[i] /\ ds[i] = 0
    BY <2>2, <2>3
  <2> QED BY <2>1, <2>3, <2>4
<1> QED BY <1>1

\* A numeral means the same without its leading zeros, and then starts with none.
LEMMA TrimmedValue ==
  ASSUME NEW ds \in Seq(0 .. 9)
  PROVE  /\ Value(TrimZeros(ds)) = Value(ds)
         /\ TrimZeros(ds) # <<>> => TrimZeros(ds)[1] >= 1
<1> DEFINE leading == {i \in 0 .. Len(ds) : \A j \in 1 .. i : ds[j] = 0}
           m == Max(leading)
           s == SubSeq(ds, m + 1, Len(ds))
<1>1. m \in leading /\ \A i \in leading : i <= m
  BY LeadingZeros
<1>2. TrimZeros(ds) = s
  BY DEF TrimZeros
<1>3. Len(ds) \in Nat /\ m \in 0 .. Len(ds) /\ \A j \in 1 .. m : ds[j] = 0
  <2> HIDE DEF m
  <2> QED BY <1>1
<1>4. m < Len(ds) => ds[m + 1] >= 1
  <2> HIDE DEF m
  <2> SUFFICES ASSUME m < Len(ds), ds[m + 1] < 1  PROVE FALSE
    <3>1. m + 1 \in 1 .. Len(ds) => ds[m + 1] \in 0 .. 9
      OBVIOUS
    <3> QED BY <1>3, <3>1
  <2>1. m + 1 \in 1 .. Len(ds) /\ ds[m + 1] = 0
    BY <1>3
  <2>2. m + 1 \in leading
    <3>1. \A j \in 1 .. m + 1 : j = m + 1 \/ j \in 1 .. m
      BY <1>3
    <3> QED BY <1>3, <2>1, <3>1
  <2> QED BY <1>1, <1>3, <2>2
<1> HIDE DEF m, leading
<1>5. /\ s \in Seq(0 .. 9) /\ Len(s) = Len(ds) - m
      /\ \A i \in 1 .. Len(s) : s[i] = ds[m + i]
  <2>1. m + 1 \in Int /\ Len(ds) \in Int /\ \A i \in m + 1 .. Len(ds) : ds[i] \in 0 .. 9
    BY <1>3
  <2>2. /\ s \in Seq(0 .. 9)
        /\ Len(s) = IF m + 1 <= Len(ds) THEN Len(ds) - (m + 1) + 1 ELSE 0
        /\ \A i \in 1 .. Len(ds) - (m + 1) + 1 : s[i] = ds[(m + 1) + i - 1]
    BY <2>1, SubSeqProperties
  <2> HIDE DEF s
  <2> QED BY <1>3, <2>2
<1> HIDE DEF s
<1>6. PICK v : FollowsLinear(v, Len(ds), 0, 10, ds) /\ Value(ds) = v[Len(ds)]
  BY ValueReads
<1>7. PICK w : FollowsLinear(w, Len(s), 0, 10, s) /\ Value(s) = w[Len(s)]
  BY <1>5, ValueReads
<1>8. v[m] = 0
  BY <1>3, <1>6, ZerosAreZero
<1> DEFINE Apart == {j \in 0 .. Len(s) : w[j] # v[m + j]}
<1>9. Apart = {}
  <2> SUFFICES ASSUME Apart # {}  PROVE FALSE
    OBVIOUS
  <2>1. PICK j \in Apart : \A k \in Apart : j <= k
    <3>1. Apart \in SUBSET Nat
      OBVIOUS
    <3> HIDE DEF Apart
    <3> QED BY <3>1, LeastNatural
  <2>2. /\ w[0] = 0 /\ \A k \in 1 .. Len(s) : w[k] = 10 * w[k - 1] + s[k]
        /\ \A k \in 1 .. Len(ds) : v[k] = 10 * v[k - 1] + ds[k]
    BY <1>6, <1>7 DEF FollowsLinear
  <2>3. j \in 1 .. Len(s) /\ w[j - 1] = v[m + (j - 1)]
    <3>1. j \in 0 .. Len(s) /\ w[j] # v[m + j] /\ m \in Nat /\ Len(s) \in Nat
      BY <1>3, <1>5, <2>1
    <3>2. j # 0
      BY <1>8, <2>2, <3>1
    <3>3. j - 1 \in 0 .. Len(s) /\ ~(j <= j - 1)
      BY <3>1, <3>2
    <3>4. j - 1 \notin Apart
      BY <2>1, <3>3
    <3> QED BY <3>1, <3>2, <3>3, <3>4
  <2>4. m + j \in 1 .. Len(ds) /\ (m + j) - 1 = m + (j - 1) /\ s[j] = ds[m + j]
    BY <1>3, <1>5, <2>3
  <2>5. w[j] = v[m + j]
    BY <2>2, <2>3, <2>4
  <2> QED BY <2>1, <2>5
<1>10. w[Len(s)] = v[Len(ds)]
  <2>1. Len(s) \in 0 .. Len(s) /\ m + Len(s) = Len(ds)
    BY <1>3, <1>5
  <2> QED BY <1>9, <2>1
<1>11. s # <<>> => s[1] >= 1
  <2> SUFFICES ASSUME s # <<>>  PROVE s[1] >= 1
    OBVIOUS
  <2>1. Len(s) \in Nat \ {0}
    BY <1>5, EmptySeq
  <2>2. 1 \in 1 .. Len(s) /\ m < Len(ds)
    BY <1>3, <1>5, <2>1
  <2> QED BY <1>4, <1>5, <2>2
<1> QED BY <1>2, <1>6, <1>7, <1>10, <1>11

\* A numeral of more digits than the widest integer is past it.
LEMMA LongIsPast ==
  ASSUME NEW ds \in Seq(0 .. 9), Len(ds) > maxInt64Digits, ds[1] >= 1
  PROVE  Value(ds) > MaxDur
<1> DEFINE M == maxInt64Digits
           P == PowerOf10
<1>1. /\ M \in Nat /\ Len(ds) \in Nat /\ MaxDur \in Nat /\ MaxDur < P[M]
      /\ \A k \in 1 .. Len(ds) : ds[k] \in 0 .. 9
  BY ResponsesAssumption, DurationsAssumption
<1>2. /\ P \in [0 .. M -> Nat] /\ P[0] = 1
      /\ \A k \in 1 .. M : P[k] = 10 * P[k - 1]
  BY PowersOfTen
<1>3. PICK v : FollowsLinear(v, Len(ds), 0, 10, ds) /\ Value(ds) = v[Len(ds)]
  BY ValueReads
<1>4. /\ v \in [0 .. Len(ds) -> Nat] /\ v[0] = 0
      /\ \A k \in 1 .. Len(ds) : v[k] = 10 * v[k - 1] + ds[k]
  BY <1>3 DEF FollowsLinear
<1> HIDE DEF M, P
<1>5. Len(ds) > M
  BY DEF M
<1> DEFINE Bound(j) == IF j <= M THEN P[j] ELSE P[M]
           Short == {j \in 0 .. Len(ds) - 1 : v[j + 1] < Bound(j)}
<1>6. Short = {}
  <2> SUFFICES ASSUME Short # {}  PROVE FALSE
    OBVIOUS
  <2>1. PICK j \in Short : \A k \in Short : j <= k
    <3>1. Short \in SUBSET Nat
      BY <1>1
    <3> HIDE DEF Short
    <3> QED BY <3>1, LeastNatural
  <2>2. /\ j \in 0 .. Len(ds) - 1 /\ j + 1 \in 1 .. Len(ds) /\ (j + 1) - 1 = j
        /\ v[j + 1] < Bound(j)
    BY <1>1
  <2> HIDE DEF Short, Bound
  <2>3. v[j + 1] = 10 * v[j] + ds[j + 1] /\ v[j] \in Nat /\ ds[j + 1] \in 0 .. 9
    <3>1. v[j + 1] = 10 * v[(j + 1) - 1] + ds[j + 1]
      BY <1>4, <2>2
    <3>2. j \in 0 .. Len(ds)
      BY <1>1, <2>2
    <3> QED BY <1>1, <1>4, <2>2, <3>1, <3>2
  <2>4. j # 0
    <3> SUFFICES ASSUME j = 0  PROVE FALSE
      OBVIOUS
    <3>1. v[j] = 0 /\ Bound(j) = 1
      BY <1>1, <1>2, <1>4 DEF Bound
    <3>2. ds[j + 1] >= 1
      OBVIOUS
    <3> QED BY <2>2, <2>3, <3>1, <3>2
  <2>5. v[j] >= Bound(j - 1)
    <3>1. j - 1 \in 0 .. Len(ds) - 1 /\ (j - 1) + 1 = j /\ ~(j <= j - 1)
      BY <1>1, <2>2, <2>4
    <3>2. j - 1 \notin Short
      BY <2>1, <3>1
    <3>3. ~(v[j] < Bound(j - 1))
      BY <3>1, <3>2 DEF Short
    <3>4. Bound(j - 1) \in Nat
      BY <1>1, <1>2, <3>1 DEF Bound
    <3> QED BY <2>3, <3>3, <3>4
  <2>6. CASE j <= M
    <3>1. P[j] = 10 * P[j - 1] /\ P[j - 1] \in Nat
      BY <1>1, <1>2, <2>2, <2>4, <2>6
    <3>2. Bound(j - 1) = P[j - 1] /\ Bound(j) = P[j]
      BY <1>1, <2>2, <2>6 DEF Bound
    <3> DEFINE b == Bound(j - 1)
               x == v[j]
               d == ds[j + 1]
    <3>3. b \in Nat /\ x \in Nat /\ d \in Nat /\ x >= b /\ v[j + 1] = 10 * x + d /\ Bound(j) = 10 * b
      BY <2>3, <2>5, <3>1, <3>2
    <3> HIDE DEF b, x, d
    <3>4. 10 * x + d >= 10 * b
      BY <3>3
    <3> QED BY <2>2, <3>3, <3>4
  <2>7. CASE j > M
    <3>1. Bound(j) = P[M] /\ Bound(j - 1) = P[M] /\ P[M] \in Nat
      BY <1>1, <1>2, <2>2, <2>7 DEF Bound
    <3> DEFINE x == v[j]
               d == ds[j + 1]
               y == v[j + 1]
               p == P[M]
    <3>2. x \in Nat /\ d \in 0 .. 9 /\ y = 10 * x + d /\ p \in Nat /\ y < p /\ x >= p
      BY <2>2, <2>3, <2>5, <3>1
    <3> HIDE DEF x, d, y, p
    <3> QED BY <3>2
  <2> QED BY <1>1, <2>2, <2>6, <2>7
<1>7. Len(ds) - 1 \in 0 .. Len(ds) - 1 /\ (Len(ds) - 1) + 1 = Len(ds) /\ Len(ds) - 1 >= M
  BY <1>1, <1>5
<1>8. Bound(Len(ds) - 1) = P[M]
  BY <1>1, <1>7
<1>9. ~(v[Len(ds)] < P[M])
  <2>1. Len(ds) - 1 \notin Short
    BY <1>6
  <2> HIDE DEF Bound
  <2> QED BY <1>7, <1>8, <2>1
<1>10. v[Len(ds)] \in Nat /\ P[M] \in Nat
  BY <1>1, <1>2, <1>4
<1> QED BY <1>1, <1>3, <1>9, <1>10 DEF P, M

(***************************************************************************)
(* Typing.                                                                 *)
(***************************************************************************)

\* A status becomes nil or an error of the package's own.
LEMMA CheckHTTPStatusType ==
  code \in 100 .. 999 /\ header \in Headers => CheckHTTPStatus(code, header) \in Error
<1> SUFFICES ASSUME code \in 100 .. 999, header \in Headers
             PROVE  CheckHTTPStatus(code, header) \in Error
  OBVIOUS
<1>1. Timed("rateLimit", ParseRetryAfterResponse(header)) \in LayerSet
  BY WaitType, SmallErrors DEF Kinds, OwnKinds, LibraryKinds
<1>2. /\ Layer("auth") \in LayerSet
      /\ Layer("statusRetryable") \in LayerSet /\ Layer("statusFinal") \in LayerSet
  BY SmallErrors DEF Kinds, OwnKinds, LibraryKinds
<1> QED BY <1>1, <1>2, SmallErrors DEF CheckHTTPStatus

\* Two errors joined are an error.
LEMMA JoinType == \A e, f \in Error : Join(e, f) \in Error
<1> SUFFICES ASSUME NEW e \in Error, NEW f \in Error  PROVE Join(e, f) \in Error
  OBVIOUS
<1>1. Len(e) \in Int
  BY ErrorParts
<1>2. Timed("join", Len(e)) \in LayerSet
  BY <1>1, SmallErrors DEF Kinds, OwnKinds, LibraryKinds
<1>3. <<Timed("join", Len(e))>> \in Seq(LayerSet) /\ e \in Seq(LayerSet) /\ f \in Seq(LayerSet)
  BY <1>2 DEF Error, LayerSet
<1>4. \A x, y, z \in Seq(LayerSet) : x \o y \o z \in Seq(LayerSet)
  OBVIOUS
<1> QED BY <1>3, <1>4 DEF Join, Error, LayerSet

\* Marks, reductions and redactions make errors of errors.
LEMMA MarksType ==
  ASSUME NEW e \in Error \ {nil}
  PROVE  /\ {Permanent(e), MarkTransient(e), AttemptTimeout(e)} \subseteq Error
         /\ {nameHangUp(e), LogSafeError(e)} \subseteq Error
         /\ \A p, s \in BOOLEAN : RedactTransportError(e, p, s) \in Error
<1>1. {"permanent", "markTransient", "attemptTimeout", "wrap", "opaque"} \subseteq Kinds
  BY DEF Kinds, OwnKinds, LibraryKinds
<1>2. \A k \in Kinds, f \in Error : <<Layer(k)>> \o f \in Error
  BY SmallErrors, LayerOnTop
<1>3. {Permanent(e), MarkTransient(e), AttemptTimeout(e)} \subseteq Error
  BY <1>1, <1>2 DEF Permanent, MarkTransient, AttemptTimeout
<1>4. reduceURLErrors(e) \in Error
  BY ReductionIsSafe
<1>5. {nameHangUp(e), LogSafeError(e)} \subseteq Error
  BY <1>4, CauseOfNothing DEF nameHangUp, LogSafeError
<1>6. <<Layer("wrap")>> \o reduceURLErrors(e) \in Error /\ <<Layer("opaque")>> \in Error
  BY <1>1, <1>2, <1>4, SmallErrors
<1>7. \A p, s \in BOOLEAN : RedactTransportError(e, p, s) \in Error
  BY <1>4, <1>6 DEF RedactTransportError
<1> QED BY <1>3, <1>5, <1>7

\* An error of one layer of the given kinds.
LEMMA OneLayer == \A k \in Roots \cup Wrappers : <<Layer(k)>> \in Error /\ Layer(k) \in LayerSet
BY ErrorChainsAssumption, SmallErrors

\* Whatever happens to an error on its way up, it remains one.
LEMMA OnItsWayUpType == err \in Error /\ OnItsWayUp => err' \in Error
<1> SUFFICES ASSUME err \in Error, OnItsWayUp  PROVE err' \in Error
  OBVIOUS
<1>0. err \in Error \ {nil}
  BY DEF OnItsWayUp, Mark, Wrapped, Joined, Redact, Name, Reduce
<1>1. CASE Mark
  BY <1>0, <1>1, MarksType DEF Mark
<1>2. ASSUME NEW kind \in Wrappers, Wrapped(kind)  PROVE err' \in Error
  BY <1>2, OneLayer, LayerOnTop DEF Wrapped
<1>3. ASSUME NEW kind \in Roots, Joined(kind)  PROVE err' \in Error
  BY <1>3, OneLayer, JoinType DEF Joined
<1>4. CASE Redact
  BY <1>0, <1>4, MarksType DEF Redact
<1>5. CASE Name \/ Reduce
  BY <1>0, <1>5, MarksType DEF Name, Reduce
<1> QED BY <1>1, <1>2, <1>3, <1>4, <1>5 DEF OnItsWayUp

\* A header starts as one and stays one as its digits arrive.
LEMMA HeaderType ==
  /\ ResponseInit => code \in 100 .. 999 /\ header \in Headers
  /\ Absent \in Headers
  /\ \A d \in Digits : header \in Headers /\ Digit(d) => header' \in Headers
<1>1. <<>> \in Seq(0 .. 9) /\ 0 \in Duration
  BY DurationsAssumption DEF Duration
<1>2. Absent \in Headers
  BY <1>1 DEF Absent, Headers
<1>3. \A s \in {"", "+", "-"} : Seconds(s) \in Headers
  BY <1>1 DEF Seconds, Absent, Headers
<1>4. \A ahead \in Dates : Date(ahead) \in Headers
  <2> SUFFICES ASSUME NEW ahead \in Dates  PROVE Date(ahead) \in Headers
    OBVIOUS
  <2>1. ahead \in Duration
    BY ResponsesAssumption
  <2> DEFINE h == [Absent EXCEPT !.form = "date"]
  <2>2. h \in Headers
    BY <1>2 DEF Headers
  <2>3. Date(ahead) = [h EXCEPT !.date = ahead]
    BY DEF Date
  <2> HIDE DEF h, Duration
  <2> QED BY <2>1, <2>2, <2>3 DEF Headers
<1>5. ResponseInit => code \in 100 .. 999 /\ header \in Headers
  <2>1. Codes \subseteq 100 .. 999
    BY ResponsesAssumption
  <2>2. ResponseInit => code \in 100 .. 999
    <3>1. ResponseInit => code \in Codes
      BY Zenon DEF ResponseInit
    <3> DEFINE valid == 100 .. 999
    <3>2. Codes \subseteq valid
      BY <2>1
    <3> HIDE DEF valid
    <3>3. ResponseInit => code \in valid
      BY <3>1, <3>2, Zenon
    <3> QED BY <3>3 DEF valid
  <2>3. ResponseInit => header \in Headers
    <3> SUFFICES ASSUME ResponseInit  PROVE header \in Headers
      OBVIOUS
    <3>1. \/ header = Absent
          \/ \E s \in {"", "+", "-"} : header = Seconds(s)
          \/ \E ahead \in Dates : header = Date(ahead)
      BY ZenonT(30) DEF ResponseInit
    <3> QED BY <1>2, <1>3, <1>4, <3>1, Zenon
  <2> QED BY <2>2, <2>3
<1>6. ASSUME NEW d \in Digits, header \in Headers, Digit(d)  PROVE header' \in Headers
  <2>1. d \in 0 .. 9 /\ header.digits \in Seq(0 .. 9)
    <3>1. Digits \subseteq 0 .. 9
      BY ResponsesAssumption
    <3>2. header.digits \in Seq(0 .. 9)
      BY <1>6 DEF Headers
    <3> QED BY <3>1, <3>2
  <2>2. Append(header.digits, d) \in Seq(0 .. 9)
    BY <2>1
  <2> QED BY <1>6, <2>2 DEF Digit, Headers
<1> QED BY <1>2, <1>5, <1>6

\* The state is a status, a Retry-After field and an error, of any length or depth.
THEOREM VerdictTyping == VerdictSpec => []VerdictTypeOK
<1>1. VerdictInit => VerdictTypeOK
  BY HeaderType, SmallErrors DEF VerdictInit, ErrorInit, VerdictTypeOK
<1>2. VerdictTypeOK /\ [VerdictNext]_vars => VerdictTypeOK'
  <2> SUFFICES ASSUME VerdictTypeOK, [VerdictNext]_vars  PROVE VerdictTypeOK'
    OBVIOUS
  <2> USE DEF VerdictTypeOK
  <2>1. ASSUME NEW kind \in Roots, Fails(kind)  PROVE VerdictTypeOK'
    BY <2>1, OneLayer DEF Fails, Make, responseVars
  <2>2. ASSUME NEW d \in Digits, Receives(d)  PROVE VerdictTypeOK'
    BY <2>2, HeaderType DEF Receives, Digit
  <2>3. CASE Checked
    BY <2>3, CheckHTTPStatusType DEF Checked, responseVars
  <2>4. CASE Travels
    BY <2>4, OnItsWayUpType, HeaderType DEF Travels
  <2>5. CASE UNCHANGED vars
    <3>1. code' = code /\ header' = header /\ err' = err
      BY <2>5, Zenon DEF vars
    <3> HIDE DEF VerdictTypeOK
    <3>2. VerdictTypeOK
      OBVIOUS
    <3> QED BY <3>1, <3>2 DEF VerdictTypeOK
  <2> HIDE DEF VerdictTypeOK
  <2> QED BY <2>1, <2>2, <2>3, <2>4, <2>5, Zenon DEF VerdictNext
<1> QED BY <1>1, <1>2, PTL DEF VerdictSpec

(***************************************************************************)
(* Delta-seconds.                                                          *)
(***************************************************************************)

\* Capping the seconds at the widest whole number of them caps the product.
LEMMA WholeSeconds ==
  ASSUME NEW v \in Nat
  PROVE  /\ v * Second > MaxDur => v > maxSecs
         /\ v * Second <= MaxDur => v <= maxSecs
         /\ maxSecs * Second = MaxDur - (MaxDur % Second)
         /\ maxSecs \in Nat
<1>1. MaxDur \in Nat /\ Second \in Nat \ {0}
  BY ResponsesAssumption, DurationsAssumption
<1> DEFINE r == MaxDur % Second
<1>2. maxSecs \in Nat /\ r \in 0 .. Second - 1 /\ MaxDur = Second * maxSecs + r
  BY <1>1 DEF maxSecs
<1> HIDE DEF r
<1>3. \A x, y, s \in Nat : /\ x * s = s * x
                          /\ x <= y => x * s <= y * s
                          /\ (x + 1) * s = x * s + s
                          /\ x * s \in Nat
  OBVIOUS
<1>4. v * Second \in Nat /\ maxSecs * Second \in Nat /\ MaxDur = maxSecs * Second + r
  BY <1>1, <1>2, <1>3
<1>5. v <= maxSecs => v * Second <= maxSecs * Second
  BY <1>1, <1>2, <1>3
<1>6. v > maxSecs => v * Second >= maxSecs * Second + Second
  <2> SUFFICES ASSUME v > maxSecs  PROVE v * Second >= maxSecs * Second + Second
    OBVIOUS
  <2>1. maxSecs + 1 \in Nat /\ maxSecs + 1 <= v
    BY <1>2
  <2>2. (maxSecs + 1) * Second <= v * Second
    BY <1>1, <1>3, <2>1
  <2>3. (maxSecs + 1) * Second = maxSecs * Second + Second
    BY <1>1, <1>2, <1>3
  <2> QED BY <1>1, <1>4, <2>2, <2>3
<1> DEFINE p == v * Second
           q == maxSecs * Second
<1> HIDE DEF p, q
<1>7. p \in Nat /\ q \in Nat /\ MaxDur = q + r /\ (v <= maxSecs => p <= q) /\ (v > maxSecs => p >= q + Second)
  BY <1>4, <1>5, <1>6 DEF p, q
<1>8. /\ p > MaxDur => v > maxSecs
      /\ p <= MaxDur => v <= maxSecs
      /\ q = MaxDur - r
  BY <1>1, <1>2, <1>7
<1> QED BY <1>2, <1>8 DEF p, q, r

\* A delta-seconds header means its value, however it is padded and however long:
\* what it says past the integer or the duration range never overflows.
THEOREM DeltaSecondsValued == VerdictSpec => []DeltaSecondsByValue
<1>1. VerdictTypeOK => DeltaSecondsByValue
  <2> SUFFICES ASSUME header \in Headers, header.form = "seconds"  PROVE DeltaSecondsByValue
    BY DEF VerdictTypeOK, DeltaSecondsByValue
  <2> DEFINE digits == header.digits
             ds == TrimZeros(digits)
             v  == Value(digits)
             meant == IF header.sign = "-" \/ v > MaxDur THEN 0
                      ELSE IF v * Second > MaxDur THEN MaxDur - (MaxDur % Second)
                      ELSE v * Second
  <2>1. MaxDur \in Nat /\ Second \in Nat \ {0} /\ Second <= MaxDur
    BY ResponsesAssumption, DurationsAssumption
  <2>2. digits \in Seq(0 .. 9)
    BY DEF Headers
  <2>3. v \in Nat /\ Value(ds) = v /\ ds \in Seq(0 .. 9) /\ (ds # <<>> => ds[1] >= 1)
    <3> HIDE DEF digits
    <3> QED BY <2>2, ValueType, TrimmedValue, TrimmedDigits
  <2>4. 0 * Second = 0
    BY <2>1
  <2>5. \A empty \in Seq(0 .. 9) : empty = <<>> => Value(empty) = 0
    <3> SUFFICES ASSUME NEW empty \in Seq(0 .. 9), empty = <<>>  PROVE Value(empty) = 0
      OBVIOUS
    <3>1. PICK f : FollowsLinear(f, Len(empty), 0, 10, empty) /\ Value(empty) = f[Len(empty)]
      BY ValueReads
    <3>2. Len(empty) = 0 /\ f[0] = 0
      BY <3>1 DEF FollowsLinear
    <3> QED BY <3>1, <3>2
  <2>6. v = 0 => meant = 0
    BY <2>1, <2>4
  <2>7. DeltaSecondsByValue <=> parseRetryAfterValue(header) = meant
    BY DEF DeltaSecondsByValue
  <2>8. parseRetryAfterValue(header) = IF digits # <<>> THEN deltaSeconds(header) ELSE 0
    BY DEF parseRetryAfterValue
  <2>9. deltaSeconds(header) =
          IF header.sign = "-" \/ ds = <<>> \/ Len(ds) > maxInt64Digits THEN 0
          ELSE Min({ParseInt(ds), maxSecs}) * Second
    BY DEF deltaSeconds
  <2> HIDE DEF digits, ds, v
  <2>10. CASE digits = <<>> \/ ds = <<>>
    <3>1. v = 0
      BY <2>2, <2>3, <2>5, <2>10 DEF v
    <3> QED BY <2>6, <2>7, <2>8, <2>9, <2>10, <3>1
  <2>11. CASE header.sign = "-"
    BY <2>7, <2>8, <2>9, <2>11
  <2>12. CASE Len(ds) > maxInt64Digits /\ ds # <<>>
    <3>1. v > MaxDur
      BY <2>3, <2>12, LongIsPast
    <3> QED BY <2>7, <2>8, <2>9, <2>12, <3>1
  <2>13. CASE digits # <<>> /\ ds # <<>> /\ header.sign # "-" /\ ~(Len(ds) > maxInt64Digits)
    <3>1. parseRetryAfterValue(header) = Min({ParseInt(ds), maxSecs}) * Second
      BY <2>8, <2>9, <2>13
    <3>2. ParseInt(ds) = IF v > MaxDur THEN 0 ELSE v
      BY <2>3 DEF ParseInt
    <3>3. /\ v * Second > MaxDur => v > maxSecs
          /\ v * Second <= MaxDur => v <= maxSecs
          /\ maxSecs * Second = MaxDur - (MaxDur % Second)
          /\ maxSecs \in Nat
      BY <2>3, WholeSeconds
    <3>4. v * Second \in Nat
      BY <2>1, <2>3
    <3>5. Min({ParseInt(ds), maxSecs}) = IF ParseInt(ds) <= maxSecs THEN ParseInt(ds) ELSE maxSecs
      BY <2>3, <3>2, <3>3, MinOfTwo
    <3>6. CASE v > MaxDur
      <4>1. Min({ParseInt(ds), maxSecs}) = 0
        BY <3>2, <3>3, <3>5, <3>6
      <4> QED BY <2>4, <2>7, <3>1, <3>6, <4>1
    <3>7. CASE ~(v > MaxDur) /\ v * Second > MaxDur
      <4>1. Min({ParseInt(ds), maxSecs}) = maxSecs
        BY <2>3, <3>2, <3>3, <3>5, <3>7
      <4> QED BY <2>7, <2>13, <3>1, <3>3, <3>7, <4>1
    <3>8. CASE ~(v > MaxDur) /\ ~(v * Second > MaxDur)
      <4>1. v <= maxSecs
        BY <2>1, <3>3, <3>4, <3>8
      <4>2. Min({ParseInt(ds), maxSecs}) = v
        BY <3>2, <3>5, <3>8, <4>1
      <4> QED BY <2>7, <2>13, <3>1, <3>8, <4>2
    <3> QED BY <3>6, <3>7, <3>8
  <2> QED BY <2>10, <2>11, <2>12, <2>13
<1> QED BY <1>1, VerdictTyping, PTL

(***************************************************************************)
(* Errors on their way up.                                                 *)
(***************************************************************************)

\* No *url.Error leaves either reduction and no failure becomes a success, however
\* deep the error and however joins nest its parts.
THEOREM ReducedSafely == VerdictSpec => []ReducedIsSafe
<1>1. err \in Error => ReducedIsSafe
  <2> SUFFICES ASSUME err \in Error, NEW prefixed \in BOOLEAN, NEW holdsSecret \in BOOLEAN
               PROVE  \A safe \in {LogSafeError(err),
                                    RedactTransportError(err, prefixed, holdsSecret)} :
                        ~Is(safe, {"url"}) /\ (safe = nil <=> err = nil)
    BY DEF ReducedIsSafe
  <2>1. CASE err = nil
    BY <2>1 DEF LogSafeError, RedactTransportError, Is, nil
  <2>2. CASE err # nil
    <3> DEFINE reduced == reduceURLErrors(err)
    <3>1. reduced \in Error /\ reduced # nil /\ ~Is(reduced, {"url"})
      BY <2>2, ReductionIsSafe
    <3> HIDE DEF reduced
    <3>2. /\ Layer("wrap") \in LayerSet /\ Layer("wrap").kind \notin {"url"}
          /\ Layer("opaque") \in LayerSet /\ Layer("opaque").kind \notin {"url"}
      BY DEF Layer, LayerSet, Kinds, OwnKinds, LibraryKinds
    <3>3. <<Layer("wrap")>> \o reduced # nil /\ ~Is(<<Layer("wrap")>> \o reduced, {"url"})
      BY <3>1, <3>2, LayerOnTop, IsOnTop
    <3>4. <<Layer("opaque")>> # nil /\ ~Is(<<Layer("opaque")>>, {"url"})
      BY <3>2, OfOneLayer
    <3> QED BY <2>2, <3>1, <3>3, <3>4 DEF LogSafeError, RedactTransportError, reduced
  <2> QED BY <2>1, <2>2
<1> QED BY <1>1, VerdictTyping, PTL DEF VerdictTypeOK

\* MarkTransient makes an error worth a retry unless a Permanent mark, an auth or
\* rate-limit error or the caller's own context error is in it.
THEOREM MarkOverrides == VerdictSpec => MarkTransientOverrides
<1>1. ASSUME NEW e \in Error \ {nil}
      PROVE  IsTransient(MarkTransient(e)) <=>
               /\ ~Is(e, {"permanent", "auth", "rateLimit"})
               /\ isCallerContextError(e) => IsAttemptTimeout(e)
  <2> DEFINE x == Layer("markTransient")
             m == <<x>> \o e
  <2>1. x \in LayerSet /\ x.kind = "markTransient" /\ x.kind \in Transient /\ x.kind \in SaysYes
    BY DEF Layer, LayerSet, Kinds, OwnKinds, LibraryKinds, Transient, SaysYes
  <2>2. MarkTransient(e) = m /\ m[1] = x
    BY <2>1, LayerOnTop DEF MarkTransient
  <2>3. Is(m, Transient) /\ m[First(m, Transient)].kind \in SaysYes
    BY <2>1, <2>2, IsOnTop, FirstOnTop
  <2>4. \A kinds : x.kind \notin kinds => (Is(m, kinds) <=> Is(e, kinds))
    BY <2>1, IsOnTop
  <2> HIDE DEF x, m
  <2>5. /\ IsPermanent(m) <=> Is(e, {"permanent"})
        /\ Is(m, {"auth", "rateLimit"}) <=> Is(e, {"auth", "rateLimit"})
        /\ IsAttemptTimeout(m) <=> IsAttemptTimeout(e)
        /\ isCallerContextError(m) <=> isCallerContextError(e)
    BY <2>1, <2>4 DEF IsPermanent, IsAttemptTimeout, isCallerContextError, MatchesDeadline
  <2>6. Is(e, {"permanent", "auth", "rateLimit"})
          <=> Is(e, {"permanent"}) \/ Is(e, {"auth", "rateLimit"})
    BY DEF Is
  <2>7. IsTransient(m) <=> /\ ~IsPermanent(m)
                           /\ ~Is(m, {"auth", "rateLimit"})
                           /\ IsAttemptTimeout(m) \/ ~isCallerContextError(m)
    BY <2>3 DEF IsTransient
  <2> QED BY <2>2, <2>5, <2>6, <2>7
<1>2. VerdictTypeOK /\ [VerdictNext]_vars =>
        [err # nil /\ err' = MarkTransient(err) =>
           (IsTransient(err') <=>
              /\ ~Is(err, {"permanent", "auth", "rateLimit"})
              /\ isCallerContextError(err) => IsAttemptTimeout(err))]_err
  BY <1>1 DEF VerdictTypeOK
<1> QED BY <1>2, VerdictTyping, PTL DEF VerdictSpec, MarkTransientOverrides

(***************************************************************************)
(* What a layer wraps.                                                     *)
(***************************************************************************)

\* A part of a sequence.
LEMMA PartOfSeq ==
  ASSUME NEW S, NEW s \in Seq(S), NEW m \in 1 .. Len(s) + 1, NEW n \in m - 1 .. Len(s),
         NEW a, a = SubSeq(s, m, n)
  PROVE  /\ a \in Seq(S) /\ Len(a) = n - m + 1
         /\ \A k \in 1 .. n - m + 1 : a[k] = s[m + k - 1]
<1>1. m \in Int /\ n \in Int /\ \A k \in m .. n : s[k] \in S
  OBVIOUS
<1>2. /\ SubSeq(s, m, n) \in Seq(S)
      /\ Len(SubSeq(s, m, n)) = IF m <= n THEN n - m + 1 ELSE 0
      /\ \A k \in 1 .. n - m + 1 : SubSeq(s, m, n)[k] = s[m + k - 1]
  BY <1>1, SubSeqProperties
<1>3. Len(a) = IF m <= n THEN n - m + 1 ELSE 0
  BY <1>2
<1>4. n - m + 1 = IF m <= n THEN n - m + 1 ELSE 0
  OBVIOUS
<1> QED BY <1>2, <1>3, <1>4

\* What a layer wraps are the layers after it, to where its error ends.
LEMMA BelowParts ==
  ASSUME NEW e \in Error, NEW p \in DOMAIN e
  PROVE  LET b == Below(e, p)
             n == EndOf(e, p) - p
         IN  /\ b \in Error /\ Len(b) = n /\ DOMAIN b = 1 .. n /\ n \in Nat
             /\ \A k \in 1 .. n : p + k \in DOMAIN e /\ b[k] = e[p + k]
<1> DEFINE b == Below(e, p)
           m == EndOf(e, p)
           n == m - p
           q == p + 1
<1>1. /\ e \in Seq(LayerSet) /\ Len(e) \in Nat /\ DOMAIN e = 1 .. Len(e) /\ p \in 1 .. Len(e)
      /\ m \in p .. Len(e)
  BY ErrorParts, EndWithin DEF Error, LayerSet
<1>2. b = SubSeq(e, q, m)
  BY DEF Below
<1> HIDE DEF b, m
<1>3. /\ q \in 1 .. Len(e) + 1 /\ m \in q - 1 .. Len(e) /\ m - q + 1 = n
      /\ \A k \in 1 .. n : q + k - 1 = p + k
  BY <1>1
<1>4. n \in Nat /\ \A k \in 1 .. n : p + k \in 1 .. Len(e)
  BY <1>1
<1>5. e \in Seq(LayerSet)
  BY <1>1
<1> HIDE DEF q, n
<1>6. /\ b \in Seq(LayerSet) /\ Len(b) = m - q + 1
      /\ \A k \in 1 .. m - q + 1 : b[k] = e[q + k - 1]
  BY <1>2, <1>3, <1>5, PartOfSeq
<1>7. b \in Error /\ Len(b) = n
  BY <1>3, <1>6 DEF Error, LayerSet
<1>8. DOMAIN b = 1 .. n
  BY <1>7, ErrorParts
<1>9. \A k \in 1 .. n : b[k] = e[p + k]
  BY <1>3, <1>6
<1>10. \A k \in 1 .. n : p + k \in DOMAIN e
  BY <1>1, <1>4
<1> QED BY <1>4, <1>7, <1>8, <1>9, <1>10 DEF b, n, m

\* Below a layer that is no join, every layer wraps what it does in the whole.
LEMMA EndInPart ==
  ASSUME NEW e \in Error, NEW p \in DOMAIN e, e[p].kind # "join",
         NEW k \in DOMAIN Below(e, p)
  PROVE  EndOf(e, p + k) = p + EndOf(Below(e, p), k)
<1> DEFINE b == Below(e, p)
           m == EndOf(e, p)
           n == m - p
           B == EndOf(b, k)
           E == EndOf(e, p + k)
<1>1. /\ Len(e) \in Nat /\ DOMAIN e = 1 .. Len(e) /\ p \in 1 .. Len(e)
      /\ \A j \in 1 .. Len(e) : e[j].dur \in Int
  BY ErrorParts DEF LayerSet
<1>2. /\ b \in Error /\ Len(b) = n /\ DOMAIN b = 1 .. n /\ n \in Nat
      /\ \A l \in 1 .. n : p + l \in DOMAIN e /\ b[l] = e[p + l]
  BY BelowParts
<1>3. /\ m \in p .. Len(e)
      /\ \A j \in 1 .. p - 1 : Covers(e, j, p) => m <= j + e[j].dur
      /\ m = Len(e) \/ \E j \in 1 .. p - 1 : Covers(e, j, p) /\ m = j + e[j].dur
  BY EndBounds
<1>4. /\ B \in k .. n
      /\ \A j \in 1 .. k - 1 : Covers(b, j, k) => B <= j + b[j].dur
      /\ B = n \/ \E j \in 1 .. k - 1 : Covers(b, j, k) /\ B = j + b[j].dur
  BY <1>2, EndBounds
<1>5. /\ E \in p + k .. Len(e)
      /\ \A j \in 1 .. (p + k) - 1 : Covers(e, j, p + k) => E <= j + e[j].dur
      /\ E = Len(e) \/ \E j \in 1 .. (p + k) - 1 : Covers(e, j, p + k) /\ E = j + e[j].dur
  BY <1>2, EndBounds
<1>6. /\ k \in 1 .. n /\ p \in 1 .. Len(e) /\ m \in p .. Len(e) /\ Len(e) \in Nat
      /\ B \in k .. n /\ E \in p + k .. Len(e)
  BY <1>1, <1>2, <1>3, <1>4, <1>5, Zenon
<1>7. n = m - p
  OBVIOUS
<1> HIDE DEF b, m, n, B, E
<1>8. k \in 1 .. n /\ m = p + n /\ p + k <= m /\ m \in Int /\ k \in Int /\ p \in Int
  BY <1>6, <1>7
<1>9. B \in Int /\ B <= n /\ n \in Int /\ E \in Int /\ m <= Len(e) /\ Len(e) \in Int
  BY <1>6, <1>7
<1>10. ASSUME NEW l \in 1 .. k - 1
      PROVE  /\ p + l \in 1 .. (p + k) - 1 /\ (p + l) + e[p + l].dur = p + (l + b[l].dur)
             /\ Covers(b, l, k) <=> Covers(e, p + l, p + k)
  <2>1. l \in 1 .. n /\ b[l] = e[p + l] /\ e[p + l].dur \in Int
    BY <1>1, <1>2, <1>8
  <2> DEFINE d == e[p + l].dur
  <2>2. b[l].dur = d /\ b[l].kind = e[p + l].kind /\ d \in Int
    BY <2>1
  <2> HIDE DEF d
  <2>3. /\ p + l \in 1 .. (p + k) - 1 /\ (p + l) + d = p + (l + d)
        /\ k <= l + d <=> p + k <= (p + l) + d
    BY <1>1, <1>8, <2>2
  <2> QED BY <2>2, <2>3 DEF Covers, d
<1>11. E <= p + B
  <2>1. E <= m
    <3>1. ASSUME NEW j \in 1 .. p - 1, Covers(e, j, p), m = j + e[j].dur  PROVE E <= m
      <4>1. j \in 1 .. (p + k) - 1 /\ Covers(e, j, p + k)
        BY <1>8, <3>1 DEF Covers
      <4> QED BY <1>5, <3>1, <4>1
    <3> QED BY <1>3, <1>5, <3>1
  <2>2. ASSUME NEW j \in 1 .. k - 1, Covers(b, j, k), B = j + b[j].dur  PROVE E <= p + B
    BY <1>5, <1>10, <2>2
  <2>3. B = n => E <= p + B
    BY <1>8, <2>1
  <2> QED BY <1>4, <2>2, <2>3
<1>12. p + B <= E
  <2>1. CASE E = Len(e)
    BY <1>8, <1>9, <2>1
  <2>2. ASSUME NEW j \in 1 .. (p + k) - 1, Covers(e, j, p + k), E = j + e[j].dur
        PROVE  p + B <= E
    <3>1. j # p /\ j \in Int
      BY <2>2 DEF Covers
    <3>2. CASE j < p
      <4>1. e[j].dur \in Int /\ j \in 1 .. p - 1
        BY <1>1, <2>2, <3>2
      <4>2. Covers(e, j, p)
        BY <1>8, <2>2, <4>1 DEF Covers
      <4>3. m <= E
        BY <1>3, <2>2, <4>1, <4>2
      <4> QED BY <1>8, <1>9, <4>3
    <3>3. CASE j > p
      <4> DEFINE l   == j - p
                 end == l + b[l].dur
      <4>1. l \in 1 .. k - 1 /\ p + l = j /\ l \in Int
        BY <1>8, <2>2, <3>1, <3>3
      <4> HIDE DEF l
      <4>2. Covers(b, l, k) /\ E = p + end
        BY <1>10, <2>2, <4>1
      <4>3. B <= end
        BY <1>4, <4>1, <4>2
      <4>4. end \in Int
        <5>1. l \in 1 .. n
          BY <1>8, <1>9, <4>1
        <5>2. p + l \in 1 .. Len(e) /\ b[l] = e[p + l]
          BY <1>1, <1>2, <5>1, Zenon
        <5>3. b[l].dur \in Int
          BY <1>1, <5>2
        <5> QED BY <4>1, <5>3
      <4> HIDE DEF end
      <4> QED BY <1>8, <1>9, <4>2, <4>3, <4>4
    <3> QED BY <1>8, <3>1, <3>2, <3>3
  <2> QED BY <1>5, <2>1, <2>2
<1>13. E \in Int /\ p + B \in Int
  BY <1>8, <1>9
<1>14. E = p + B
  BY <1>11, <1>12, <1>13
<1> QED BY <1>14 DEF E, B, b

\* So there every layer's Timeout() is what it is in the whole.
LEMMA TimeoutInPart ==
  ASSUME NEW e \in Error, NEW p \in DOMAIN e, e[p].kind # "join",
         NEW i \in DOMAIN Below(e, p)
  PROVE  Timeout(Below(e, p))[i] <=> Timeout(e)[p + i]
<1> DEFINE b == Below(e, p)
           n == EndOf(e, p) - p
           Differ == {k \in 1 .. n : ~(Timeout(b)[k] <=> Timeout(e)[p + k])}
           rests  == {n - k : k \in Differ}
<1>1. /\ b \in Error /\ Len(b) = n /\ DOMAIN b = 1 .. n /\ n \in Nat
      /\ \A k \in 1 .. n : p + k \in DOMAIN e /\ b[k] = e[p + k]
  BY BelowParts
<1>2. p \in Int
  BY ErrorParts
<1>3. \A k \in DOMAIN b : EndOf(e, p + k) = p + EndOf(b, k) /\ EndOf(b, k) \in k .. Len(b)
  BY <1>1, EndInPart, EndWithin
<1> HIDE DEF b, n
<1>4. ASSUME NEW k \in 1 .. n
      PROVE  /\ TimesOut(b, k) <=> TimesOut(e, p + k)
             /\ Asks(b, k) <=> Asks(e, p + k)
             /\ Asks(b, k) => k + 1 \in 1 .. n
  <2>1. /\ EndOf(e, p + k) = p + EndOf(b, k) /\ EndOf(b, k) \in k .. n /\ b[k] = e[p + k]
    BY <1>1, <1>3
  <2>2. /\ k < EndOf(b, k) <=> p + k < EndOf(e, p + k)
        /\ k < EndOf(b, k) => k + 1 \in 1 .. n
    BY <1>1, <1>2, <2>1
  <2> QED BY <2>1, <2>2 DEF TimesOut, Asks
<1>5. Differ = {}
  <2> SUFFICES ASSUME Differ # {}  PROVE FALSE
    OBVIOUS
  <2>1. rests \in SUBSET Nat /\ rests # {}
    BY <1>1
  <2>2. PICK r \in rests : \A q \in rests : r <= q
    <3> HIDE DEF rests
    <3> QED BY <2>1, LeastNatural
  <2>3. PICK k \in Differ : r = n - k
    OBVIOUS
  <2>4. k + 1 \notin Differ
    <3> SUFFICES ASSUME k + 1 \in Differ  PROVE FALSE
      OBVIOUS
    <3>1. n - (k + 1) \in rests /\ k \in 1 .. n
      OBVIOUS
    <3>2. r <= n - (k + 1)
      BY <2>2, <3>1
    <3> HIDE DEF Differ, rests
    <3> QED BY <1>1, <2>3, <3>1, <3>2
  <2>5. k \in 1 .. n /\ ~(Timeout(b)[k] <=> Timeout(e)[p + k])
    OBVIOUS
  <2>6. Timeout(b)[k] <=> TimesOut(b, k) \/ (Asks(b, k) /\ Timeout(b)[k + 1])
    BY <1>1, <2>5, TimeoutUnrolled
  <2>7. Timeout(e)[p + k] <=> TimesOut(e, p + k) \/ (Asks(e, p + k) /\ Timeout(e)[(p + k) + 1])
    BY <1>1, <2>5, TimeoutUnrolled
  <2>8. Asks(b, k) => (Timeout(b)[k + 1] <=> Timeout(e)[(p + k) + 1])
    <3>1. (p + k) + 1 = p + (k + 1)
      BY <1>2, <2>5
    <3> QED BY <1>4, <2>4, <2>5, <3>1
  <2>9. (TimesOut(b, k) <=> TimesOut(e, p + k)) /\ (Asks(b, k) <=> Asks(e, p + k))
    BY <1>4, <2>5
  <2> HIDE DEF Differ
  <2> QED BY <2>5, <2>6, <2>7, <2>8, <2>9
<1>6. Timeout(b)[i] <=> Timeout(e)[p + i]
  <2>1. i \in 1 .. n
    BY <1>1 DEF b
  <2> QED BY <1>5, <2>1
<1> QED BY <1>6 DEF b

\* Nothing is worth no retry.
LEMMA NothingIsFinal == ~IsTransient(nil)
<1>1. \A kinds : ~Is(nil, kinds)
  BY DEF Is, nil
<1>2. ~isReset(nil) /\ ~isTimeout(nil)
  BY <1>1 DEF isReset, isTimeout
<1>3. ~IsAttemptTimeout(nil)
  BY <1>1 DEF IsAttemptTimeout
<1> QED BY <1>1, <1>2, <1>3, CauseTransient DEF IsTransient

\* A *url.Error that times out does by the error it wraps.
LEMMA TimeoutIsCauses ==
  ASSUME NEW e \in Error, isTimeout(e), Is(e, {"url"}),
         \A j \in 1 .. First(e, {"url"}) : ~TimesOut(e, j)
  PROVE  isTimeout(Below(e, First(e, {"url"})))
<1> DEFINE u == First(e, {"url"})
           f == First(e, NetErrors)
           b == Below(e, u)
           n == EndOf(e, u) - u
<1>1. Len(e) \in Nat /\ DOMAIN e = 1 .. Len(e)
  BY ErrorParts
<1>2. u \in DOMAIN e /\ e[u].kind = "url"
  BY FirstExists
<1>3. /\ f \in DOMAIN e /\ \A j \in 1 .. f - 1 : e[j].kind \notin NetErrors
      /\ Is(e, NetErrors) /\ Timeout(e)[f]
  BY FirstExists DEF isTimeout
<1>4. /\ b \in Error /\ DOMAIN b = 1 .. n /\ n \in Nat
      /\ \A k \in 1 .. n : b[k] = e[u + k]
  BY <1>2, BelowParts
<1>5. \A k \in DOMAIN b : Timeout(b)[k] <=> Timeout(e)[u + k]
  BY <1>2, TimeoutInPart
<1>6. \A j \in 1 .. u : ~TimesOut(e, j)
  OBVIOUS
<1>7. u \in 1 .. Len(e) /\ f \in 1 .. Len(e)
  BY <1>1, <1>2, <1>3
<1>8. EndOf(e, u) \in u .. Len(e)
  BY <1>2, EndWithin
<1>9. b = Below(e, First(e, {"url"}))
  OBVIOUS
<1>10. n = EndOf(e, u) - u
  OBVIOUS
<1> HIDE DEF u, f, b, n
<1>11. f <= u
  BY <1>2, <1>3, <1>7 DEF NetErrors
<1>12. Timeout(e)[u]
  <2> DEFINE Silent == {k \in 1 .. Len(e) : f <= k /\ k <= u /\ ~Timeout(e)[k]}
  <2>1. Silent = {}
    <3> SUFFICES ASSUME Silent # {}  PROVE FALSE
      OBVIOUS
    <3>1. Silent \in SUBSET Nat
      OBVIOUS
    <3>2. PICK k \in Silent : \A j \in Silent : k <= j
      <4> HIDE DEF Silent
      <4> QED BY <3>1, LeastNatural
    <3>3. k # f /\ k - 1 \in 1 .. Len(e) /\ f <= k - 1 /\ k - 1 <= u /\ k - 1 \in 1 .. u
      BY <1>3, <1>7
    <3>4. Timeout(e)[k - 1]
      <4>1. k - 1 \notin Silent
        <5>1. k \in Int
          OBVIOUS
        <5> HIDE DEF Silent
        <5> QED BY <3>2, <5>1
      <4> QED BY <3>3, <4>1
    <3>5. Timeout(e)[(k - 1) + 1]
      BY <1>1, <1>6, <3>3, <3>4, TimeoutUnrolled
    <3>6. (k - 1) + 1 = k /\ ~Timeout(e)[k]
      OBVIOUS
    <3> QED BY <3>5, <3>6
  <2> QED BY <1>7, <1>11, <2>1
<1>13. Asks(e, u) /\ Timeout(e)[u + 1]
  <2>1. u \in 1 .. u
    BY <1>7
  <2> QED BY <1>2, <1>6, <1>12, <2>1, TimeoutUnrolled
<1>14. 1 \in DOMAIN b
  BY <1>4, <1>7, <1>8, <1>10, <1>13 DEF Asks
<1>15. Timeout(b)[1]
  BY <1>5, <1>13, <1>14
<1>16. b[1].kind \in NetErrors
  BY <1>4, <1>14, <1>15, TimeoutUnrolled DEF TimesOut, Asks, NetErrors
<1>17. Is(b, NetErrors)
  BY <1>14, <1>16 DEF Is
<1>18. First(b, NetErrors) = 1
  <2>1. /\ First(b, NetErrors) \in DOMAIN b
        /\ \A j \in 1 .. First(b, NetErrors) - 1 : b[j].kind \notin NetErrors
    BY <1>4, <1>17, FirstExists
  <2> QED BY <1>4, <1>16, <2>1
<1> QED BY <1>9, <1>15, <1>17, <1>18 DEF isTimeout

\* With nothing around or beside the first *url.Error that decides it, an error worth a
\* retry has a cause that is.
LEMMA CauseKeepsVerdict ==
  ASSUME NEW e \in Error, Is(e, {"url"}), IsTransient(e),
         \A i \in DOMAIN e : \/ i \in First(e, {"url"}) + 1 .. EndOf(e, First(e, {"url"}))
                             \/ e[i].kind \notin Decisive
  PROVE  IsTransient(urlErrorCause(e))
<1> DEFINE u == First(e, {"url"})
           b == Below(e, u)
           n == EndOf(e, u) - u
<1>1. Len(e) \in Nat /\ DOMAIN e = 1 .. Len(e)
  BY ErrorParts
<1>2. u \in DOMAIN e /\ e[u].kind = "url" /\ u \in Int
  BY <1>1, FirstExists
<1>3. /\ b \in Error /\ DOMAIN b = 1 .. n /\ n \in Nat
      /\ \A k \in 1 .. n : u + k \in DOMAIN e /\ b[k] = e[u + k]
  BY <1>2, BelowParts
<1>4. EndOf(e, u) = u + n
  <2>1. EndOf(e, u) \in u .. Len(e)
    BY <1>2, EndWithin
  <2> QED BY <1>2, <2>1
<1>5. \A i \in DOMAIN e : i \in u + 1 .. u + n \/ e[i].kind \notin Decisive
  <2> HIDE DEF u, n
  <2>1. u = First(e, {"url"})
    BY DEF u
  <2> QED BY <1>4, <2>1
<1>6. isTimeout(e) /\ (\A j \in 1 .. u : ~TimesOut(e, j)) => isTimeout(b)
  BY TimeoutIsCauses
<1>7. isReset(e) => b = <<Layer("eof")>> \/ Is(e, {"serverClosed", "reset", "unexpectedEOF"})
  BY DEF isReset
<1>8. urlErrorCause(e) = IF b = nil THEN errRequestFailed ELSE nameHangUp(b)
  BY Zenon DEF urlErrorCause
<1> HIDE DEF u, b, n
<1>9. \A i \in DOMAIN e : e[i].kind \in Decisive => i - u \in 1 .. n /\ b[i - u] = e[i]
  <2> SUFFICES ASSUME NEW i \in DOMAIN e, e[i].kind \in Decisive
               PROVE  i - u \in 1 .. n /\ b[i - u] = e[i]
    OBVIOUS
  <2>1. i \in u + 1 .. u + n
    BY <1>5
  <2>2. i - u \in 1 .. n /\ u + (i - u) = i
    BY <1>2, <1>3, <2>1
  <2> QED BY <1>3, <2>2
<1>10. ASSUME NEW kinds  PROVE Is(b, kinds) => Is(e, kinds)
  BY <1>3 DEF Is
<1>11. ASSUME NEW kinds, kinds \subseteq Decisive  PROVE Is(e, kinds) => Is(b, kinds)
  BY <1>3, <1>9, <1>11 DEF Is
<1>12. /\ ~IsPermanent(b) /\ ~Is(b, {"auth", "rateLimit"})
       /\ IsAttemptTimeout(e) \/ ~isCallerContextError(e)
  BY <1>10 DEF IsTransient, IsPermanent
<1>13. CASE b = <<Layer("eof")>>
  <2>1. b # nil
    BY <1>13 DEF nil
  <2> QED BY <1>8, <1>13, <2>1, HangUpIsTransient DEF nameHangUp
<1>14. CASE IsAttemptTimeout(e)
  <2>1. IsAttemptTimeout(b)
    BY <1>11, <1>14 DEF IsAttemptTimeout, Decisive, SaysYes, Transient
  <2>2. IsTransient(b)
    BY <1>12, <2>1 DEF IsTransient
  <2> QED BY <1>8, <1>13, <2>2, NothingIsFinal DEF nameHangUp
<1>15. CASE ~IsAttemptTimeout(e) /\ b # <<Layer("eof")>>
  <2>1. ~isCallerContextError(e) /\ ~isCallerContextError(b)
    BY <1>10, <1>12, <1>15 DEF isCallerContextError, MatchesDeadline
  <2>2. CASE Is(e, Transient)
    <3> DEFINE t == First(e, Transient)
               s == First(b, Transient)
    <3>1. /\ t \in DOMAIN e /\ e[t].kind \in SaysYes
          /\ \A j \in 1 .. t - 1 : e[j].kind \notin Transient
      BY <1>15, <2>2, FirstExists DEF IsTransient
    <3>2. t - u \in 1 .. n /\ b[t - u] = e[t] /\ e[t].kind \in Transient
      BY <1>9, <3>1 DEF Decisive, SaysYes
    <3>3. Is(b, Transient)
      BY <1>3, <3>2 DEF Is
    <3>4. s \in DOMAIN b /\ b[s].kind \in Transient /\ \A j \in 1 .. s - 1 : b[j].kind \notin Transient
      BY <1>3, <3>3, FirstExists
    <3> HIDE DEF t, s
    <3>5. s = t - u
      <4>1. s \in 1 .. n /\ b[s] = e[u + s] /\ u + s \in DOMAIN e
        BY <1>3, <3>4
      <4>2. ~(u + s \in 1 .. t - 1)
        BY <3>1, <3>4, <4>1
      <4>3. ~(t - u \in 1 .. s - 1)
        BY <3>2, <3>4
      <4>4. s \in Int /\ t \in Int /\ s >= 1 /\ t >= 1 /\ u + s >= 1 /\ t - u >= 1
        BY <1>1, <1>2, <1>3, <3>1, <3>2, <4>1
      <4> QED BY <1>2, <4>2, <4>3, <4>4
    <3>6. b[First(b, Transient)].kind \in SaysYes
      BY <3>1, <3>2, <3>5 DEF s
    <3>7. IsTransient(b)
      BY <1>12, <2>1, <3>3, <3>6 DEF IsTransient
    <3> QED BY <1>8, <1>15, <3>7, NothingIsFinal DEF nameHangUp
  <2>3. CASE ~Is(e, Transient)
    <3>1. ~Is(b, Transient)
      BY <1>10, <2>3
    <3>2. /\ ~Is(e, {"tooLarge"}) /\ ~Is(e, {"tls"})
          /\ Is(e, {"dns"}) \/ Is(e, {"refused"}) \/ isReset(e) \/ isTimeout(e)
      BY <1>15, <2>1, <2>3, CauseTransient DEF IsTransient
    <3>3. ~Is(b, {"tooLarge"}) /\ ~Is(b, {"tls"})
      BY <1>10, <3>2
    <3>4. /\ Is(e, {"dns"}) => Is(b, {"dns"})
          /\ Is(e, {"refused"}) => Is(b, {"refused"})
          /\ isReset(e) => isReset(b)
      <4>1. /\ {"dns"} \subseteq Decisive /\ {"refused"} \subseteq Decisive
            /\ {"serverClosed", "reset", "unexpectedEOF"} \subseteq Decisive
        BY DEF Decisive
      <4>2. isReset(e) => Is(b, {"serverClosed", "reset", "unexpectedEOF"})
        BY <1>7, <1>11, <1>15, <4>1
      <4> QED BY <1>11, <4>1, <4>2 DEF isReset
    <3>5. isTimeout(e) => isTimeout(b)
      <4>1. ASSUME NEW j \in 1 .. u, TimesOut(e, j)  PROVE FALSE
        <5>1. j \in DOMAIN e /\ j \notin u + 1 .. u + n
          BY <1>1, <1>2, <1>3
        <5>2. e[j].kind = "deadline"
          BY <1>5, <4>1, <5>1 DEF TimesOut, Decisive
        <5>3. isCallerContextError(e)
          BY <5>1, <5>2 DEF isCallerContextError, MatchesDeadline, Is
        <5> QED BY <2>1, <5>3
      <4> QED BY <1>6, <4>1
    <3>6. CauseOf(b) \in {"dns", "refused", "reset", "timeout"}
      BY <3>2, <3>3, <3>4, <3>5, CauseTransient
    <3>7. IsTransient(b)
      BY <1>12, <2>1, <3>1, <3>6 DEF IsTransient
    <3> QED BY <1>8, <1>15, <3>7, NothingIsFinal DEF nameHangUp
  <2> QED BY <2>2, <2>3
<1> QED BY <1>13, <1>14, <1>15

\* A verdict is lost with a dropped layer that decided it and with no other: reduced,
\* redacted and prefixed, an error worth a retry remains so, at any depth and under any
\* nesting of joins.
THEOREM ReducedStaysRetryable == VerdictSpec => []ReductionKeepsRetry
<1>1. err \in Error => ReductionKeepsRetry
  <2> DEFINE first == First(err, {"url"})
             cause == urlErrorCause(err)
             r     == reduceURLErrors(err)
  <2> SUFFICES ASSUME err \in Error, Is(err, {"url"}), IsTransient(err),
                      \A i \in DOMAIN err : \/ i \in first + 1 .. EndOf(err, first)
                                            \/ err[i].kind \notin Decisive
               PROVE  /\ IsTransient(cause)
                      /\ ~Is(cause, {"url"}) =>
                           /\ IsTransient(LogSafeError(err))
                           /\ \A prefixed \in BOOLEAN :
                                 IsTransient(RedactTransportError(err, prefixed, FALSE))
    BY DEF ReductionKeepsRetry
  <2>1. IsTransient(cause)
    BY CauseKeepsVerdict
  <2>2. ASSUME ~Is(cause, {"url"})
        PROVE  /\ IsTransient(LogSafeError(err))
               /\ \A prefixed \in BOOLEAN :
                     IsTransient(RedactTransportError(err, prefixed, FALSE))
    <3>1. Peeled(err) = cause
      BY DEF Peeled
    <3>2. r = cause
      <4> HIDE DEF cause
      <4> QED BY <2>2, <3>1, OnePeelingReduces
    <3>3. err # nil
      BY NothingIsFinal
    <3>4. r \in Error /\ ~Is(r, {"url"})
      BY <3>3, ReductionIsSafe
    <3>5. Layer("wrap") \in LayerSet /\ Layer("wrap").kind = "wrap"
      BY DEF Layer, LayerSet, Kinds, OwnKinds, LibraryKinds
    <3> HIDE DEF r, cause
    <3>6. IsTransient(<<Layer("wrap")>> \o r)
      BY <2>1, <3>2, <3>4, <3>5, PrefixKeepsTransience
    <3> QED BY <2>1, <3>2, <3>3, <3>6 DEF LogSafeError, RedactTransportError, r
  <2> QED BY <2>1, <2>2
<1>2. VerdictTypeOK => ReductionKeepsRetry
  BY <1>1 DEF VerdictTypeOK
<1> QED BY <1>2, VerdictTyping, PTL

(***************************************************************************)
(* A layer taken off.                                                      *)
(***************************************************************************)

\* Where layer k, or the end of a branch, is once layer i is off.
Kept(i, k) == IF k < i THEN k ELSE k - 1

\* A sequence without its i-th element.
LEMMA ElementOff ==
  ASSUME NEW S, NEW s \in Seq(S), NEW i \in 1 .. Len(s)
  PROVE  /\ RemoveAt(s, i) \in Seq(S) /\ Len(RemoveAt(s, i)) = Len(s) - 1
         /\ \A k \in 1 .. Len(s) : k # i => RemoveAt(s, i)[Kept(i, k)] = s[k]
<1> DEFINE a == SubSeq(s, 1, i - 1)
           b == SubSeq(s, i + 1, Len(s))
<1>1. Len(s) \in Nat /\ i \in Nat /\ i >= 1 /\ i <= Len(s)
  OBVIOUS
<1>2. a \in Seq(S) /\ Len(a) = i - 1 /\ \A k \in 1 .. i - 1 : a[k] = s[k]
  <2> DEFINE n == i - 1
  <2>1. /\ 1 \in 1 .. Len(s) + 1 /\ n \in 1 - 1 .. Len(s) /\ n - 1 + 1 = n
        /\ \A k \in 1 .. n : 1 + k - 1 = k
    BY <1>1
  <2> HIDE DEF n
  <2>2. a = SubSeq(s, 1, n)
    BY DEF n
  <2> HIDE DEF a
  <2>4. /\ a \in Seq(S) /\ Len(a) = n - 1 + 1
        /\ \A k \in 1 .. n - 1 + 1 : a[k] = s[1 + k - 1]
    BY <2>1, <2>2, PartOfSeq
  <2>3. a \in Seq(S) /\ Len(a) = n /\ \A k \in 1 .. n : a[k] = s[k]
    BY <2>1, <2>4
  <2> QED BY <2>3 DEF n
<1>3. b \in Seq(S) /\ Len(b) = Len(s) - i /\ \A k \in 1 .. Len(s) - i : b[k] = s[i + k]
  <2> DEFINE m == i + 1
  <2>1. /\ m \in 1 .. Len(s) + 1 /\ Len(s) \in m - 1 .. Len(s) /\ Len(s) - m + 1 = Len(s) - i
        /\ \A k \in 1 .. Len(s) - i : m + k - 1 = i + k
    BY <1>1
  <2> HIDE DEF m
  <2>2. b = SubSeq(s, m, Len(s))
    BY DEF m
  <2> HIDE DEF b
  <2>3. /\ b \in Seq(S) /\ Len(b) = Len(s) - m + 1
        /\ \A k \in 1 .. Len(s) - m + 1 : b[k] = s[m + k - 1]
    BY <2>1, <2>2, PartOfSeq
  <2> QED BY <2>1, <2>3
<1>4. RemoveAt(s, i) = a \o b
  BY DEF RemoveAt
<1> HIDE DEF a, b
<1> DEFINE c == a \o b
<1>5. c \in Seq(S) /\ Len(c) = Len(a) + Len(b)
  BY <1>2, <1>3, ConcatProperties
<1>6. \A k \in 1 .. Len(a) + Len(b) : c[k] = IF k <= Len(a) THEN a[k] ELSE b[k - Len(a)]
  BY <1>2, <1>3, ConcatProperties
<1>7. RemoveAt(s, i) = c
  BY <1>4
<1> HIDE DEF c
<1>8. ASSUME NEW k \in 1 .. Len(s), k # i  PROVE c[Kept(i, k)] = s[k]
  <2>1. CASE k < i
    <3>1. Kept(i, k) = k /\ k \in 1 .. i - 1 /\ k \in 1 .. Len(a) + Len(b) /\ k <= Len(a)
      BY <1>1, <1>2, <1>3, <2>1 DEF Kept
    <3> QED BY <1>2, <1>6, <3>1
  <2>2. CASE k > i
    <3>1. /\ Kept(i, k) = k - 1 /\ k - i \in 1 .. Len(s) - i
          /\ k - 1 \in 1 .. Len(a) + Len(b) /\ ~(k - 1 <= Len(a))
          /\ (k - 1) - Len(a) = k - i /\ i + (k - i) = k
      BY <1>1, <1>2, <1>3, <2>2 DEF Kept
    <3>2. c[k - 1] = b[(k - 1) - Len(a)]
      BY <1>6, <3>1
    <3>3. b[k - i] = s[i + (k - i)]
      BY <1>3, <3>1
    <3> QED BY <3>1, <3>2, <3>3
  <2> QED BY <1>1, <1>8, <2>1, <2>2
<1>9. Len(a) + Len(b) = Len(s) - 1
  BY <1>1, <1>2, <1>3
<1> QED BY <1>5, <1>7, <1>8, <1>9

\* The error that is left: every other layer, a place further up past the one that is
\* off, and a join around that one a layer shorter.
LEMMA WithoutLayers ==
  ASSUME NEW e \in Error, NEW i \in DOMAIN e, NEW w, w = Without(e, i)
  PROVE  /\ w \in Error
         /\ Len(w) = Len(e) - 1
         /\ \A k \in DOMAIN e : k # i =>
              /\ w[Kept(i, k)].kind = e[k].kind
              /\ w[Kept(i, k)].dur = IF k < i /\ Covers(e, k, i) THEN e[k].dur - 1 ELSE e[k].dur
              /\ e[k].kind # "join" => w[Kept(i, k)] = e[k]
<1> DEFINE shrunk == [j \in DOMAIN e |->
                        IF e[j].kind = "join" /\ j < i /\ i <= j + e[j].dur
                          THEN [e[j] EXCEPT !.dur = @ - 1] ELSE e[j]]
<1>1. /\ Len(e) \in Nat /\ DOMAIN e = 1 .. Len(e) /\ i \in 1 .. Len(e)
      /\ \A k \in 1 .. Len(e) : e[k] \in LayerSet
  BY ErrorParts
<1>2. ASSUME NEW k \in 1 .. Len(e)
      PROVE  /\ shrunk[k] \in LayerSet /\ shrunk[k].kind = e[k].kind
             /\ shrunk[k].dur = IF k < i /\ Covers(e, k, i) THEN e[k].dur - 1 ELSE e[k].dur
             /\ e[k].kind # "join" => shrunk[k] = e[k]
  <2>1. e[k] \in LayerSet
    BY <1>1
  <2>2. CASE e[k].kind = "join" /\ k < i /\ i <= k + e[k].dur
    <3>1. shrunk[k] = [e[k] EXCEPT !.dur = @ - 1]
      BY <1>1, <2>2
    <3> HIDE DEF shrunk
    <3> QED BY <2>1, <2>2, <3>1 DEF LayerSet, Covers
  <2>3. CASE ~(e[k].kind = "join" /\ k < i /\ i <= k + e[k].dur)
    <3>1. shrunk[k] = e[k]
      BY <1>1, <2>3
    <3> HIDE DEF shrunk
    <3> QED BY <2>1, <2>3, <3>1 DEF Covers
  <2> QED BY <2>2, <2>3
<1>3. shrunk \in Seq(LayerSet) /\ Len(shrunk) = Len(e)
  <2>1. shrunk \in [1 .. Len(e) -> LayerSet]
    <3>1. DOMAIN shrunk = 1 .. Len(e) /\ shrunk = [k \in 1 .. Len(e) |-> shrunk[k]]
      BY <1>1
    <3> HIDE DEF shrunk
    <3> QED BY <1>2, <3>1
  <2> HIDE DEF shrunk
  <2> QED BY <1>1, <2>1
<1>4. w = RemoveAt(shrunk, i)
  BY DEF Without
<1> HIDE DEF shrunk
<1>5. /\ w \in Seq(LayerSet) /\ Len(w) = Len(e) - 1
      /\ \A k \in 1 .. Len(e) : k # i => w[Kept(i, k)] = shrunk[k]
  <2>1. i \in 1 .. Len(shrunk)
    BY <1>1, <1>3
  <2>2. /\ RemoveAt(shrunk, i) \in Seq(LayerSet) /\ Len(RemoveAt(shrunk, i)) = Len(shrunk) - 1
        /\ \A k \in 1 .. Len(shrunk) : k # i => RemoveAt(shrunk, i)[Kept(i, k)] = shrunk[k]
    BY <1>3, <2>1, ElementOff
  <2> QED BY <1>3, <1>4, <2>2
<1> QED BY <1>1, <1>2, <1>5 DEF Error, LayerSet

\* The same, of one of them.
LEMMA LayerKept ==
  ASSUME NEW e \in Error, NEW i \in DOMAIN e, NEW w, w = Without(e, i),
         NEW k \in DOMAIN e, k # i
  PROVE  /\ w[Kept(i, k)].kind = e[k].kind
         /\ w[Kept(i, k)].dur = IF k < i /\ Covers(e, k, i) THEN e[k].dur - 1 ELSE e[k].dur
         /\ e[k].kind # "join" => w[Kept(i, k)] = e[k]
BY WithoutLayers

\* Every other layer wraps what it did.
LEMMA EndWithout ==
  ASSUME NEW e \in Error, NEW i \in DOMAIN e, e[i].kind # "join", NEW w, w = Without(e, i),
         NEW k \in DOMAIN e, k # i
  PROVE  /\ Kept(i, k) \in DOMAIN w
         /\ EndOf(w, Kept(i, k)) = Kept(i, EndOf(e, k))
<1> DEFINE p == Kept(i, k)
           m == EndOf(e, k)
           q == EndOf(w, p)
<1>1. /\ w \in Error /\ Len(w) = Len(e) - 1 /\ DOMAIN w = 1 .. Len(e) - 1
      /\ Len(e) \in Nat /\ DOMAIN e = 1 .. Len(e) /\ i \in 1 .. Len(e) /\ k \in 1 .. Len(e)
      /\ \A j \in 1 .. Len(e) : e[j].dur \in Int
  <2>1. w \in Error /\ Len(w) = Len(e) - 1
    BY WithoutLayers
  <2>2. /\ Len(e) \in Nat /\ DOMAIN e = 1 .. Len(e) /\ DOMAIN w = 1 .. Len(w)
        /\ \A j \in 1 .. Len(e) : e[j].dur \in Int
    BY <2>1, ErrorParts DEF LayerSet
  <2> QED BY <2>1, <2>2
<1>2. ASSUME NEW j \in 1 .. k - 1, j # i
      PROVE  /\ Kept(i, j) \in 1 .. p - 1
             /\ Covers(w, Kept(i, j), p) <=> Covers(e, j, k)
             /\ Covers(e, j, k) => Kept(i, j) + w[Kept(i, j)].dur = Kept(i, j + e[j].dur)
  <2> DEFINE d == e[j].dur   d0 == w[Kept(i, j)].dur
  <2>1. j \in DOMAIN e /\ d \in Int
    BY <1>1
  <2>2. /\ w[Kept(i, j)].kind = e[j].kind
        /\ d0 = IF j < i /\ Covers(e, j, i) THEN d - 1 ELSE d
    BY <1>2, <2>1, LayerKept
  <2>3. Kept(i, j) \in 1 .. p - 1
    BY <1>1, <1>2 DEF Kept
  <2>4. CASE e[j].kind # "join"
    BY <2>2, <2>3, <2>4 DEF Covers
  <2>5. CASE e[j].kind = "join"
    <3>1. d0 = IF j < i /\ i <= j + d THEN d - 1 ELSE d
      BY <2>2, <2>5 DEF Covers
    <3>2. (Covers(w, Kept(i, j), p) <=> p <= Kept(i, j) + d0) /\ (Covers(e, j, k) <=> k <= j + d)
      BY <2>2, <2>5 DEF Covers
    <3> HIDE DEF d, d0
    <3>3. /\ Kept(i, k) <= Kept(i, j) + d0 <=> k <= j + d
          /\ k <= j + d => Kept(i, j) + d0 = Kept(i, j + d)
      <4>1. d0 \in Int /\ i \in Nat /\ j \in Nat /\ k \in Nat /\ j < k
        BY <1>1, <2>1, <3>1
      <4> QED BY <1>2, <2>1, <3>1, <4>1 DEF Kept
    <3> QED BY <2>3, <3>2, <3>3 DEF d, d0
  <2> QED BY <2>4, <2>5
<1>3. /\ m \in k .. Len(e) /\ p \in 1 .. Len(e) - 1
      /\ \A j \in 1 .. k - 1 : Covers(e, j, k) => m <= j + e[j].dur
      /\ m = Len(e) \/ \E j \in 1 .. k - 1 : Covers(e, j, k) /\ m = j + e[j].dur
  <2>1. p \in 1 .. Len(e) - 1
    BY <1>1 DEF Kept
  <2> HIDE DEF p
  <2> QED BY <2>1, EndBounds
<1>4. /\ q \in p .. Len(w)
      /\ \A j \in 1 .. p - 1 : Covers(w, j, p) => q <= j + w[j].dur
      /\ q = Len(w) \/ \E j \in 1 .. p - 1 : Covers(w, j, p) /\ q = j + w[j].dur
  <2> HIDE DEF p
  <2> QED BY <1>1, <1>3, EndBounds
<1> HIDE DEF p, m, q
<1>5. \A x, y \in Int : x <= y => Kept(i, x) <= Kept(i, y)
  BY <1>1 DEF Kept
<1>6. q <= Kept(i, m)
  <2>1. CASE m = Len(e)
    BY <1>1, <1>4, <2>1 DEF Kept
  <2>2. ASSUME NEW j \in 1 .. k - 1, Covers(e, j, k), m = j + e[j].dur  PROVE q <= Kept(i, m)
    <3>1. j # i
      BY <2>2 DEF Covers
    <3> QED BY <1>2, <1>4, <2>2, <3>1
  <2> QED BY <1>3, <2>1, <2>2
<1>7. Kept(i, m) <= q
  <2>1. CASE q = Len(w)
    <3>1. Kept(i, m) <= Kept(i, Len(e)) /\ Kept(i, Len(e)) = Len(e) - 1
      BY <1>1, <1>3, <1>5 DEF Kept
    <3> QED BY <1>1, <2>1, <3>1
  <2>2. ASSUME NEW l \in 1 .. p - 1, Covers(w, l, p), q = l + w[l].dur  PROVE Kept(i, m) <= q
    <3> DEFINE j == IF l < i THEN l ELSE l + 1
    <3>1. j \in 1 .. k - 1 /\ j # i /\ Kept(i, j) = l
      <4>1. l \in Int /\ l >= 1 /\ l < p /\ p = IF k < i THEN k ELSE k - 1
        BY <1>3, <2>2 DEF Kept, p
      <4>2. k \in Int /\ i \in Int /\ k # i
        BY <1>1
      <4> QED BY <4>1, <4>2 DEF Kept
    <3> HIDE DEF j
    <3>2. Covers(e, j, k) /\ q = Kept(i, j + e[j].dur)
      BY <1>2, <2>2, <3>1
    <3>3. m <= j + e[j].dur /\ j + e[j].dur \in Int /\ m \in Int
      <4>1. m <= j + e[j].dur
        BY <1>3, <3>1, <3>2
      <4>2. j \in 1 .. Len(e) /\ m \in Int
        BY <1>1, <1>3, <3>1
      <4> QED BY <1>1, <4>1, <4>2
    <3>4. Kept(i, m) <= Kept(i, j + e[j].dur)
      BY <1>5, <3>3
    <3> QED BY <3>2, <3>4
  <2> QED BY <1>4, <2>1, <2>2
<1>8. Kept(i, m) \in Int /\ q \in Int
  BY <1>1, <1>3, <1>4 DEF Kept
<1>9. q = Kept(i, m)
  BY <1>6, <1>7, <1>8
<1> QED BY <1>1, <1>3, <1>9 DEF q, p, m

\* A place in the error that is left is some other layer's.
LEMMA PlaceKept ==
  ASSUME NEW e \in Error, NEW i \in DOMAIN e, NEW w, w = Without(e, i), NEW l \in DOMAIN w
  PROVE  \E k \in DOMAIN e : k # i /\ Kept(i, k) = l
<1>1. w \in Error /\ Len(w) = Len(e) - 1
  BY WithoutLayers
<1>2. Len(e) \in Nat /\ DOMAIN e = 1 .. Len(e) /\ DOMAIN w = 1 .. Len(w)
  BY <1>1, ErrorParts
<1> DEFINE k == IF l < i THEN l ELSE l + 1
<1>3. l \in 1 .. Len(e) - 1 /\ i \in 1 .. Len(e)
  BY <1>1, <1>2
<1>4. k \in 1 .. Len(e) /\ k # i /\ Kept(i, k) = l
  BY <1>2, <1>3 DEF Kept
<1> QED BY <1>2, <1>4

\* What an error is, asked of kinds the layer taken off is not of, it stays, and the
\* first layer of them is the first.
LEMMA KindsWithout ==
  ASSUME NEW e \in Error, NEW i \in DOMAIN e, NEW w, w = Without(e, i),
         NEW kinds, e[i].kind \notin kinds
  PROVE  /\ Is(w, kinds) <=> Is(e, kinds)
         /\ Is(e, kinds) => First(e, kinds) # i /\ First(w, kinds) = Kept(i, First(e, kinds))
<1>1. w \in Error /\ Len(w) = Len(e) - 1
  BY WithoutLayers
<1>2. /\ Len(e) \in Nat /\ DOMAIN e = 1 .. Len(e) /\ DOMAIN w = 1 .. Len(w)
      /\ i \in 1 .. Len(e)
  BY <1>1, ErrorParts
<1>3. ASSUME NEW k \in DOMAIN e, k # i
      PROVE  Kept(i, k) \in DOMAIN w /\ w[Kept(i, k)].kind = e[k].kind
  <2>1. Kept(i, k) \in 1 .. Len(e) - 1
    BY <1>2, <1>3 DEF Kept
  <2> QED BY <1>1, <1>2, <1>3, <2>1, LayerKept
<1>4. ASSUME NEW l \in DOMAIN w
      PROVE  \E k \in DOMAIN e : k # i /\ Kept(i, k) = l
  BY PlaceKept
<1>5. Is(w, kinds) <=> Is(e, kinds)
  <2>1. ASSUME Is(e, kinds)  PROVE Is(w, kinds)
    <3>1. PICK k \in DOMAIN e : e[k].kind \in kinds
      BY <2>1 DEF Is
    <3>2. k # i
      BY <3>1
    <3> QED BY <1>3, <3>1, <3>2 DEF Is
  <2>2. ASSUME Is(w, kinds)  PROVE Is(e, kinds)
    <3>1. PICK l \in DOMAIN w : w[l].kind \in kinds
      BY <2>2 DEF Is
    <3>2. PICK k \in DOMAIN e : k # i /\ Kept(i, k) = l
      BY <1>4
    <3> QED BY <1>3, <3>1, <3>2 DEF Is
  <2> QED BY <2>1, <2>2
<1>6. ASSUME Is(e, kinds)
      PROVE  First(e, kinds) # i /\ First(w, kinds) = Kept(i, First(e, kinds))
  <2> DEFINE m == First(e, kinds)
             p == First(w, kinds)
  <2>1. m \in DOMAIN e /\ e[m].kind \in kinds /\ \A j \in 1 .. m - 1 : e[j].kind \notin kinds
    BY <1>6, FirstExists
  <2>2. p \in DOMAIN w /\ w[p].kind \in kinds /\ \A j \in 1 .. p - 1 : w[j].kind \notin kinds
    BY <1>1, <1>5, <1>6, FirstExists
  <2> HIDE DEF m, p
  <2>3. m # i /\ Kept(i, m) \in DOMAIN w /\ w[Kept(i, m)].kind \in kinds
    BY <1>3, <2>1
  <2>4. PICK k \in DOMAIN e : k # i /\ Kept(i, k) = p
    BY <1>4, <2>2
  <2>5. e[k].kind \in kinds
    BY <1>3, <2>2, <2>4
  <2>6. m <= k /\ p <= Kept(i, m)
    BY <1>2, <2>1, <2>2, <2>3, <2>5
  <2>7. p = Kept(i, m)
    BY <1>2, <2>1, <2>3, <2>4, <2>6 DEF Kept
  <2> QED BY <2>3, <2>7 DEF m, p
<1> QED BY <1>5, <1>6

Marks == {"permanent", "markTransient", "attemptTimeout"}

\* A mark neither times out nor asks, so no layer above it answers a timeout through
\* it: without it, one that asks may, and then the layer right above it does.
LEMMA TimeoutWithout ==
  ASSUME NEW e \in Error, NEW i \in DOMAIN e, e[i].kind \in Marks, NEW w, w = Without(e, i),
         NEW at \in DOMAIN e, at # i
  PROVE  /\ Timeout(e)[at] => Timeout(w)[Kept(i, at)]
         /\ Timeout(w)[Kept(i, at)] /\ ~Timeout(e)[at] =>
              at < i /\ e[i - 1].kind \in {"url", "netOp", "dns"}
<1> DEFINE Follows(k) == /\ Timeout(e)[k] => Timeout(w)[Kept(i, k)]
                         /\ Timeout(w)[Kept(i, k)] /\ ~Timeout(e)[k] =>
                              k < i /\ e[i - 1].kind \in {"url", "netOp", "dns"}
           Wrong == {k \in DOMAIN e : k # i /\ ~Follows(k)}
           rests == {Len(e) - k : k \in Wrong}
<1>1. w \in Error /\ Len(w) = Len(e) - 1
  BY WithoutLayers
<1>2. /\ Len(e) \in Nat /\ DOMAIN e = 1 .. Len(e) /\ DOMAIN w = 1 .. Len(w)
      /\ i \in 1 .. Len(e)
  BY <1>1, ErrorParts
<1>3. e[i].kind # "join" /\ ~TimesOut(e, i) /\ ~Asks(e, i)
  BY DEF Marks, TimesOut, Asks
<1>4. ASSUME NEW k \in DOMAIN e, k # i
      PROVE  /\ Kept(i, k) \in DOMAIN w /\ w[Kept(i, k)].kind = e[k].kind
             /\ EndOf(w, Kept(i, k)) = Kept(i, EndOf(e, k)) /\ EndOf(e, k) \in k .. Len(e)
  <2>1. w[Kept(i, k)].kind = e[k].kind
    BY <1>4, LayerKept
  <2>2. Kept(i, k) \in DOMAIN w /\ EndOf(w, Kept(i, k)) = Kept(i, EndOf(e, k))
    BY <1>3, <1>4, EndWithout
  <2> QED BY <2>1, <2>2, EndWithin
<1>5. Wrong = {}
  <2> SUFFICES ASSUME Wrong # {}  PROVE FALSE
    OBVIOUS
  <2>1. rests \in SUBSET Nat /\ rests # {}
    BY <1>2
  <2>2. PICK r \in rests : \A q \in rests : r <= q
    <3> HIDE DEF rests
    <3> QED BY <2>1, LeastNatural
  <2>3. PICK k \in Wrong : r = Len(e) - k
    OBVIOUS
  <2>4. k + 1 \notin Wrong
    <3> SUFFICES ASSUME k + 1 \in Wrong  PROVE FALSE
      OBVIOUS
    <3>1. Len(e) - (k + 1) \in rests
      OBVIOUS
    <3>2. k \in 1 .. Len(e)
      BY <1>2
    <3>3. r <= Len(e) - (k + 1)
      BY <2>2, <3>1
    <3> HIDE DEF Wrong, rests
    <3> QED BY <1>2, <2>3, <3>2, <3>3
  <2>5. k \in DOMAIN e /\ k # i /\ ~Follows(k)
    OBVIOUS
  <2>6. k + 1 \in DOMAIN e /\ k + 1 # i => Follows(k + 1)
    BY <2>4
  <2> HIDE DEF Wrong, Follows
  <2> DEFINE l == Kept(i, k)
  <2>7. Timeout(e)[k] <=> TimesOut(e, k) \/ (Asks(e, k) /\ Timeout(e)[k + 1])
    BY <2>5, TimeoutUnrolled
  <2>8. Timeout(w)[l] <=> TimesOut(w, l) \/ (Asks(w, l) /\ Timeout(w)[l + 1])
    BY <1>1, <1>4, <2>5, TimeoutUnrolled
  <2>9. /\ TimesOut(w, l) <=> TimesOut(e, k)
        /\ Asks(w, l) => e[k].kind \in {"url", "netOp", "dns"}
    BY <1>4, <2>5 DEF TimesOut, Asks
  <2>10. CASE k + 1 = i
    <3>1. ~Timeout(e)[k + 1]
      BY <1>3, <2>10, TimeoutUnrolled
    <3>2. k < i /\ i - 1 = k
      BY <1>2, <2>5, <2>10
    <3> QED BY <2>5, <2>7, <2>8, <2>9, <3>1, <3>2 DEF Follows
  <2>11. CASE k + 1 # i
    <3>1. l + 1 = Kept(i, k + 1)
      BY <1>2, <2>5, <2>11 DEF Kept
    <3>2. l < Kept(i, EndOf(e, k)) <=> k < EndOf(e, k)
      BY <1>2, <1>4, <2>5, <2>11 DEF Kept
    <3>3. Asks(w, l) <=> Asks(e, k)
      BY <1>4, <2>5, <3>2 DEF Asks
    <3>4. Asks(e, k) => Follows(k + 1)
      <4>1. Asks(e, k) => k + 1 \in DOMAIN e
        BY <1>2, <1>4, <2>5 DEF Asks
      <4> QED BY <2>6, <2>11, <4>1
    <3>5. k + 1 < i => k < i
      BY <1>2, <2>5
    <3> QED BY <2>5, <2>7, <2>8, <2>9, <3>1, <3>3, <3>4, <3>5 DEF Follows
  <2> QED BY <2>10, <2>11
<1> QED BY <1>5

\* A timeout stays one, and one that shows only then was under the mark.
LEMMA IsTimeoutWithout ==
  ASSUME NEW e \in Error, NEW i \in DOMAIN e, e[i].kind \in Marks, NEW w, w = Without(e, i)
  PROVE  /\ isTimeout(e) => isTimeout(w)
         /\ isTimeout(w) /\ ~isTimeout(e) => i > 1 /\ e[i - 1].kind \in {"url", "netOp", "dns"}
<1>1. e[i].kind \notin NetErrors
  BY DEF Marks, NetErrors
<1> DEFINE m == First(e, NetErrors)
<1>2. /\ Is(w, NetErrors) <=> Is(e, NetErrors)
      /\ Is(e, NetErrors) => m # i /\ First(w, NetErrors) = Kept(i, m)
  BY <1>1, KindsWithout
<1>3. ASSUME Is(e, NetErrors)
      PROVE  /\ Timeout(e)[m] => Timeout(w)[Kept(i, m)]
             /\ Timeout(w)[Kept(i, m)] /\ ~Timeout(e)[m] =>
                  i > 1 /\ e[i - 1].kind \in {"url", "netOp", "dns"}
  <2>1. m \in DOMAIN e
    BY <1>3, FirstExists
  <2>2. m \in Int /\ i \in Int /\ m >= 1
    BY <2>1, ErrorParts
  <2> HIDE DEF m
  <2>3. /\ Timeout(e)[m] => Timeout(w)[Kept(i, m)]
        /\ Timeout(w)[Kept(i, m)] /\ ~Timeout(e)[m] =>
             m < i /\ e[i - 1].kind \in {"url", "netOp", "dns"}
    BY <1>2, <1>3, <2>1, TimeoutWithout
  <2> QED BY <2>2, <2>3
<1> QED BY <1>2, <1>3 DEF isTimeout

\* io.EOF is a value: whatever else the error holds, nothing is below it.
EOFIsLeaf(e) == \A k \in DOMAIN e : e[k].kind = "eof" => EndOf(e, k) = k

\* What a layer wraps is one layer and no more.
LEMMA BelowIsOne ==
  ASSUME NEW e \in Error, NEW p \in DOMAIN e, NEW x \in LayerSet
  PROVE  Below(e, p) = <<x>> <=> EndOf(e, p) = p + 1 /\ e[p + 1] = x
<1> DEFINE m == EndOf(e, p)
           b == Below(e, p)
<1>1. m \in p .. Len(e) /\ p \in 1 .. Len(e) /\ Len(e) \in Nat
  BY ErrorParts, EndWithin
<1>2. /\ b \in Error /\ Len(b) = m - p
      /\ \A k \in 1 .. m - p : b[k] = e[p + k]
  BY BelowParts
<1>3. /\ b \in Seq(LayerSet) /\ Len(b) = m - p
      /\ \A k \in 1 .. m - p : b[k] = e[p + k]
  BY <1>2 DEF Error, LayerSet
<1> HIDE DEF m
<1> HIDE DEF b
<1> DEFINE n == Len(b)
<1>7. m \in Int /\ p \in Int /\ n = m - p
  BY <1>1, <1>3
<1> HIDE DEF n
<1> DEFINE one == <<x>>
<1>6. one \in Seq(LayerSet) /\ Len(one) = 1 /\ one[1] = x
  OBVIOUS
<1> HIDE DEF one
<1>4. ASSUME b = one  PROVE m = p + 1 /\ e[p + 1] = x
  <2>1. n = 1 /\ b[1] = x
    BY <1>4, <1>6 DEF n
  <2>2. m = p + 1
    BY <1>7, <2>1
  <2>3. 1 \in 1 .. m - p
    BY <1>7, <2>2
  <2>4. b[1] = e[p + 1]
    BY <1>3, <2>3
  <2> QED BY <2>1, <2>2, <2>4
<1>5. ASSUME m = p + 1, e[p + 1] = x  PROVE b = one
  <2>1. m - p = 1 /\ n = 1
    BY <1>5, <1>7
  <2>2. b[1] = x
    BY <1>3, <1>5, <2>1
  <2>3. Len(b) = Len(one) /\ \A k \in 1 .. Len(b) : k = 1
    BY <1>6, <2>1 DEF n
  <2>4. \A k \in 1 .. Len(b) : b[k] = one[k]
    BY <1>6, <2>2, <2>3
  <2> QED BY <1>3, <1>6, <2>3, <2>4, SeqEqual
<1> QED BY <1>4, <1>5 DEF m, one, b

\* A hang-up stays one, and one that shows only then was under the mark.
LEMMA IsResetWithout ==
  ASSUME NEW e \in Error, EOFIsLeaf(e),
         NEW i \in DOMAIN e, e[i].kind \in Marks, NEW w, w = Without(e, i)
  PROVE  /\ isReset(e) => isReset(w)
         /\ isReset(w) /\ ~isReset(e) => i > 1 /\ e[i - 1].kind = "url"
<1> DEFINE eof == Layer("eof")
           p   == First(e, {"url"})
           m   == EndOf(e, p)
<1>1. w \in Error /\ Len(w) = Len(e) - 1
  BY WithoutLayers
<1>2. /\ Len(e) \in Nat /\ DOMAIN e = 1 .. Len(e) /\ DOMAIN w = 1 .. Len(w)
      /\ i \in 1 .. Len(e)
  BY <1>1, ErrorParts
<1>3. eof \in LayerSet /\ eof.kind = "eof" /\ e[i].kind \notin {"join", "eof"}
  BY DEF Layer, LayerSet, Kinds, OwnKinds, LibraryKinds, Marks
<1>4. /\ Is(w, {"serverClosed", "reset", "unexpectedEOF"})
           <=> Is(e, {"serverClosed", "reset", "unexpectedEOF"})
      /\ Is(w, {"url"}) <=> Is(e, {"url"})
      /\ Is(e, {"url"}) => p # i /\ First(w, {"url"}) = Kept(i, p)
  BY KindsWithout DEF Marks
<1> HIDE DEF eof, p
<1>5. ASSUME Is(e, {"url"})
      PROVE  /\ Below(e, p) = <<eof>> => Below(w, Kept(i, p)) = <<eof>>
             /\ Below(w, Kept(i, p)) = <<eof>> /\ Below(e, p) # <<eof>> =>
                  i > 1 /\ e[i - 1].kind = "url"
  <2>1. p \in 1 .. Len(e) /\ e[p].kind = "url" /\ p # i
    BY <1>2, <1>4, <1>5, FirstExists DEF p
  <2>2. /\ m \in p .. Len(e)
        /\ \A j \in 1 .. p - 1 : Covers(e, j, p) => m <= j + e[j].dur
    BY <1>2, <2>1, EndBounds
  <2>3. Kept(i, p) \in DOMAIN w /\ EndOf(w, Kept(i, p)) = Kept(i, m)
    BY <1>2, <1>3, <2>1, EndWithout
  <2>4. Below(e, p) = <<eof>> <=> m = p + 1 /\ e[p + 1] = eof
    BY <1>2, <1>3, <2>1, BelowIsOne
  <2> HIDE DEF m
  <2>5. Below(w, Kept(i, p)) = <<eof>> <=>
          Kept(i, m) = Kept(i, p) + 1 /\ w[Kept(i, p) + 1] = eof
    BY <1>1, <1>3, <2>3, BelowIsOne
  <2>6. ASSUME NEW k \in DOMAIN e, k # i, e[k] = eof \/ w[Kept(i, k)] = eof
        PROVE  w[Kept(i, k)] = eof /\ e[k] = eof
    <3>1. w[Kept(i, k)].kind = e[k].kind /\ (e[k].kind # "join" => w[Kept(i, k)] = e[k])
      BY <2>6, LayerKept
    <3> QED BY <1>3, <2>6, <3>1
  <2>7. ASSUME m = p + 1, e[p + 1] = eof
        PROVE  Kept(i, m) = Kept(i, p) + 1 /\ w[Kept(i, p) + 1] = eof
    <3>1. p + 1 \in DOMAIN e /\ p + 1 # i
      BY <1>2, <1>3, <2>1, <2>2, <2>7
    <3>2. w[Kept(i, p + 1)] = eof
      BY <2>6, <2>7, <3>1
    <3>3. Kept(i, p + 1) = Kept(i, p) + 1
      BY <1>2, <2>1, <3>1 DEF Kept
    <3> QED BY <2>7, <3>2, <3>3
  <2>8. ASSUME Kept(i, m) = Kept(i, p) + 1, w[Kept(i, p) + 1] = eof,
               ~(m = p + 1 /\ e[p + 1] = eof), i # p + 1
        PROVE  FALSE
    <3>1. CASE m = p + 1
      <4>1. p + 1 \in DOMAIN e /\ p + 1 # i /\ Kept(i, p + 1) = Kept(i, p) + 1
        BY <1>2, <2>1, <2>2, <2>8, <3>1 DEF Kept
      <4> QED BY <2>6, <2>8, <3>1, <4>1
    <3>2. CASE m # p + 1
      <4>1. i = p + 2 /\ m = p + 2
        BY <1>2, <2>1, <2>2, <2>8, <3>2 DEF Kept
      <4>2. p + 1 \in DOMAIN e /\ p + 1 # i /\ Kept(i, p + 1) = Kept(i, p) + 1
        BY <1>2, <2>1, <2>2, <4>1 DEF Kept
      <4>3. e[p + 1] = eof
        BY <2>6, <2>8, <4>2
      <4>4. EndOf(e, p + 1) = p + 1
        <5>1. e[p + 1].kind = "eof"
          BY <1>3, <4>3
        <5> QED BY <4>2, <5>1 DEF EOFIsLeaf
      <4>5. p + 1 # Len(e)
        <5>1. m <= Len(e) /\ p \in Int /\ Len(e) \in Int
          BY <1>2, <2>1, <2>2
        <5>2. p + 2 <= Len(e)
          BY <4>1, <5>1
        <5> QED BY <5>1, <5>2
      <4>6. PICK j \in 1 .. p : Covers(e, j, p + 1) /\ p + 1 = j + e[j].dur
        <5>1. (p + 1) - 1 = p
          BY <2>1
        <5>2. \E j \in 1 .. (p + 1) - 1 : Covers(e, j, p + 1) /\ p + 1 = j + e[j].dur
          BY <4>2, <4>4, <4>5, EndBounds
        <5> QED BY <5>1, <5>2
      <4>7. j \in 1 .. p - 1 /\ Covers(e, j, p)
        <5>1. j # p
          BY <2>1, <4>6 DEF Covers
        <5>2. j + e[j].dur = p + 1 /\ p <= p + 1 /\ e[j].kind = "join"
          BY <2>1, <4>6 DEF Covers
        <5> QED BY <2>1, <5>1, <5>2 DEF Covers
      <4>8. m <= p + 1
        BY <2>2, <4>6, <4>7
      <4> QED BY <2>1, <4>1, <4>8
    <3> QED BY <3>1, <3>2
  <2>9. i = p + 1 => i > 1 /\ e[i - 1].kind = "url"
    BY <2>1
  <2> QED BY <2>4, <2>5, <2>7, <2>8, <2>9
<1>6. /\ isReset(e) <=> \/ Is(e, {"url"}) /\ Below(e, p) = <<eof>>
                        \/ Is(e, {"serverClosed", "reset", "unexpectedEOF"})
      /\ isReset(w) <=> \/ Is(w, {"url"}) /\ Below(w, First(w, {"url"})) = <<eof>>
                        \/ Is(w, {"serverClosed", "reset", "unexpectedEOF"})
  BY DEF isReset, p, eof
<1> QED BY <1>4, <1>5, <1>6

\* The causes are looked for in their order.
LEMMA CauseInOrder ==
  ASSUME NEW e
  PROVE  CauseOf(e) = IF Is(e, {"tooLarge"}) THEN "too_large"
                      ELSE IF Is(e, {"tls"}) THEN "tls"
                      ELSE IF Is(e, {"dns"}) THEN "dns"
                      ELSE IF Is(e, {"refused"}) THEN "refused"
                      ELSE IF isReset(e) THEN "reset"
                      ELSE IF isTimeout(e) THEN "timeout" ELSE "unknown"
<1> DEFINE found == {i \in DOMAIN Causes : HasCause(e)[Causes[i]]}
<1>0. /\ Causes[1] = "too_large" /\ Causes[2] = "tls" /\ Causes[3] = "dns"
      /\ Causes[4] = "refused" /\ Causes[5] = "reset" /\ Causes[6] = "timeout"
      /\ DOMAIN Causes = {1, 2, 3, 4, 5, 6}
  BY DEF Causes
<1>1. /\ (1 \in found <=> Is(e, {"tooLarge"})) /\ (2 \in found <=> Is(e, {"tls"}))
      /\ (3 \in found <=> Is(e, {"dns"}))      /\ (4 \in found <=> Is(e, {"refused"}))
      /\ (5 \in found <=> isReset(e))          /\ (6 \in found <=> isTimeout(e))
      /\ found \subseteq {1, 2, 3, 4, 5, 6}
  <2>3. /\ HasCause(e)["too_large"] = Is(e, {"tooLarge"})
        /\ HasCause(e)["tls"] = Is(e, {"tls"})
        /\ HasCause(e)["dns"] = Is(e, {"dns"})
        /\ HasCause(e)["refused"] = Is(e, {"refused"})
        /\ HasCause(e)["reset"] = isReset(e)
        /\ HasCause(e)["timeout"] = isTimeout(e)
    BY Zenon DEF HasCause
  <2> QED BY <1>0, <2>3
<1>2. CauseOf(e) = IF found = {} THEN "unknown"
                   ELSE Causes[CHOOSE i \in found : \A j \in found : i <= j]
  BY DEF CauseOf
<1> HIDE DEF found
<1>3. CASE found = {}
  BY <1>1, <1>2, <1>3
<1>4. ASSUME NEW m \in found, \A j \in found : m <= j
      PROVE  CauseOf(e) = Causes[m]
  <2> DEFINE c == CHOOSE i \in found : \A j \in found : i <= j
  <2>1. c \in found /\ \A j \in found : c <= j
    BY <1>4
  <2> HIDE DEF c
  <2>2. c \in {1, 2, 3, 4, 5, 6} /\ m \in {1, 2, 3, 4, 5, 6} /\ c <= m /\ m <= c
    BY <1>1, <1>4, <2>1
  <2>3. c = m /\ found # {}
    BY <2>2
  <2> QED BY <1>2, <2>3 DEF c
<1>5. CASE found # {}
  <2>1. found \in SUBSET Nat
    BY <1>1
  <2>2. PICK m \in found : \A j \in found : m <= j
    BY <1>5, <2>1, LeastNatural
  <2>3. CauseOf(e) = Causes[m] /\ m \in {1, 2, 3, 4, 5, 6}
    BY <1>1, <1>4, <2>2
  <2>4. \A j \in 1 .. 6 : j < m => j \notin found
    BY <2>2, <2>3
  <2> QED BY <1>0, <1>1, <2>2, <2>3, <2>4
<1> QED BY <1>3, <1>5

\* A mark taken off an error changes its cause only from under a url or net error that
\* it kept from the timeout or the hang-up below it.
LEMMA CauseWithout ==
  ASSUME NEW e \in Error, EOFIsLeaf(e), NEW i \in DOMAIN e, e[i].kind \in Marks
  PROVE  \/ CauseOf(e) = CauseOf(Without(e, i))
         \/ /\ i > 1 /\ e[i - 1].kind \in {"url", "netOp"}
            /\ CauseOf(Without(e, i)) \in {"timeout", "reset"}
<1> DEFINE w == Without(e, i)
<1>1. \A kind \in {"tooLarge", "tls", "dns", "refused"} : Is(w, {kind}) <=> Is(e, {kind})
  <2>1. ASSUME NEW kind \in {"tooLarge", "tls", "dns", "refused"}
        PROVE  Is(w, {kind}) <=> Is(e, {kind})
    <3>1. e[i].kind \notin {kind}
      BY DEF Marks
    <3> QED BY <3>1, KindsWithout
  <2> QED BY <2>1
<1>2. /\ isReset(e) => isReset(w)
      /\ isReset(w) /\ ~isReset(e) => i > 1 /\ e[i - 1].kind = "url"
  BY IsResetWithout
<1>3. /\ isTimeout(e) => isTimeout(w)
      /\ isTimeout(w) /\ ~isTimeout(e) => i > 1 /\ e[i - 1].kind \in {"url", "netOp", "dns"}
  BY IsTimeoutWithout
<1> HIDE DEF w
<1>4. i > 1 /\ e[i - 1].kind = "dns" => Is(e, {"dns"})
  <2>1. i > 1 => i - 1 \in DOMAIN e
    BY ErrorParts
  <2> QED BY <2>1 DEF Is
<1>5. CASE Is(e, {"tooLarge"}) \/ Is(e, {"tls"}) \/ Is(e, {"dns"}) \/ Is(e, {"refused"})
  <2>1. CauseOf(e) = CauseOf(w)
    BY <1>1, <1>5, CauseInOrder
  <2> QED BY <2>1 DEF w
<1>6. CASE ~(Is(e, {"tooLarge"}) \/ Is(e, {"tls"}) \/ Is(e, {"dns"}) \/ Is(e, {"refused"}))
  <2>1. /\ CauseOf(e) = IF isReset(e) THEN "reset" ELSE IF isTimeout(e) THEN "timeout" ELSE "unknown"
        /\ CauseOf(w) = IF isReset(w) THEN "reset" ELSE IF isTimeout(w) THEN "timeout" ELSE "unknown"
    BY <1>1, <1>6, CauseInOrder
  <2> QED BY <1>2, <1>3, <1>4, <1>6, <2>1 DEF w
<1> QED BY <1>5, <1>6

\* Where a layer with nothing below it stands: last of the error, or of a join's first
\* branch.
LastIn(e, k) == k = Len(e) \/ \E j \in 1 .. k - 1 : e[j].kind = "join" /\ j + e[j].dur = k

LEMMA LeafStands ==
  ASSUME NEW e \in Error
  PROVE  EOFIsLeaf(e) <=> \A k \in DOMAIN e : e[k].kind = "eof" => LastIn(e, k)
<1> DEFINE n == Len(e)
<1>1. n \in Nat /\ DOMAIN e = 1 .. n
  BY ErrorParts
<1>2. ASSUME NEW k \in DOMAIN e
      PROVE  /\ EndOf(e, k) \in k .. n
             /\ \A j \in 1 .. k - 1 : Covers(e, j, k) => EndOf(e, k) <= j + e[j].dur
             /\ \/ EndOf(e, k) = n
                \/ \E j \in 1 .. k - 1 : Covers(e, j, k) /\ EndOf(e, k) = j + e[j].dur
  BY EndBounds
<1>3. \A k : LastIn(e, k) <=> k = n \/ \E j \in 1 .. k - 1 : e[j].kind = "join" /\ j + e[j].dur = k
  BY DEF LastIn
<1> HIDE DEF n
<1>4. ASSUME NEW k \in DOMAIN e  PROVE EndOf(e, k) = k <=> LastIn(e, k)
  <2> DEFINE m == EndOf(e, k)
  <2>1. /\ m \in k .. n
        /\ \A j \in 1 .. k - 1 : Covers(e, j, k) => m <= j + e[j].dur
        /\ m = n \/ \E j \in 1 .. k - 1 : Covers(e, j, k) /\ m = j + e[j].dur
    BY <1>2
  <2> HIDE DEF m
  <2>2. k \in Int /\ m \in Int /\ k <= m /\ m <= n
    BY <1>1, <2>1
  <2>3. ASSUME m = k  PROVE LastIn(e, k)
    <3>1. ASSUME NEW j \in 1 .. k - 1, Covers(e, j, k), m = j + e[j].dur
          PROVE  e[j].kind = "join" /\ j + e[j].dur = k
      BY <2>3, <3>1 DEF Covers
    <3> QED BY <1>3, <2>1, <2>3, <3>1
  <2>4. ASSUME k = n  PROVE m = k
    BY <1>1, <2>2, <2>4
  <2>5. ASSUME NEW j \in 1 .. k - 1, e[j].kind = "join", j + e[j].dur = k  PROVE m = k
    <3>1. Covers(e, j, k)
      BY <2>2, <2>5 DEF Covers
    <3>2. m <= k
      BY <2>1, <2>5, <3>1
    <3> QED BY <2>2, <3>2
  <2> QED BY <1>3, <2>3, <2>4, <2>5, Zenon DEF m
<1> QED BY <1>4 DEF EOFIsLeaf

\* A layer put on an error leaves its leaves leaves.
LEMMA LeafBelow ==
  ASSUME NEW x \in LayerSet, x.kind # "eof", NEW e \in Error, EOFIsLeaf(e)
  PROVE  EOFIsLeaf(<<x>> \o e)
<1> DEFINE f == <<x>> \o e
<1>1. /\ f \in Error /\ Len(f) = Len(e) + 1 /\ DOMAIN f = 1 .. Len(e) + 1 /\ f[1] = x
      /\ Len(e) \in Nat /\ DOMAIN e = 1 .. Len(e) /\ \A k \in DOMAIN e : f[k + 1] = e[k]
  BY LayerOnTop, ErrorParts
<1> HIDE DEF f
<1>2. ASSUME NEW k \in DOMAIN f, f[k].kind = "eof"  PROVE LastIn(f, k)
  <2>1. k # 1
    BY <1>1, <1>2
  <2>2. k - 1 \in DOMAIN e /\ (k - 1) + 1 = k
    BY <1>1, <2>1
  <2>3. e[k - 1].kind = "eof"
    BY <1>1, <1>2, <2>2
  <2>4. LastIn(e, k - 1)
    BY <2>2, <2>3, LeafStands
  <2>5. CASE k - 1 = Len(e)
    <3>1. k = Len(f)
      BY <1>1, <2>2, <2>5
    <3> QED BY <3>1 DEF LastIn
  <2>6. ASSUME NEW j \in 1 .. (k - 1) - 1, e[j].kind = "join", j + e[j].dur = k - 1
        PROVE  LastIn(f, k)
    <3>1. j \in DOMAIN e /\ j + 1 \in 1 .. k - 1 /\ k \in Int
      BY <1>1, <2>2
    <3>2. f[j + 1] = e[j] /\ e[j].dur \in Int
      BY <1>1, <3>1, ErrorParts DEF LayerSet
    <3>3. (j + 1) + f[j + 1].dur = k
      BY <2>6, <3>1, <3>2
    <3> QED BY <2>6, <3>1, <3>2, <3>3 DEF LastIn
  <2> QED BY <2>4, <2>5, <2>6 DEF LastIn
<1>3. EOFIsLeaf(f)
  BY <1>1, <1>2, LeafStands
<1> QED BY <1>3 DEF f

\* So is an error of one layer, and nil.
LEMMA LeafAlone == EOFIsLeaf(nil) /\ \A x \in LayerSet : EOFIsLeaf(<<x>>)
<1>1. nil \in Error /\ DOMAIN nil = {}
  BY SmallErrors DEF nil
<1>2. ASSUME NEW x \in LayerSet  PROVE EOFIsLeaf(<<x>>)
  <2> DEFINE e == <<x>>
  <2>1. e \in Error /\ Len(e) = 1 /\ DOMAIN e = {1}
    BY SmallErrors
  <2> HIDE DEF e
  <2>2. \A k \in DOMAIN e : LastIn(e, k)
    BY <2>1 DEF LastIn
  <2>3. EOFIsLeaf(e)
    BY <2>1, <2>2, LeafStands
  <2> QED BY <2>3 DEF e
<1> QED BY <1>1, <1>2 DEF EOFIsLeaf

\* A join of two errors keeps the leaves of both.
LEMMA LeafJoined ==
  ASSUME NEW e \in Error, EOFIsLeaf(e), NEW f \in Error, EOFIsLeaf(f)
  PROVE  EOFIsLeaf(Join(e, f))
<1> DEFINE x == Timed("join", Len(e))
           h == <<x>> \o e
           n == Len(e)
           g == h \o f
<1>1. x \in LayerSet /\ x.kind = "join" /\ x.dur = n /\ n \in Nat
  BY ErrorParts DEF Timed, LayerSet, Kinds, OwnKinds, LibraryKinds
<1>2. /\ h \in Error /\ Len(h) = n + 1 /\ h[1] = x
      /\ DOMAIN e = 1 .. n /\ \A k \in DOMAIN e : h[k + 1] = e[k]
  BY <1>1, LayerOnTop, ErrorParts
<1> HIDE DEF x, n, h
<1>3. /\ g \in Error /\ Len(g) = n + 1 + Len(f) /\ Len(f) \in Nat /\ DOMAIN f = 1 .. Len(f)
      /\ \A k \in 1 .. n + 1 : g[k] = h[k]
      /\ \A k \in DOMAIN f : g[n + 1 + k] = f[k]
  <2>1. h \in Seq(LayerSet) /\ f \in Seq(LayerSet)
    BY <1>2 DEF Error, LayerSet
  <2>2. /\ g \in Seq(LayerSet) /\ Len(g) = Len(h) + Len(f)
        /\ \A k \in 1 .. Len(h) + Len(f) : g[k] = IF k <= Len(h) THEN h[k] ELSE f[k - Len(h)]
    BY <2>1, ConcatProperties
  <2> HIDE DEF g
  <2>3. Len(f) \in Nat /\ DOMAIN f = 1 .. Len(f)
    BY ErrorParts
  <2>6. \A k \in 1 .. n + 1 + Len(f) : g[k] = IF k <= n + 1 THEN h[k] ELSE f[k - (n + 1)]
    BY <1>2, <2>2
  <2>4. ASSUME NEW k \in DOMAIN f  PROVE g[n + 1 + k] = f[k]
    <3> DEFINE l == n + 1 + k
    <3>1. l \in 1 .. n + 1 + Len(f) /\ ~(l <= n + 1) /\ l - (n + 1) = k
      BY <1>1, <2>3
    <3> HIDE DEF l
    <3>2. g[l] = f[l - (n + 1)]
      BY <2>6, <3>1
    <3>3. g[l] = f[k]
      BY <3>1, <3>2
    <3> QED BY <3>3 DEF l
  <2>5. ASSUME NEW k \in 1 .. n + 1  PROVE g[k] = h[k]
    <3>1. k \in 1 .. n + 1 + Len(f) /\ k <= n + 1
      BY <1>1, <2>3
    <3> QED BY <2>6, <3>1
  <2> QED BY <1>2, <2>2, <2>3, <2>4, <2>5 DEF Error, LayerSet
<1> HIDE DEF g
<1>4. EOFIsLeaf(h)
  BY <1>1, LeafBelow DEF h
<1>5. DOMAIN g = 1 .. n + 1 + Len(f) /\ DOMAIN h = 1 .. n + 1
  BY <1>2, <1>3, ErrorParts
<1>6. ASSUME NEW k \in DOMAIN g, g[k].kind = "eof"  PROVE LastIn(g, k)
  <2>1. CASE k <= n + 1
    <3>1. k \in DOMAIN h /\ k \in 1 .. n + 1
      BY <1>1, <1>3, <1>5, <2>1
    <3>2. LastIn(h, k)
      BY <1>2, <1>3, <1>4, <1>6, <3>1, LeafStands
    <3>3. k # 1
      BY <1>1, <1>2, <1>3, <1>6, <3>1
    <3>4. CASE k = n + 1
      <4>1. 1 \in 1 .. k - 1 /\ g[1] = x
        BY <1>1, <1>2, <1>3, <3>1, <3>3
      <4>2. 1 + x.dur = k
        BY <1>1, <3>4
      <4> QED BY <1>1, <4>1, <4>2 DEF LastIn
    <3>5. ASSUME NEW j \in 1 .. k - 1, h[j].kind = "join", j + h[j].dur = k  PROVE LastIn(g, k)
      <4>1. j \in 1 .. n + 1
        BY <1>1, <3>1
      <4>2. g[j] = h[j]
        BY <1>3, <4>1
      <4> QED BY <3>5, <4>2 DEF LastIn
    <3> QED BY <1>2, <3>2, <3>4, <3>5 DEF LastIn
  <2>2. CASE ~(k <= n + 1)
    <3> DEFINE l == k - (n + 1)
    <3>1. l \in DOMAIN f /\ n + 1 + l = k /\ l \in Int /\ n \in Int /\ k \in Int
      BY <1>1, <1>3, <1>5, <2>2
    <3> HIDE DEF l
    <3>2. f[l].kind = "eof"
      BY <1>3, <1>6, <3>1
    <3>3. LastIn(f, l)
      BY <3>1, <3>2, LeafStands
    <3>4. CASE l = Len(f)
      BY <1>3, <3>1, <3>4 DEF LastIn
    <3>5. ASSUME NEW j \in 1 .. l - 1, f[j].kind = "join", j + f[j].dur = l  PROVE LastIn(g, k)
      <4>1. j \in DOMAIN f /\ n + 1 + j \in 1 .. k - 1
        BY <1>1, <1>3, <3>1
      <4>2. g[n + 1 + j] = f[j] /\ f[j].dur \in Int
        BY <1>3, <4>1, ErrorParts DEF LayerSet
      <4>3. n + 1 + j + g[n + 1 + j].dur = k
        BY <3>1, <3>5, <4>2
      <4> QED BY <3>5, <4>1, <4>2, <4>3 DEF LastIn
    <3> QED BY <3>3, <3>4, <3>5 DEF LastIn
  <2> QED BY <2>1, <2>2
<1>7. EOFIsLeaf(g)
  BY <1>3, <1>6, LeafStands
<1>8. Join(e, f) = g
  BY DEF Join, g, h, x
<1> QED BY <1>7, <1>8

\* So does what lies below a layer that is no join.
LEMMA LeafUnder ==
  ASSUME NEW e \in Error, EOFIsLeaf(e), NEW p \in DOMAIN e, e[p].kind # "join"
  PROVE  EOFIsLeaf(Below(e, p))
<1> DEFINE b == Below(e, p)
           m == EndOf(e, p)
           n == m - p
<1>1. /\ e \in Seq(LayerSet) /\ Len(e) \in Nat /\ DOMAIN e = 1 .. Len(e) /\ p \in 1 .. Len(e)
      /\ \A j \in 1 .. Len(e) : e[j].dur \in Int
  BY ErrorParts DEF Error, LayerSet
<1>2. /\ m \in p .. Len(e)
      /\ \A j \in 1 .. p - 1 : Covers(e, j, p) => m <= j + e[j].dur
  BY EndBounds
<1>3. /\ b \in Error /\ Len(b) = n /\ DOMAIN b = 1 .. n /\ n \in Nat
      /\ \A k \in 1 .. n : p + k \in DOMAIN e /\ b[k] = e[p + k]
  BY BelowParts
<1> HIDE DEF b, m
<1>4. /\ b \in Error /\ Len(b) = n /\ DOMAIN b = 1 .. n /\ n \in Nat
      /\ \A k \in 1 .. n : b[k] = e[p + k]
  BY <1>3
<1>5. m = p + n /\ p \in Int /\ m \in Int
  BY <1>1, <1>2
<1> HIDE DEF n
<1>6. ASSUME NEW k \in DOMAIN b, b[k].kind = "eof"  PROVE LastIn(b, k)
  <2>1. k \in 1 .. n /\ k \in Int /\ n \in Int /\ p + k \in DOMAIN e /\ p + k <= m
    BY <1>1, <1>2, <1>4, <1>5
  <2>2. LastIn(e, p + k)
    <3>1. e[p + k].kind = "eof"
      BY <1>4, <1>6, <2>1
    <3> QED BY <2>1, <3>1, LeafStands
  <2>3. m <= p + k => LastIn(b, k)
    <3>1. m <= p + k => k = n
      BY <1>5, <2>1
    <3> QED BY <1>4, <3>1 DEF LastIn
  <2>4. CASE p + k = Len(e)
    BY <1>1, <1>2, <2>3, <2>4
  <2>5. ASSUME NEW j \in 1 .. (p + k) - 1, e[j].kind = "join", j + e[j].dur = p + k
        PROVE  LastIn(b, k)
    <3>1. j # p /\ j \in Int
      BY <2>5
    <3>2. CASE j < p
      <4>1. Covers(e, j, p) /\ j \in 1 .. p - 1
        BY <1>5, <2>1, <2>5, <3>2 DEF Covers
      <4>2. m <= p + k
        BY <1>2, <2>5, <4>1
      <4> QED BY <2>3, <4>2
    <3>3. CASE j > p
      <4> DEFINE l == j - p
      <4>1. l \in 1 .. k - 1 /\ l \in 1 .. n /\ p + l = j /\ l \in Int
        BY <1>5, <2>1, <3>3
      <4> HIDE DEF l
      <4>2. b[l] = e[j] /\ e[j].dur \in Int
        BY <1>1, <1>4, <2>1, <3>1, <4>1
      <4>3. l + b[l].dur = k
        BY <1>5, <2>1, <2>5, <4>1, <4>2
      <4> QED BY <2>5, <4>1, <4>2, <4>3 DEF LastIn
    <3> QED BY <1>5, <3>1, <3>2, <3>3
  <2> QED BY <2>2, <2>4, <2>5 DEF LastIn
<1>7. EOFIsLeaf(b)
  BY <1>4, <1>6, LeafStands
<1> QED BY <1>7 DEF b

\* And so does a reduction.
LEMMA LeafReduced ==
  ASSUME NEW e \in Error \ {nil}, EOFIsLeaf(e)
  PROVE  EOFIsLeaf(nameHangUp(e)) /\ EOFIsLeaf(reduceURLErrors(e))
<1>1. /\ Layer("serverClosed") \in LayerSet /\ Layer("serverClosed").kind # "eof"
      /\ Layer("eof") \in LayerSet /\ Layer("requestFailed") \in LayerSet
  BY DEF Layer, LayerSet, Kinds, OwnKinds, LibraryKinds
<1>2. EOFIsLeaf(errServerClosed) /\ EOFIsLeaf(errRequestFailed)
  <2>1. EOFIsLeaf(errRequestFailed)
    BY <1>1, LeafAlone DEF errRequestFailed
  <2>2. <<Layer("eof")>> \in Error /\ EOFIsLeaf(<<Layer("eof")>>)
    BY <1>1, LeafAlone, SmallErrors
  <2>3. EOFIsLeaf(<<Layer("serverClosed")>> \o <<Layer("eof")>>)
    BY <1>1, <2>2, LeafBelow
  <2>4. errServerClosed = <<Layer("serverClosed")>> \o <<Layer("eof")>>
    BY DEF errServerClosed
  <2> QED BY <2>1, <2>3, <2>4
<1>3. ASSUME NEW f \in Error, EOFIsLeaf(f)  PROVE EOFIsLeaf(nameHangUp(f))
  BY <1>2, <1>3 DEF nameHangUp
<1>4. ASSUME NEW f \in Error \ {nil}, EOFIsLeaf(f)
      PROVE  Peeled(f) \in Error \ {nil} /\ EOFIsLeaf(Peeled(f))
  <2>1. CASE Is(f, {"url"})
    <3> DEFINE p == First(f, {"url"})
    <3>1. p \in DOMAIN f /\ f[p].kind = "url"
      BY <2>1, FirstExists
    <3> HIDE DEF p
    <3>2. Below(f, p) \in Error /\ EOFIsLeaf(Below(f, p))
      BY <1>4, <3>1, BelowIsError, LeafUnder
    <3>3. EOFIsLeaf(urlErrorCause(f))
      BY <1>2, <1>3, <3>2 DEF urlErrorCause, p
    <3> QED BY <2>1, <3>3, CauseIsError DEF Peeled
  <2>2. CASE ~Is(f, {"url"})
    BY <1>4, <2>2 DEF Peeled
  <2> QED BY <2>1, <2>2
<1> DEFINE last == Peeled(Peeled(Peeled(Peeled(Peeled(Peeled(Peeled(Peeled(e))))))))
           Kept0(f) == f \in Error \ {nil} /\ EOFIsLeaf(f)
<1>5. EOFIsLeaf(last)
  <2>1. ASSUME NEW f, Kept0(f)  PROVE Kept0(Peeled(f))
    BY <1>4, <2>1
  <2>2. Kept0(e)
    OBVIOUS
  <2> HIDE DEF Kept0
  <2>3. Kept0(last)
    BY <2>1, <2>2
  <2> QED BY <2>3 DEF Kept0
<1>6. reduceURLErrors(e) = IF Is(last, {"url"}) THEN errRequestFailed ELSE last
  BY ReductionUnrolled
<1> HIDE DEF last
<1> QED BY <1>2, <1>3, <1>5, <1>6

\* An error starts with its leaves leaves and keeps them so on its way up.
LEMMA LeavesKept ==
  ASSUME err \in Error, EOFIsLeaf(err), OnItsWayUp
  PROVE  EOFIsLeaf(err')
<1>1. err \in Error \ {nil}
  BY DEF OnItsWayUp, Mark, Wrapped, Joined, Redact, Name, Reduce
<1>2. /\ \A k \in Kinds : Layer(k) \in LayerSet /\ Layer(k).kind = k
      /\ \A k \in Kinds : <<Layer(k)>> \in Error
      /\ {"permanent", "markTransient", "attemptTimeout", "wrap", "opaque"} \subseteq Kinds
      /\ Roots \subseteq Kinds /\ Wrappers \subseteq Kinds /\ "eof" \notin Wrappers
  <2>1. \A k \in Kinds : Layer(k) \in LayerSet /\ Layer(k).kind = k
    BY DEF Layer, LayerSet
  <2>2. \A k \in Kinds : <<Layer(k)>> \in Error
    BY <2>1, SmallErrors
  <2>3. {"permanent", "markTransient", "attemptTimeout", "wrap", "opaque"} \subseteq Kinds
    BY DEF Kinds, OwnKinds, LibraryKinds
  <2> QED BY <2>1, <2>2, <2>3, ErrorChainsAssumption
<1>3. ASSUME NEW k \in Kinds, k # "eof", NEW e \in Error, EOFIsLeaf(e)
      PROVE  EOFIsLeaf(<<Layer(k)>> \o e)
  BY <1>2, <1>3, LeafBelow
<1>4. CASE Mark
  <2>1. err' \in {<<Layer("permanent")>> \o err, <<Layer("markTransient")>> \o err,
                  <<Layer("attemptTimeout")>> \o err}
    BY <1>1, <1>4 DEF Mark, Permanent, MarkTransient, AttemptTimeout
  <2> QED BY <1>2, <1>3, <2>1
<1>5. ASSUME NEW kind \in Wrappers, Wrapped(kind)  PROVE EOFIsLeaf(err')
  BY <1>2, <1>3, <1>5 DEF Wrapped
<1>6. ASSUME NEW kind \in Roots, Joined(kind)  PROVE EOFIsLeaf(err')
  <2>1. <<Layer(kind)>> \in Error /\ EOFIsLeaf(<<Layer(kind)>>)
    BY <1>2, LeafAlone
  <2>2. EOFIsLeaf(Join(err, <<Layer(kind)>>)) /\ EOFIsLeaf(Join(<<Layer(kind)>>, err))
    BY <2>1, LeafJoined
  <2> QED BY <1>6, <2>2 DEF Joined
<1>7. CASE Redact
  <2> DEFINE reduced == reduceURLErrors(err)
  <2>1. reduced \in Error /\ EOFIsLeaf(reduced)
    BY <1>1, LeafReduced, ReductionIsSafe
  <2>2. PICK prefixed \in BOOLEAN, holdsSecret \in BOOLEAN :
          err' = RedactTransportError(err, prefixed, holdsSecret)
    BY <1>7 DEF Redact
  <2>3. err' \in {<<Layer("opaque")>>, <<Layer("wrap")>> \o reduced, reduced}
    BY <1>1, <2>2 DEF RedactTransportError
  <2> HIDE DEF reduced
  <2>4. EOFIsLeaf(<<Layer("opaque")>>) /\ EOFIsLeaf(<<Layer("wrap")>> \o reduced)
    BY <1>2, <1>3, <2>1, LeafAlone
  <2> QED BY <2>1, <2>3, <2>4
<1>8. CASE Name \/ Reduce
  <2>1. err' = nameHangUp(err) \/ err' = reduceURLErrors(err)
    BY <1>1, <1>8 DEF Name, Reduce, LogSafeError
  <2> QED BY <1>1, <2>1, LeafReduced
<1> QED BY <1>4, <1>5, <1>6, <1>7, <1>8 DEF OnItsWayUp

\* A mark hides no cause, wherever in an error however deep it sits, but for a timeout
\* or a bare hang-up right below it and a url or net error right above.
THEOREM MarksAreTransparent == VerdictSpec => []MarksHideNoCause
<1>1. VerdictInit => EOFIsLeaf(err)
  BY LeafAlone DEF VerdictInit, ErrorInit
<1>2. VerdictTypeOK /\ EOFIsLeaf(err) /\ [VerdictNext]_vars => EOFIsLeaf(err)'
  <2> SUFFICES ASSUME VerdictTypeOK, EOFIsLeaf(err), [VerdictNext]_vars  PROVE EOFIsLeaf(err')
    BY DEF EOFIsLeaf
  <2>1. ASSUME NEW kind \in Roots, Fails(kind)  PROVE EOFIsLeaf(err')
    BY <2>1, OneLayer, LeafAlone DEF Fails, Make
  <2>2. ASSUME NEW d \in Digits, Receives(d)  PROVE EOFIsLeaf(err')
    BY <2>2 DEF Receives
  <2>3. CASE Checked
    <3>1. err' = nil \/ \E x \in LayerSet : err' = <<x>>
      <4>1. \A k \in {"auth", "statusRetryable", "statusFinal"} : Layer(k) \in LayerSet
        BY DEF Layer, LayerSet, Kinds, OwnKinds, LibraryKinds
      <4>2. Timed("rateLimit", ParseRetryAfterResponse(header)) \in LayerSet
        BY WaitType DEF VerdictTypeOK, Timed, LayerSet, Kinds, OwnKinds, LibraryKinds
      <4> QED BY <2>3, <4>1, <4>2 DEF Checked, CheckHTTPStatus
    <3> QED BY <3>1, LeafAlone
  <2>4. CASE Travels
    BY <2>4, LeavesKept DEF Travels, VerdictTypeOK
  <2>5. CASE UNCHANGED vars
    BY <2>5 DEF vars
  <2> QED BY <2>1, <2>2, <2>3, <2>4, <2>5, Zenon DEF VerdictNext
<1>3. VerdictTypeOK /\ EOFIsLeaf(err) => MarksHideNoCause
  BY CauseWithout DEF VerdictTypeOK, MarksHideNoCause, Marks
<1> QED BY <1>1, <1>2, <1>3, VerdictTyping, PTL DEF VerdictSpec

(***************************************************************************)
(* The doors and a response.                                               *)
(***************************************************************************)

\* Do over CheckHTTPStatus retries exactly the statuses the other doors retry, 429
\* under a rate-limit option alone, and waits the hint the transport would wait.
THEOREM DoorsAlwaysAgree == VerdictSpec => []DoorsAgree
<1>1. VerdictTypeOK => DoorsAgree
  <2> SUFFICES ASSUME VerdictTypeOK  PROVE DoorsAgree
    OBVIOUS
  <2> DEFINE e == CheckHTTPStatus(code, header)
  <2>1. CASE code = 429
    <3> DEFINE w == ParseRetryAfterResponse(header)
               x == Timed("rateLimit", w)
    <3>1. w \in Int /\ RetryAfterCap \in Int /\ RetryAfterCap > 0
      BY WaitType, ResponsesAssumption, DurationsAssumption DEF VerdictTypeOK
    <3>2. ParseRetryAfter(header) = IF w <= RetryAfterCap THEN w ELSE RetryAfterCap
      BY <3>1, MinOfTwo DEF ParseRetryAfter, ParseRetryAfterResponse
    <3>3. e = <<x>>
      BY <2>1 DEF CheckHTTPStatus
    <3> HIDE DEF w, e
    <3>4. x \in LayerSet /\ x.kind = "rateLimit" /\ x.dur = w
      BY <3>1 DEF Timed, LayerSet, Kinds, OwnKinds, LibraryKinds
    <3>5. Is(e, {"rateLimit"}) /\ Is(e, {"auth", "rateLimit"}) /\ e[First(e, {"rateLimit"})].dur = w
      BY <3>3, <3>4, OfOneLayer
    <3>6. ~IsTransient(e)
      BY <3>5 DEF IsTransient
    <3>7. ~classify(e, "rlNone", RetryAfterCap).retryable
      BY <3>6 DEF classify
    <3>8. ASSUME NEW mode \in {"rlRetry", "rlOnly"}
          PROVE  classify(e, mode, RetryAfterCap) =
                   [retryable |-> TRUE, wait |-> rateLimitWait(e, RetryAfterCap)]
      BY <3>5, <3>8 DEF classify
    <3>9. ParseRetryAfter(header) > 0 => rateLimitWait(e, RetryAfterCap) = ParseRetryAfter(header)
      BY <3>1, <3>2, <3>5 DEF rateLimitWait
    <3> QED BY <2>1, <3>7, <3>8, <3>9 DEF DoorsAgree, e
  <2>2. ASSUME code # 429, NEW k \in {"auth", "statusRetryable", "statusFinal"}, e = <<Layer(k)>>,
               IsRetryableStatus(code) <=> k = "statusRetryable"
        PROVE  DoorsAgree
    <3> DEFINE x == Layer(k)
    <3>1. x \in LayerSet /\ x.kind = k
      BY DEF Layer, LayerSet, Kinds, OwnKinds, LibraryKinds
    <3>2. \A kinds : /\ Is(e, kinds) <=> k \in kinds
                     /\ k \in kinds => e[First(e, kinds)].kind = k
      BY <2>2, <3>1, OfOneLayer
    <3> HIDE DEF e, x
    <3>3. e # nil /\ ~Is(e, {"rateLimit"})
      BY <2>2, <3>1, <3>2, OfOneLayer DEF x
    <3>4. IsTransient(e) <=> k = "statusRetryable"
      <4>1. CASE k = "auth"
        BY <3>2, <4>1 DEF IsTransient
      <4>2. CASE k # "auth"
        <5>1. /\ ~IsPermanent(e) /\ ~Is(e, {"auth", "rateLimit"})
              /\ ~IsAttemptTimeout(e) /\ ~isCallerContextError(e)
          BY <3>2, <4>2 DEF IsPermanent, IsAttemptTimeout, isCallerContextError, MatchesDeadline
        <5>2. Is(e, Transient) /\ (e[First(e, Transient)].kind \in SaysYes <=> k = "statusRetryable")
          BY <3>2, <4>2 DEF Transient, SaysYes
        <5> QED BY <5>1, <5>2 DEF IsTransient
      <4> QED BY <4>1, <4>2
    <3>5. /\ ~classify(e, "rlOnly", RetryAfterCap).retryable
          /\ \A mode \in {"rlNone", "rlRetry"} :
               classify(e, mode, RetryAfterCap).retryable <=> k = "statusRetryable"
      BY <3>3, <3>4 DEF classify
    <3> QED BY <2>2, <3>3, <3>5 DEF DoorsAgree, e
  <2>3. CASE code \in 200 .. 299
    <3>1. e = nil
      BY <2>3 DEF CheckHTTPStatus
    <3>2. code # 429 /\ ~IsRetryableStatus(code)
      BY <2>3 DEF IsRetryableStatus, Repeating
    <3>3. ~classify(nil, "rlOnly", RetryAfterCap).retryable
      BY DEF classify, Is, nil
    <3> HIDE DEF e
    <3> QED BY <3>1, <3>2, <3>3 DEF DoorsAgree, e
  <2>4. CASE code \in {401, 403}
    <3>1. e = <<Layer("auth")>> /\ ~IsRetryableStatus(code)
      BY <2>4 DEF CheckHTTPStatus, IsRetryableStatus, Repeating
    <3> HIDE DEF e
    <3> QED BY <2>2, <2>4, <3>1
  <2>5. CASE code \notin 200 .. 299 /\ code \notin {401, 403, 429}
    <3> DEFINE k == IF IsRetryableStatus(code) THEN "statusRetryable" ELSE "statusFinal"
    <3>1. e = <<Layer(k)>>
      BY <2>5 DEF CheckHTTPStatus
    <3>2. k \in {"auth", "statusRetryable", "statusFinal"} /\ code # 429
      BY <2>5
    <3>3. IsRetryableStatus(code) <=> k = "statusRetryable"
      OBVIOUS
    <3> HIDE DEF e, k
    <3> QED BY <2>2, <3>1, <3>2, <3>3
  <2> QED BY <2>1, <2>3, <2>4, <2>5
<1> QED BY <1>1, VerdictTyping, PTL

==============================================================================
