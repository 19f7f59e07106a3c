---------------------------- MODULE OperatorProofs ----------------------------
(***************************************************************************)
(* What the model's operators return, for every argument: first elements   *)
(* and recursions, how a layer put on an error is read, what lies below a  *)
(* layer, and what a reduction leaves.  The other proofs cite these.       *)
(***************************************************************************)
EXTENDS Errors, FiniteSetTheorems, SequenceTheorems, WellFoundedInduction, TLAPS

(***************************************************************************)
(* Least elements.  The library's least-number principle is stated of a    *)
(* predicate; this one, of a set, follows from the well-foundedness of     *)
(* inclusion between finite sets.                                          *)
(***************************************************************************)

\* A set of naturals that is not empty has a least element.
LEMMA LeastNatural ==
  ASSUME NEW B \in SUBSET Nat, B # {}
  PROVE  \E m \in B : \A k \in B : m <= k
<1> DEFINE Below0 == {0 .. k : k \in B}
<1>1. \A k \in B : 0 .. k \in SUBSET Nat /\ IsFiniteSet(0 .. k)
  BY FS_Interval
<1>2. Below0 \subseteq FiniteSubsetsOf(Nat) /\ Below0 # {}
  BY <1>1 DEF FiniteSubsetsOf
<1>3. PICK s \in Below0 : \A t \in Below0 : ~ (<<t, s>> \in StrictSubsetOrdering(Nat))
  <2> HIDE DEF Below0
  <2> QED BY <1>2, FS_StrictSubsetOrderingWellFounded, WFMin
<1>4. PICK m \in B : s = 0 .. m
  OBVIOUS
<1>5. ASSUME NEW k \in B, k < m  PROVE FALSE
  <2>1. 0 .. k \subseteq 0 .. m /\ 0 .. k # 0 .. m
    <3>1. m \in 0 .. m /\ m \notin 0 .. k
      BY <1>5
    <3> QED BY <1>5, <3>1
  <2>2. 0 .. k \in SUBSET Nat /\ 0 .. m \in SUBSET Nat
    OBVIOUS
  <2>3. <<0 .. k, 0 .. m>> \in StrictSubsetOrdering(Nat)
    BY <2>1, <2>2 DEF StrictSubsetOrdering
  <2> QED BY <1>3, <1>4, <2>3
<1> QED BY <1>5

\* f follows the recursion of a numeral's value, of a power, of the backoff.
FollowsLinear(f, N, a, c, d) ==
  /\ f \in [0 .. N -> Nat]
  /\ f[0] = a
  /\ \A i \in 1 .. N : f[i] = c * f[i - 1] + d[i]

\* It has a solution.
LEMMA RecursionSolvable ==
  ASSUME NEW N \in Nat, NEW a \in Nat, NEW c \in Nat, NEW d \in [1 .. N -> Nat]
  PROVE  \E f : FollowsLinear(f, N, a, c, d)
<1> DEFINE Solves(f, k) == /\ f \in [0 .. k -> Nat] /\ f[0] = a
                           /\ \A i \in 1 .. k : f[i] = c * f[i - 1] + d[i]
           Unsolved == {k \in 0 .. N : ~ \E f : Solves(f, k)}
<1>1. Unsolved = {}
  <2> SUFFICES ASSUME Unsolved # {}  PROVE FALSE
    OBVIOUS
  <2>1. PICK k \in Unsolved : \A j \in Unsolved : k <= j
    <3>1. Unsolved \in SUBSET Nat
      OBVIOUS
    <3> HIDE DEF Unsolved
    <3> QED BY <3>1, LeastNatural
  <2>2. k # 0
    <3>1. Solves([i \in 0 .. 0 |-> a], 0)
      OBVIOUS
    <3> QED BY <2>1, <3>1
  <2>3. PICK f : Solves(f, k - 1)
    <3> HIDE DEF Solves
    <3>1. k - 1 \in 0 .. N /\ k - 1 \notin Unsolved
      BY <2>1, <2>2
    <3> QED BY <3>1
  <2> DEFINE h == [i \in 0 .. k |-> IF i = k THEN c * f[k - 1] + d[k] ELSE f[i]]
  <2>4. k \in 1 .. N /\ k - 1 \in 0 .. k - 1
    BY <2>1, <2>2
  <2>5. c * f[k - 1] + d[k] \in Nat
    <3>1. f[k - 1] \in Nat /\ d[k] \in Nat
      BY <2>3, <2>4
    <3>2. \A x, y, z \in Nat : x * y + z \in Nat
      OBVIOUS
    <3> QED BY <3>1, <3>2
  <2>6. Solves(h, k)
    <3>1. h \in [0 .. k -> Nat]
      BY <2>3, <2>4, <2>5
    <3>2. h[0] = a
      BY <2>3, <2>4
    <3>3. ASSUME NEW i \in 1 .. k  PROVE h[i] = c * h[i - 1] + d[i]
      <4>1. i - 1 \in 0 .. k /\ i - 1 # k /\ h[i - 1] = f[i - 1]
        OBVIOUS
      <4>2. CASE i = k
        BY <4>1, <4>2
      <4>3. CASE i # k
        <5>1. i \in 1 .. k - 1 /\ h[i] = f[i]
          BY <2>4, <4>3
        <5>2. f[i] = c * f[i - 1] + d[i]
          BY <2>3, <5>1
        <5> QED BY <4>1, <5>1, <5>2
      <4> QED BY <4>2, <4>3
    <3> QED BY <3>1, <3>2, <3>3
  <2> QED BY <2>1, <2>6
<1> HIDE DEF Solves
<1>2. N \notin Unsolved
  <2> HIDE DEF Unsolved
  <2> QED BY <1>1
<1>3. \E f : Solves(f, N)
  BY <1>2
<1> QED BY <1>3 DEF Solves, FollowsLinear

\* Whatever satisfies its equations is a function into the naturals.
LEMMA RecursionTyped ==
  ASSUME NEW N \in Nat, NEW c \in Nat, NEW d \in [1 .. N -> Nat],
         NEW g, g = [i \in 0 .. N |-> g[i]], g[0] \in Nat,
         \A i \in 1 .. N : g[i - 1] \in Nat => g[i] = c * g[i - 1] + d[i]
  PROVE  FollowsLinear(g, N, g[0], c, d)
<1> DEFINE Untyped == {i \in 0 .. N : g[i] \notin Nat}
<1>1. Untyped = {}
  <2> SUFFICES ASSUME Untyped # {}  PROVE FALSE
    OBVIOUS
  <2>1. PICK i \in Untyped : \A j \in Untyped : i <= j
    <3>1. Untyped \in SUBSET Nat
      OBVIOUS
    <3> HIDE DEF Untyped
    <3> QED BY <3>1, LeastNatural
  <2>2. i \in 1 .. N /\ g[i - 1] \in Nat
    BY <2>1
  <2>3. g[i] = c * g[i - 1] + d[i] /\ d[i] \in Nat
    BY <2>2
  <2>4. \A x, y, z \in Nat : x * y + z \in Nat
    OBVIOUS
  <2> QED BY <2>1, <2>2, <2>3, <2>4
<1>2. \A i \in 0 .. N : g[i] \in Nat
  BY <1>1
<1>3. \A i \in 1 .. N : i - 1 \in 0 .. N
  OBVIOUS
<1> QED BY <1>2, <1>3 DEF FollowsLinear

\* What TLA+ makes of such a recursive function definition, with terms d or without.
DefinedLinear(E, N, a, c, d) ==
  E = CHOOSE f : f = [i \in 0 .. N |-> IF i = 0 THEN a ELSE c * f[i - 1] + d[i]]

DefinedGeometric(E, N, a, c) ==
  E = CHOOSE f : f = [i \in 0 .. N |-> IF i = 0 THEN a ELSE c * f[i - 1]]

\* What it defines follows the recursion.
LEMMA LinearRecursion ==
  ASSUME NEW N \in Nat, NEW a \in Nat, NEW c \in Nat, NEW d \in [1 .. N -> Nat], NEW E,
         DefinedLinear(E, N, a, c, d)
  PROVE  FollowsLinear(E, N, a, c, d)
<1> DEFINE Step(f) == [i \in 0 .. N |-> IF i = 0 THEN a ELSE c * f[i - 1] + d[i]]
<1>1. PICK f : FollowsLinear(f, N, a, c, d)
  BY RecursionSolvable
<1>2. f = Step(f)
  BY <1>1 DEF FollowsLinear
<1>3. E = Step(E)
  <2> HIDE DEF Step
  <2>1. E = CHOOSE g : g = Step(g)
    BY DEF Step, DefinedLinear
  <2> QED BY <1>2, <2>1
<1>4. /\ E = [i \in 0 .. N |-> E[i]] /\ E[0] = a
      /\ \A i \in 1 .. N : E[i] = c * E[i - 1] + d[i]
  <2> DEFINE rhs == Step(E)
  <2>1. /\ rhs = [i \in 0 .. N |-> rhs[i]] /\ rhs[0] = a
        /\ \A i \in 1 .. N : rhs[i] = c * E[i - 1] + d[i]
    OBVIOUS
  <2> HIDE DEF rhs
  <2> QED BY <1>3, <2>1 DEF rhs
<1>5. FollowsLinear(E, N, E[0], c, d)
  <2> HIDE DEF Step
  <2> QED BY <1>4, RecursionTyped
<1> QED BY <1>4, <1>5

\* Without a term to add, it is a geometric series.
LEMMA GeometricRecursion ==
  ASSUME NEW N \in Nat, NEW a \in Nat, NEW c \in Nat, NEW E,
         DefinedGeometric(E, N, a, c)
  PROVE  /\ E \in [0 .. N -> Nat]
         /\ E[0] = a
         /\ \A i \in 1 .. N : E[i] = c * E[i - 1]
<1> DEFINE zero == [i \in 1 .. N |-> 0]
           Step(f) == [i \in 0 .. N |-> IF i = 0 THEN a ELSE c * f[i - 1]]
<1>1. zero \in [1 .. N -> Nat] /\ \A i \in 1 .. N : zero[i] = 0
  OBVIOUS
<1>2. PICK f : FollowsLinear(f, N, a, c, zero)
  <2> HIDE DEF zero
  <2> QED BY <1>1, RecursionSolvable
<1>3. f = Step(f)
  <2>1. ASSUME NEW i \in 1 .. N  PROVE f[i] = c * f[i - 1]
    <3>1. f[i] = c * f[i - 1] + 0 /\ f[i - 1] \in Nat
      BY <1>1, <1>2 DEF FollowsLinear
    <3>2. \A x, y \in Nat : x * y + 0 = x * y
      OBVIOUS
    <3> QED BY <3>1, <3>2
  <2> QED BY <1>2, <2>1 DEF FollowsLinear
<1>4. E = Step(E)
  <2> HIDE DEF Step
  <2>1. E = CHOOSE g : g = Step(g)
    BY DEF Step, DefinedGeometric
  <2> QED BY <1>3, <2>1
<1>5. /\ E = [i \in 0 .. N |-> E[i]] /\ E[0] = a
      /\ \A i \in 1 .. N : E[i] = c * E[i - 1]
  <2> DEFINE rhs == Step(E)
  <2>1. /\ rhs = [i \in 0 .. N |-> rhs[i]] /\ rhs[0] = a
        /\ \A i \in 1 .. N : rhs[i] = c * E[i - 1]
    OBVIOUS
  <2> HIDE DEF rhs
  <2> QED BY <1>4, <2>1 DEF rhs
<1>6. \A i \in 1 .. N : E[i - 1] \in Nat => E[i] = c * E[i - 1] + zero[i]
  <2>1. \A x, y \in Nat : x * y + 0 = x * y
    OBVIOUS
  <2> HIDE DEF zero, Step
  <2> QED BY <1>1, <1>5, <2>1
<1>7. FollowsLinear(E, N, E[0], c, zero)
  <2> HIDE DEF zero, Step
  <2> QED BY <1>1, <1>5, <1>6, RecursionTyped
<1> QED BY <1>5, <1>7 DEF FollowsLinear

(***************************************************************************)
(* Layers.                                                                 *)
(***************************************************************************)

LayerSet == [kind : Kinds, dur : Int]

\* An error is finite, and every place in it holds a layer.
LEMMA ErrorParts ==
  ASSUME NEW e \in Error
  PROVE  Len(e) \in Nat /\ DOMAIN e = 1 .. Len(e) /\ \A i \in 1 .. Len(e) : e[i] \in LayerSet
<1>1. e \in Seq(LayerSet)
  BY DEF Error, LayerSet
<1> QED BY <1>1

\* The errors the package makes itself are errors.
LEMMA SmallErrors ==
  /\ nil \in Error
  /\ \A x \in LayerSet : <<x>> \in Error
  /\ \A x, y \in LayerSet : <<x, y>> \in Error
  /\ \A k \in Kinds : Layer(k) \in LayerSet
  /\ \A k \in Kinds, d \in Int : Timed(k, d) \in LayerSet
BY DEF nil, Error, LayerSet, Layer, Timed

\* A layer put on an error makes an error whose first layer it is, the others one
\* further down.
LEMMA LayerOnTop ==
  ASSUME NEW x \in LayerSet, NEW e \in Error
  PROVE  /\ <<x>> \o e \in Error
         /\ <<x>> \o e # nil
         /\ Len(<<x>> \o e) = Len(e) + 1
         /\ DOMAIN (<<x>> \o e) = 1 .. Len(e) + 1
         /\ (<<x>> \o e)[1] = x
         /\ \A i \in DOMAIN e : (<<x>> \o e)[i + 1] = e[i]
BY DEF nil, Error, LayerSet

\* What an error is, asked of kinds, is what its top layer or the rest is.
LEMMA IsOnTop ==
  ASSUME NEW x \in LayerSet, NEW e \in Error, NEW kinds
  PROVE  Is(<<x>> \o e, kinds) <=> x.kind \in kinds \/ Is(e, kinds)
<1> DEFINE f == <<x>> \o e
<1>1. /\ Len(e) \in Nat /\ DOMAIN e = 1 .. Len(e)
      /\ DOMAIN f = 1 .. Len(e) + 1 /\ f[1] = x
      /\ \A i \in DOMAIN e : f[i + 1] = e[i]
  BY LayerOnTop DEF Error
<1> HIDE DEF f
<1>2. ASSUME NEW i \in DOMAIN f, f[i].kind \in kinds
      PROVE  x.kind \in kinds \/ Is(e, kinds)
  <2>1. CASE i = 1
    BY <1>1, <1>2, <2>1
  <2>2. CASE i # 1
    <3>1. i - 1 \in DOMAIN e /\ f[i] = e[i - 1]
      BY <1>1, <2>2
    <3> QED BY <1>2, <3>1 DEF Is
  <2> QED BY <2>1, <2>2
<1>3. ASSUME x.kind \in kinds  PROVE Is(f, kinds)
  BY <1>1, <1>3 DEF Is
<1>4. ASSUME NEW i \in DOMAIN e, e[i].kind \in kinds  PROVE Is(f, kinds)
  <2>1. i + 1 \in DOMAIN f /\ f[i + 1] = e[i]
    BY <1>1
  <2> QED BY <1>4, <2>1 DEF Is
<1>5. Is(f, kinds) <=> x.kind \in kinds \/ Is(e, kinds)
  BY <1>2, <1>3, <1>4 DEF Is
<1> QED BY <1>5 DEF f

\* A top layer of one of the kinds is the first of them.
LEMMA FirstOnTop ==
  ASSUME NEW x \in LayerSet, NEW e \in Error, NEW kinds, x.kind \in kinds
  PROVE  First(<<x>> \o e, kinds) = 1
<1> DEFINE f == <<x>> \o e
<1>1. Len(e) \in Nat /\ DOMAIN f = 1 .. Len(e) + 1 /\ f[1] = x
  BY LayerOnTop DEF Error
<1> HIDE DEF f
<1>2. 1 \in DOMAIN f /\ f[1].kind \in kinds /\ 1 .. 1 - 1 = {}
  BY <1>1
<1>3. \A i \in DOMAIN f : i # 1 => 1 \in 1 .. i - 1
  BY <1>1
<1>4. First(f, kinds) = 1
  BY <1>2, <1>3 DEF First
<1> QED BY <1>4 DEF f

\* What an error of one layer is.
LEMMA OfOneLayer ==
  ASSUME NEW x \in LayerSet
  PROVE  /\ <<x>> # nil /\ <<x>>[1] = x
         /\ \A kinds : /\ Is(<<x>>, kinds) <=> x.kind \in kinds
                       /\ x.kind \in kinds => First(<<x>>, kinds) = 1
<1>1. /\ <<x>> # nil /\ <<x>>[1] = x /\ DOMAIN <<x>> = {1}
      /\ \A i \in {1} : 1 .. i - 1 = {}
  BY DEF nil
<1> DEFINE e == <<x>>
<1> HIDE DEF e
<1>2. e # nil /\ e[1] = x /\ DOMAIN e = {1}
  BY <1>1 DEF e
<1>3. ASSUME NEW kinds
      PROVE  (Is(e, kinds) <=> x.kind \in kinds) /\ (x.kind \in kinds => First(e, kinds) = 1)
  BY <1>1, <1>2 DEF Is, First
<1> QED BY <1>1, <1>3 DEF e

\* An error that has a layer of some kinds has a first one.
LEMMA FirstExists ==
  ASSUME NEW e \in Error, NEW kinds, Is(e, kinds)
  PROVE  /\ First(e, kinds) \in DOMAIN e
         /\ e[First(e, kinds)].kind \in kinds
         /\ \A j \in 1 .. First(e, kinds) - 1 : e[j].kind \notin kinds
<1> DEFINE B == {i \in DOMAIN e : e[i].kind \in kinds}
<1>1. Len(e) \in Nat /\ DOMAIN e = 1 .. Len(e)
  BY DEF Error
<1>2. B \in SUBSET Nat /\ B # {}
  BY <1>1 DEF Is
<1>3. PICK m \in B : \A k \in B : m <= k
  <2> HIDE DEF B
  <2> QED BY <1>2, LeastNatural
<1>4. \A j \in 1 .. m - 1 : e[j].kind \notin kinds
  BY <1>1, <1>3
<1> QED BY <1>3, <1>4 DEF First

(***************************************************************************)
(* Reductions.                                                             *)
(***************************************************************************)

\* Layer j is a join whose first branch reaches as far as layer i.
Covers(e, j, i) == e[j].kind = "join" /\ i <= j + e[j].dur

\* What a layer wraps ends within the error, with the first of the branches around
\* it to end, or with the error.
LEMMA EndBounds ==
  ASSUME NEW e \in Error, NEW i \in DOMAIN e
  PROVE  /\ EndOf(e, i) \in i .. Len(e)
         /\ \A j \in 1 .. i - 1 : Covers(e, j, i) => EndOf(e, i) <= j + e[j].dur
         /\ \/ EndOf(e, i) = Len(e)
            \/ \E j \in 1 .. i - 1 : Covers(e, j, i) /\ EndOf(e, i) = j + e[j].dur
<1> DEFINE joins == {k \in 1 .. i - 1 : e[k].kind = "join" /\ i <= k + e[k].dur}
           ends  == {Len(e)} \cup {j + e[j].dur : j \in joins}
<1>1. Len(e) \in Nat /\ DOMAIN e = 1 .. Len(e) /\ i \in 1 .. Len(e)
  BY DEF Error
<1>2. \A j \in joins : j + e[j].dur \in Int /\ i <= j + e[j].dur
  <2>1. \A j \in 1 .. Len(e) : e[j] \in LayerSet
    BY ErrorParts
  <2> QED BY <1>1, <2>1 DEF LayerSet
<1>3. ends \in SUBSET Nat /\ ends # {} /\ Len(e) \in ends /\ \A x \in ends : i <= x
  BY <1>1, <1>2
<1>4. EndOf(e, i) = CHOOSE last \in ends : \A other \in ends : last <= other
  BY DEF EndOf
<1>5. joins = {j \in 1 .. i - 1 : Covers(e, j, i)}
  BY DEF Covers
<1>6. /\ \A j \in joins : j + e[j].dur \in ends
      /\ \A x \in ends : x = Len(e) \/ \E j \in joins : x = j + e[j].dur
  OBVIOUS
<1> HIDE DEF joins, ends
<1>7. PICK m \in ends : \A k \in ends : m <= k
  BY <1>3, LeastNatural
<1>8. EndOf(e, i) \in ends /\ \A other \in ends : EndOf(e, i) <= other
  BY <1>4, <1>7
<1>9. EndOf(e, i) \in Nat /\ i <= EndOf(e, i) /\ EndOf(e, i) <= Len(e)
  BY <1>3, <1>8
<1> QED BY <1>1, <1>5, <1>6, <1>8, <1>9

\* What a layer wraps ends within the error.
LEMMA EndWithin ==
  ASSUME NEW e \in Error, NEW i \in DOMAIN e
  PROVE  EndOf(e, i) \in i .. Len(e)
BY EndBounds

\* What lies below a layer is an error, or nil.
LEMMA BelowIsError ==
  ASSUME NEW e \in Error, NEW i \in DOMAIN e
  PROVE  Below(e, i) \in Error
<1>1. Len(e) \in Nat /\ DOMAIN e = 1 .. Len(e) /\ i \in 1 .. Len(e)
  BY DEF Error
<1>2. EndOf(e, i) \in i .. Len(e)
  BY EndWithin
<1>3. \A j \in i + 1 .. EndOf(e, i) : e[j] \in LayerSet
  BY <1>1, <1>2, ErrorParts
<1>4. SubSeq(e, i + 1, EndOf(e, i)) \in Seq(LayerSet)
  BY <1>1, <1>2, <1>3, SubSeqProperties
<1> QED BY <1>4 DEF Below, Error, LayerSet

\* The two errors a reduction puts in another's place have layers, none a url.
LEMMA CauseOfNothing ==
  /\ errRequestFailed \in Error \ {nil} /\ ~Is(errRequestFailed, {"url"})
  /\ errServerClosed \in Error \ {nil}  /\ ~Is(errServerClosed, {"url"})
<1>1. /\ Layer("requestFailed") \in LayerSet
      /\ Layer("serverClosed") \in LayerSet /\ Layer("eof") \in LayerSet
  BY DEF Layer, LayerSet, Kinds, OwnKinds, LibraryKinds
<1>2. errRequestFailed \in Error /\ errServerClosed \in Error
  BY <1>1, SmallErrors DEF errRequestFailed, errServerClosed
<1>3. errRequestFailed # nil /\ errServerClosed # nil
  BY DEF errRequestFailed, errServerClosed, nil
<1>4. ~Is(errRequestFailed, {"url"}) /\ ~Is(errServerClosed, {"url"})
  BY DEF errRequestFailed, errServerClosed, Is, Layer
<1> QED BY <1>2, <1>3, <1>4

\* A *url.Error reduces to an error, never to nil.
LEMMA CauseIsError ==
  ASSUME NEW e \in Error, Is(e, {"url"})
  PROVE  urlErrorCause(e) \in Error \ {nil}
<1>1. Below(e, First(e, {"url"})) \in Error
  BY FirstExists, BelowIsError
<1> QED BY <1>1, CauseOfNothing DEF urlErrorCause, nameHangUp

\* One reduction: the error the k-th leaves for the next.
Peeled(e) == IF Is(e, {"url"}) THEN urlErrorCause(e) ELSE e

\* The reduction is the peeling of at most maxURLErrorDepth url errors, and a
\* last word when one is left.
LEMMA ReductionUnrolled ==
  ASSUME NEW e
  PROVE  LET twice(f) == Peeled(Peeled(f))
             last     == twice(twice(twice(twice(e))))
         IN  reduceURLErrors(e) = IF Is(last, {"url"}) THEN errRequestFailed ELSE last
<1> DEFINE r1 == Peeled(e)   r2 == Peeled(r1)  r3 == Peeled(r2)  r4 == Peeled(r3)
           r5 == Peeled(r4)  r6 == Peeled(r5)  r7 == Peeled(r6)  r8 == Peeled(r7)
           Step(f) == [k \in 0 .. 8 |->
                         IF k = 0 THEN {e} ELSE {Peeled(left) : left \in f[k - 1]}]
           reduced == CHOOSE f : f = Step(f)
           last    == CHOOSE left \in reduced[8] : TRUE
<1>1. reduceURLErrors(e) = IF Is(last, {"url"}) THEN errRequestFailed ELSE last
  BY DEF reduceURLErrors, Peeled, maxURLErrorDepth
<1> DEFINE w == [k \in 0 .. 8 |->
                   IF k = 0 THEN {e} ELSE IF k = 1 THEN {r1} ELSE IF k = 2 THEN {r2}
                   ELSE IF k = 3 THEN {r3} ELSE IF k = 4 THEN {r4} ELSE IF k = 5 THEN {r5}
                   ELSE IF k = 6 THEN {r6} ELSE IF k = 7 THEN {r7} ELSE {r8}]
<1>2. w = Step(w)
  <2> HIDE DEF r1, r2, r3, r4, r5, r6, r7, r8
  <2>1. /\ r1 = Peeled(e)  /\ r2 = Peeled(r1) /\ r3 = Peeled(r2) /\ r4 = Peeled(r3)
        /\ r5 = Peeled(r4) /\ r6 = Peeled(r5) /\ r7 = Peeled(r6) /\ r8 = Peeled(r7)
    BY DEF r1, r2, r3, r4, r5, r6, r7, r8
  <2>2. \A x : {Peeled(left) : left \in {x}} = {Peeled(x)}
    OBVIOUS
  <2>3. /\ w[0] = {e}  /\ w[1] = {r1} /\ w[2] = {r2} /\ w[3] = {r3} /\ w[4] = {r4}
        /\ w[5] = {r5} /\ w[6] = {r6} /\ w[7] = {r7} /\ w[8] = {r8}
    OBVIOUS
  <2> HIDE DEF w
  <2>4. ASSUME NEW k \in 1 .. 8  PROVE w[k] = {Peeled(left) : left \in w[k - 1]}
    <3>1. /\ w[1] = {Peeled(left) : left \in w[0]} /\ w[2] = {Peeled(left) : left \in w[1]}
          /\ w[3] = {Peeled(left) : left \in w[2]} /\ w[4] = {Peeled(left) : left \in w[3]}
          /\ w[5] = {Peeled(left) : left \in w[4]} /\ w[6] = {Peeled(left) : left \in w[5]}
          /\ w[7] = {Peeled(left) : left \in w[6]} /\ w[8] = {Peeled(left) : left \in w[7]}
      BY <2>1, <2>2, <2>3
    <3>2. /\ 1 - 1 = 0 /\ 2 - 1 = 1 /\ 3 - 1 = 2 /\ 4 - 1 = 3
          /\ 5 - 1 = 4 /\ 6 - 1 = 5 /\ 7 - 1 = 6 /\ 8 - 1 = 7
      OBVIOUS
    <3>3. k \in {1, 2, 3, 4, 5, 6, 7, 8}
      OBVIOUS
    <3> QED BY <3>1, <3>2, <3>3
  <2>5. DOMAIN w = 0 .. 8 /\ w = [k \in 0 .. 8 |-> w[k]]
    BY DEF w
  <2> QED BY <2>3, <2>4, <2>5
<1>3. reduced = Step(reduced)
  <2> HIDE DEF Step, w
  <2> QED BY <1>2
<1>4. reduced[8] = {r8}
  <2> HIDE DEF r1, r2, r3, r4, r5, r6, r7, r8, reduced
  <2>1. /\ r1 = Peeled(e)  /\ r2 = Peeled(r1) /\ r3 = Peeled(r2) /\ r4 = Peeled(r3)
        /\ r5 = Peeled(r4) /\ r6 = Peeled(r5) /\ r7 = Peeled(r6) /\ r8 = Peeled(r7)
    BY DEF r1, r2, r3, r4, r5, r6, r7, r8
  <2>2. reduced[0] = {e} /\ \A k \in 1 .. 8 : reduced[k] = {Peeled(left) : left \in reduced[k - 1]}
    BY <1>3
  <2> QED BY <2>1, <2>2
<1>5. last = r8
  <2> HIDE DEF reduced
  <2> QED BY <1>4
<1> QED BY <1>1, <1>5

\* The reduction of an error is an error without a *url.Error, and never nil.
LEMMA ReductionIsSafe ==
  ASSUME NEW e \in Error \ {nil}
  PROVE  reduceURLErrors(e) \in Error \ {nil} /\ ~Is(reduceURLErrors(e), {"url"})
<1>1. \A f \in Error \ {nil} : Peeled(f) \in Error \ {nil}
  BY CauseIsError DEF Peeled
<1>2. errRequestFailed \in Error \ {nil} /\ ~Is(errRequestFailed, {"url"})
  BY CauseOfNothing
<1> DEFINE last == Peeled(Peeled(Peeled(Peeled(Peeled(Peeled(Peeled(Peeled(e))))))))
<1>3. last \in Error \ {nil}
  BY <1>1
<1>4. reduceURLErrors(e) = IF Is(last, {"url"}) THEN errRequestFailed ELSE last
  BY ReductionUnrolled
<1> HIDE DEF last
<1> QED BY <1>2, <1>3, <1>4

\* An error whose *url.Error is gone after one peeling reduces to what that left.
LEMMA OnePeelingReduces ==
  ASSUME NEW e, ~Is(Peeled(e), {"url"})
  PROVE  reduceURLErrors(e) = Peeled(e)
<1> DEFINE f == Peeled(e)
<1> HIDE DEF f
<1>1. Peeled(f) = f /\ ~Is(f, {"url"})
  BY DEF Peeled, f
<1>2. reduceURLErrors(e) =
        LET last == Peeled(Peeled(Peeled(Peeled(Peeled(Peeled(Peeled(f)))))))
        IN  IF Is(last, {"url"}) THEN errRequestFailed ELSE last
  BY ReductionUnrolled DEF f
<1> QED BY <1>1, <1>2 DEF f

(***************************************************************************)
(* Timeouts.                                                               *)
(***************************************************************************)

TimesOut(e, i) == e[i].kind \in {"deadline", "netTimeout", "clientTimeout", "kernelTimeout"}
Asks(e, i)     == e[i].kind \in {"url", "netOp", "dns"} /\ i < EndOf(e, i)

\* A layer's Timeout() is its own, or that of the layer it asks.
LEMMA TimeoutUnrolled ==
  ASSUME NEW e \in Error, NEW i \in DOMAIN e
  PROVE  Timeout(e)[i] <=> TimesOut(e, i) \/ (Asks(e, i) /\ Timeout(e)[i + 1])
<1> DEFINE Step(f) == [k \in DOMAIN e |->
                         \/ e[k].kind \in {"deadline", "netTimeout", "clientTimeout", "kernelTimeout"}
                         \/ e[k].kind \in {"url", "netOp", "dns"} /\ k < EndOf(e, k) /\ f[k + 1]]
           Reaches(k) == \E j \in k .. Len(e) : TimesOut(e, j) /\ \A m \in k .. j - 1 : Asks(e, m)
           t == [k \in DOMAIN e |-> Reaches(k)]
<1>1. Len(e) \in Nat /\ DOMAIN e = 1 .. Len(e)
  BY ErrorParts
<1>2. ASSUME NEW k \in DOMAIN e
      PROVE  Reaches(k) <=> TimesOut(e, k) \/ (Asks(e, k) /\ t[k + 1])
  <2>1. ASSUME Reaches(k), ~TimesOut(e, k)  PROVE Asks(e, k) /\ t[k + 1]
    <3>1. PICK j \in k .. Len(e) : TimesOut(e, j) /\ \A m \in k .. j - 1 : Asks(e, m)
      BY <2>1
    <3>2. j # k /\ j \in k + 1 .. Len(e) /\ k \in k .. j - 1 /\ k + 1 \in DOMAIN e
      BY <1>1, <2>1, <3>1
    <3>3. \A m \in k + 1 .. j - 1 : m \in k .. j - 1
      BY <1>1, <3>2
    <3>4. Reaches(k + 1)
      BY <3>1, <3>2, <3>3
    <3> QED BY <3>1, <3>2, <3>4
  <2>2. ASSUME TimesOut(e, k)  PROVE Reaches(k)
    <3>1. k \in k .. Len(e) /\ k .. k - 1 = {}
      BY <1>1
    <3> QED BY <2>2, <3>1
  <2>3. ASSUME Asks(e, k), t[k + 1]  PROVE Reaches(k)
    <3>1. k + 1 \in DOMAIN e
      BY <1>1, <2>3, EndWithin DEF Asks
    <3>2. Reaches(k + 1)
      BY <2>3, <3>1
    <3>3. PICK j \in k + 1 .. Len(e) : TimesOut(e, j) /\ \A m \in k + 1 .. j - 1 : Asks(e, m)
      BY <3>2
    <3>4. j \in k .. Len(e) /\ \A m \in k .. j - 1 : m = k \/ m \in k + 1 .. j - 1
      BY <1>1, <3>3
    <3> QED BY <2>3, <3>3, <3>4
  <2> HIDE DEF Reaches, t
  <2> QED BY <2>1, <2>2, <2>3
<1>3. t = Step(t)
  <2> HIDE DEF Reaches
  <2>1. \A k \in DOMAIN e : Reaches(k) <=>
             \/ e[k].kind \in {"deadline", "netTimeout", "clientTimeout", "kernelTimeout"}
             \/ e[k].kind \in {"url", "netOp", "dns"} /\ k < EndOf(e, k) /\ t[k + 1]
    BY <1>2 DEF TimesOut, Asks
  <2> DEFINE rhs(k) ==
               \/ e[k].kind \in {"deadline", "netTimeout", "clientTimeout", "kernelTimeout"}
               \/ e[k].kind \in {"url", "netOp", "dns"} /\ k < EndOf(e, k) /\ t[k + 1]
  <2>2. ASSUME NEW k \in DOMAIN e  PROVE Reaches(k) = rhs(k)
    <3>1. Reaches(k) <=> rhs(k)
      BY <2>1
    <3>2. Reaches(k) \in BOOLEAN /\ rhs(k) \in BOOLEAN
      BY DEF Reaches
    <3> HIDE DEF rhs
    <3> QED BY <3>1, <3>2
  <2>3. t = [k \in DOMAIN e |-> rhs(k)]
    <3>1. t = [k \in DOMAIN e |-> Reaches(k)]
      OBVIOUS
    <3> HIDE DEF t, rhs
    <3> QED BY <2>2, <3>1, Zenon
  <2> QED BY <2>3
<1>4. Timeout(e) = CHOOSE f : f = Step(f)
  BY DEF Timeout
<1>5. Timeout(e) = Step(Timeout(e))
  <2> HIDE DEF Step, t
  <2> QED BY <1>3, <1>4
<1>6. \A f : Step(f)[i] <=> TimesOut(e, i) \/ (Asks(e, i) /\ f[i + 1])
  BY DEF TimesOut, Asks
<1> HIDE DEF Step
<1> QED BY <1>5, <1>6

\* Under a layer that is no join, every layer wraps what it did.
LEMMA EndBelow ==
  ASSUME NEW x \in LayerSet, x.kind # "join", NEW e \in Error, NEW i \in DOMAIN e
  PROVE  EndOf(<<x>> \o e, i + 1) = EndOf(e, i) + 1
<1> DEFINE f == <<x>> \o e
           inE == {k \in 1 .. i - 1 : e[k].kind = "join" /\ i <= k + e[k].dur}
           inF == {k \in 1 .. (i + 1) - 1 : f[k].kind = "join" /\ i + 1 <= k + f[k].dur}
           endsE == {Len(e)} \cup {j + e[j].dur : j \in inE}
           endsF == {Len(f)} \cup {j + f[j].dur : j \in inF}
<1>1. /\ Len(e) \in Nat /\ DOMAIN e = 1 .. Len(e) /\ i \in 1 .. Len(e)
      /\ Len(f) = Len(e) + 1 /\ f[1] = x /\ \A k \in 1 .. Len(e) : f[k + 1] = e[k]
  BY ErrorParts, LayerOnTop
<1>2. \A k \in 1 .. Len(e) : e[k].dur \in Int
  BY ErrorParts DEF LayerSet
<1> HIDE DEF f
<1>3. \A k \in inE : k + 1 \in inF /\ (k + 1) + f[k + 1].dur = (k + e[k].dur) + 1
  <2> SUFFICES ASSUME NEW k \in inE
               PROVE  k + 1 \in inF /\ (k + 1) + f[k + 1].dur = (k + e[k].dur) + 1
    OBVIOUS
  <2> DEFINE d == e[k].dur
  <2>1. k \in 1 .. i - 1 /\ k \in 1 .. Len(e) /\ e[k].kind = "join" /\ i <= k + d
    BY <1>1
  <2>2. f[k + 1] = e[k] /\ d \in Int
    BY <1>1, <1>2, <2>1
  <2>3. f[k + 1].kind = "join" /\ f[k + 1].dur = d
    BY <2>1, <2>2
  <2> HIDE DEF d, inE, inF
  <2>4. /\ k + 1 \in 1 .. (i + 1) - 1 /\ i + 1 <= (k + 1) + d
        /\ (k + 1) + d = (k + d) + 1
    BY <1>1, <2>1, <2>2
  <2> QED BY <2>3, <2>4 DEF d, inF
<1>4. \A k \in inF : k - 1 \in inE /\ k + f[k].dur = ((k - 1) + e[k - 1].dur) + 1
  <2> SUFFICES ASSUME NEW k \in inF
               PROVE  k - 1 \in inE /\ k + f[k].dur = ((k - 1) + e[k - 1].dur) + 1
    OBVIOUS
  <2>1. k # 1 /\ k - 1 \in 1 .. i - 1 /\ k - 1 \in 1 .. Len(e)
    BY <1>1
  <2> DEFINE d == e[k - 1].dur
  <2>2. f[k] = e[k - 1] /\ d \in Int
    BY <1>1, <1>2, <2>1
  <2>3. k \in Int /\ f[k].kind = "join" /\ i + 1 <= k + f[k].dur
    BY <1>1
  <2>4. e[k - 1].kind = "join" /\ f[k].dur = d /\ i + 1 <= k + d
    BY <2>2, <2>3
  <2> HIDE DEF d
  <2>5. i <= (k - 1) + d /\ k + d = ((k - 1) + d) + 1
    BY <1>1, <2>2, <2>3, <2>4
  <2> QED BY <2>1, <2>4, <2>5 DEF d
<1>5. endsE \subseteq Int /\ endsF \subseteq Int
  <2>1. \A k \in inE : k + e[k].dur \in Int
    BY <1>1, <1>2
  <2>2. \A k \in inF : k + f[k].dur \in Int
    <3> SUFFICES ASSUME NEW k \in inF  PROVE k + f[k].dur \in Int
      OBVIOUS
    <3>1. k - 1 \in inE /\ k + f[k].dur = ((k - 1) + e[k - 1].dur) + 1
      BY <1>4
    <3>2. (k - 1) + e[k - 1].dur \in Int
      BY <2>1, <3>1
    <3> QED BY <3>1, <3>2
  <2> HIDE DEF inE, inF
  <2>3. endsE \subseteq Int
    BY <1>1, <2>1
  <2>4. endsF \subseteq Int
    BY <1>1, <2>2
  <2> QED BY <2>3, <2>4
<1>6. (\A x1 \in endsE : x1 + 1 \in endsF) /\ (\A y \in endsF : y - 1 \in endsE)
  <2>1. Len(f) - 1 = Len(e)
    BY <1>1
  <2>2. \A k \in inF : (k + f[k].dur) - 1 = (k - 1) + e[k - 1].dur
    BY <1>1, <1>2, <1>4
  <2> HIDE DEF inE, inF
  <2>3. ASSUME NEW p \in endsE  PROVE p + 1 \in endsF
    <3>1. CASE p = Len(e)
      BY <1>1, <3>1
    <3>2. ASSUME NEW k \in inE, p = k + e[k].dur  PROVE p + 1 \in endsF
      BY <1>3, <3>2
    <3> QED BY <3>1, <3>2
  <2>4. ASSUME NEW q \in endsF  PROVE q - 1 \in endsE
    <3>1. CASE q = Len(f)
      BY <2>1, <3>1
    <3>2. ASSUME NEW k \in inF, q = k + f[k].dur  PROVE q - 1 \in endsE
      BY <1>4, <2>2, <3>2
    <3> QED BY <3>1, <3>2
  <2> QED BY <2>3, <2>4
<1>7. /\ EndOf(e, i) = CHOOSE last \in endsE : \A other \in endsE : last <= other
      /\ EndOf(f, i + 1) = CHOOSE last \in endsF : \A other \in endsF : last <= other
  BY DEF EndOf
<1>8. \A y \in endsE : y >= i
  BY <1>1, <1>2
<1> HIDE DEF endsE, endsF
<1>9. endsE \in SUBSET Nat /\ endsE # {}
  <2>1. Len(e) \in endsE
    BY DEF endsE
  <2> QED BY <1>1, <1>5, <1>8, <2>1
<1>10. PICK m \in endsE : \A k \in endsE : m <= k
  BY <1>9, LeastNatural
<1>11. EndOf(e, i) = m
  <2>1. EndOf(e, i) \in endsE /\ \A other \in endsE : EndOf(e, i) <= other
    BY <1>7, <1>10
  <2>2. m \in Int /\ EndOf(e, i) \in Int /\ m <= EndOf(e, i) /\ EndOf(e, i) <= m
    BY <1>5, <1>10, <2>1
  <2> QED BY <2>2
<1>12. m + 1 \in endsF /\ \A k \in endsF : m + 1 <= k
  BY <1>5, <1>6, <1>10
<1>13. EndOf(f, i + 1) = m + 1
  <2>1. EndOf(f, i + 1) \in endsF /\ \A other \in endsF : EndOf(f, i + 1) <= other
    BY <1>7, <1>12
  <2>2. /\ m + 1 \in Int /\ EndOf(f, i + 1) \in Int
        /\ m + 1 <= EndOf(f, i + 1) /\ EndOf(f, i + 1) <= m + 1
    BY <1>5, <1>12, <2>1
  <2> QED BY <2>2
<1> QED BY <1>11, <1>13 DEF f

\* Under such a layer every layer's Timeout() is what it was.
LEMMA TimeoutBelow ==
  ASSUME NEW x \in LayerSet, x.kind # "join", NEW e \in Error, NEW i \in DOMAIN e
  PROVE  Timeout(<<x>> \o e)[i + 1] <=> Timeout(e)[i]
<1> DEFINE f == <<x>> \o e
           Differ == {k \in DOMAIN e : ~(Timeout(f)[k + 1] <=> Timeout(e)[k])}
           rests  == {Len(e) - k : k \in Differ}
<1>1. /\ f \in Error /\ Len(e) \in Nat /\ DOMAIN e = 1 .. Len(e) /\ DOMAIN f = 1 .. Len(e) + 1
      /\ \A k \in DOMAIN e : f[k + 1] = e[k]
  BY ErrorParts, LayerOnTop
<1>2. ASSUME NEW k \in DOMAIN e  PROVE EndOf(f, k + 1) = EndOf(e, k) + 1 /\ EndOf(e, k) \in k .. Len(e)
  BY EndBelow, EndWithin
<1> HIDE DEF f
<1>3. ASSUME NEW k \in DOMAIN e
      PROVE  (TimesOut(f, k + 1) <=> TimesOut(e, k)) /\ (Asks(f, k + 1) <=> Asks(e, k))
             /\ (Asks(e, k) => k + 1 \in DOMAIN e)
  BY <1>1, <1>2 DEF TimesOut, Asks
<1>4. Differ = {}
  <2> SUFFICES ASSUME Differ # {}  PROVE FALSE
    OBVIOUS
  <2>1. rests \in SUBSET Nat /\ rests # {}
    BY <1>1
  <2>2. PICK r \in rests : \A q \in rests : r <= q
    <3> HIDE DEF rests
    <3> QED BY <2>1, LeastNatural
  <2>3. PICK k \in Differ : r = Len(e) - k
    OBVIOUS
  <2>4. k + 1 \notin Differ
    <3> SUFFICES ASSUME k + 1 \in Differ  PROVE FALSE
      OBVIOUS
    <3>1. Len(e) - (k + 1) \in rests
      OBVIOUS
    <3>2. k \in 1 .. Len(e)
      BY <1>1
    <3>3. r <= Len(e) - (k + 1)
      BY <2>2, <3>1
    <3> HIDE DEF Differ, rests
    <3> QED BY <1>1, <2>3, <3>2, <3>3
  <2>5. (k + 1) + 1 = k + 2 /\ k + 1 \in DOMAIN f
    BY <1>1
  <2>6. Timeout(e)[k] <=> TimesOut(e, k) \/ (Asks(e, k) /\ Timeout(e)[k + 1])
    BY TimeoutUnrolled
  <2>7. Timeout(f)[k + 1] <=> TimesOut(f, k + 1) \/ (Asks(f, k + 1) /\ Timeout(f)[(k + 1) + 1])
    BY <1>1, <2>5, TimeoutUnrolled
  <2>8. Asks(e, k) => (Timeout(f)[(k + 1) + 1] <=> Timeout(e)[k + 1])
    BY <1>3, <2>4
  <2>9. k \in DOMAIN e /\ ~(Timeout(f)[k + 1] <=> Timeout(e)[k])
    OBVIOUS
  <2>10. (TimesOut(f, k + 1) <=> TimesOut(e, k)) /\ (Asks(f, k + 1) <=> Asks(e, k))
    BY <1>3, <2>9
  <2> HIDE DEF Differ
  <2> QED BY <2>6, <2>7, <2>8, <2>9, <2>10
<1>5. Timeout(f)[i + 1] <=> Timeout(e)[i]
  BY <1>4
<1> QED BY <1>5 DEF f

\* The first layer of some kinds, under a layer of another.
LEMMA FirstBelow ==
  ASSUME NEW x \in LayerSet, NEW e \in Error, NEW kinds, x.kind \notin kinds, Is(e, kinds)
  PROVE  First(<<x>> \o e, kinds) = First(e, kinds) + 1
<1> DEFINE f == <<x>> \o e
           m == First(e, kinds)
<1>1. /\ f \in Error /\ Len(e) \in Nat /\ DOMAIN e = 1 .. Len(e) /\ DOMAIN f = 1 .. Len(e) + 1
      /\ f[1] = x /\ \A k \in DOMAIN e : f[k + 1] = e[k]
  BY ErrorParts, LayerOnTop
<1>2. m \in DOMAIN e /\ e[m].kind \in kinds /\ \A j \in 1 .. m - 1 : e[j].kind \notin kinds
  BY FirstExists
<1>3. Is(f, kinds)
  BY IsOnTop
<1> HIDE DEF f, m
<1>4. /\ First(f, kinds) \in DOMAIN f /\ f[First(f, kinds)].kind \in kinds
      /\ \A j \in 1 .. First(f, kinds) - 1 : f[j].kind \notin kinds
  BY <1>1, <1>3, FirstExists
<1> DEFINE p == First(f, kinds)
<1> HIDE DEF p
<1>5. p \in 1 .. Len(e) + 1 /\ f[p].kind \in kinds /\ \A j \in 1 .. p - 1 : f[j].kind \notin kinds
  BY <1>1, <1>4 DEF p
<1>6. p # 1 /\ p - 1 \in DOMAIN e /\ f[p] = e[p - 1]
  BY <1>1, <1>5
<1>7. f[m + 1] = e[m] /\ m \in Nat
  BY <1>1, <1>2
<1>8. ~(m + 1 < p) /\ ~(p - 1 < m)
  BY <1>1, <1>2, <1>5, <1>6, <1>7
<1>9. p = m + 1
  BY <1>1, <1>5, <1>7, <1>8
<1> QED BY <1>9 DEF p, f, m

(***************************************************************************)
(* Transience.                                                             *)
(***************************************************************************)

\* The causes worth a retry are the four that are looked for last.
LEMMA CauseTransient ==
  ASSUME NEW e
  PROVE  CauseOf(e) \in {"dns", "refused", "reset", "timeout"} <=>
           /\ ~Is(e, {"tooLarge"})
           /\ ~Is(e, {"tls"})
           /\ \/ Is(e, {"dns"}) \/ Is(e, {"refused"}) \/ isReset(e) \/ isTimeout(e)
<1> DEFINE found == {i \in DOMAIN Causes : HasCause(e)[Causes[i]]}
<1>1. /\ (1 \in found <=> Is(e, {"tooLarge"})) /\ (2 \in found <=> Is(e, {"tls"}))
      /\ (3 \in found <=> Is(e, {"dns"}))      /\ (4 \in found <=> Is(e, {"refused"}))
      /\ (5 \in found <=> isReset(e))          /\ (6 \in found <=> isTimeout(e))
      /\ found \subseteq {1, 2, 3, 4, 5, 6}
  <2>1. DOMAIN Causes = {1, 2, 3, 4, 5, 6}
    BY DEF Causes
  <2>2. /\ Causes[1] = "too_large" /\ Causes[2] = "tls" /\ Causes[3] = "dns"
        /\ Causes[4] = "refused" /\ Causes[5] = "reset" /\ Causes[6] = "timeout"
    BY DEF Causes
  <2>3. /\ HasCause(e)["too_large"] = Is(e, {"tooLarge"})
        /\ HasCause(e)["tls"] = Is(e, {"tls"})
        /\ HasCause(e)["dns"] = Is(e, {"dns"})
        /\ HasCause(e)["refused"] = Is(e, {"refused"})
        /\ HasCause(e)["reset"] = isReset(e)
        /\ HasCause(e)["timeout"] = isTimeout(e)
    BY Zenon DEF HasCause
  <2> QED BY <2>1, <2>2, <2>3
<1>2. CauseOf(e) = IF found = {} THEN "unknown"
                   ELSE Causes[CHOOSE i \in found : \A j \in found : i <= j]
  BY DEF CauseOf
<1> HIDE DEF found
<1>3. CASE found = {}
  BY <1>1, <1>2, <1>3
<1>4. CASE found # {}
  <2>1. PICK m \in found : \A j \in found : m <= j
    BY <1>1, <1>4, LeastNatural
  <2>2. CauseOf(e) = Causes[m]
    <3> DEFINE c == CHOOSE i \in found : \A j \in found : i <= j
    <3>1. c \in found /\ \A j \in found : c <= j
      BY <2>1
    <3> HIDE DEF c
    <3>2. c \in {1, 2, 3, 4, 5, 6} /\ m \in {1, 2, 3, 4, 5, 6} /\ c <= m /\ m <= c
      BY <1>1, <2>1, <3>1
    <3>3. c = m
      BY <3>2
    <3> QED BY <1>2, <1>4, <3>3 DEF c
  <2>3. m \in {1, 2, 3, 4, 5, 6}
    BY <1>1, <2>1
  <2>4. /\ 1 \notin found /\ 2 \notin found <=> m \notin {1, 2}
        /\ m \in {3, 4, 5, 6} => 3 \in found \/ 4 \in found \/ 5 \in found \/ 6 \in found
    BY <2>1, <2>3
  <2>5. Causes[m] \in {"dns", "refused", "reset", "timeout"} <=> m \notin {1, 2}
    BY <2>3 DEF Causes
  <2> QED BY <1>1, <2>2, <2>3, <2>4, <2>5
<1> QED BY <1>3, <1>4

\* What a layer that no rule looks for is put on is worth the retry it was: the
\* prefix and the hint of an exhausted call, the prefix of a redaction.
LEMMA PrefixKeepsTransience ==
  ASSUME NEW x \in LayerSet, x.kind \in {"wrap", "hint"},
         NEW e \in Error, ~Is(e, {"url"})
  PROVE  IsTransient(<<x>> \o e) <=> IsTransient(e)
<1> DEFINE f == <<x>> \o e
<1>1. \A kinds : x.kind \notin kinds => (Is(f, kinds) <=> Is(e, kinds))
  BY IsOnTop
<1>2. ASSUME NEW kinds, x.kind \notin kinds, Is(e, kinds)
      PROVE  /\ First(f, kinds) = First(e, kinds) + 1
             /\ First(e, kinds) \in DOMAIN e
             /\ f[First(f, kinds)] = e[First(e, kinds)]
  <2>1. First(f, kinds) = First(e, kinds) + 1
    BY <1>2, FirstBelow
  <2>2. First(e, kinds) \in DOMAIN e
    BY <1>2, FirstExists
  <2>3. \A i \in DOMAIN e : f[i + 1] = e[i]
    BY LayerOnTop
  <2> HIDE DEF f
  <2> QED BY <2>1, <2>2, <2>3
<1>3. ASSUME NEW i \in DOMAIN e  PROVE Timeout(f)[i + 1] <=> Timeout(e)[i]
  BY TimeoutBelow
<1> HIDE DEF f
<1>4. /\ IsPermanent(f) <=> IsPermanent(e)
      /\ Is(f, {"auth", "rateLimit"}) <=> Is(e, {"auth", "rateLimit"})
      /\ IsAttemptTimeout(f) <=> IsAttemptTimeout(e)
      /\ isCallerContextError(f) <=> isCallerContextError(e)
  BY <1>1 DEF IsPermanent, IsAttemptTimeout, isCallerContextError, MatchesDeadline
<1>5. x.kind \notin Transient /\ x.kind \notin NetErrors
  BY DEF Transient, NetErrors
<1>6. /\ Is(f, Transient) <=> Is(e, Transient)
      /\ Is(e, Transient) => f[First(f, Transient)].kind = e[First(e, Transient)].kind
  BY <1>1, <1>2, <1>5
<1>7. isReset(f) <=> isReset(e)
  BY <1>1 DEF isReset
<1>8. isTimeout(f) <=> isTimeout(e)
  <2>1. Is(f, NetErrors) <=> Is(e, NetErrors)
    BY <1>1, <1>5
  <2>2. ASSUME Is(e, NetErrors)
        PROVE  Timeout(f)[First(f, NetErrors)] <=> Timeout(e)[First(e, NetErrors)]
    <3>1. First(f, NetErrors) = First(e, NetErrors) + 1 /\ First(e, NetErrors) \in DOMAIN e
      BY <1>2, <1>5, <2>2
    <3> QED BY <1>3, <3>1
  <2> QED BY <2>1, <2>2 DEF isTimeout
<1>9. CauseOf(f) \in {"dns", "refused", "reset", "timeout"}
        <=> CauseOf(e) \in {"dns", "refused", "reset", "timeout"}
  <2>1. \A kind \in {"tooLarge", "tls", "dns", "refused"} : Is(f, {kind}) <=> Is(e, {kind})
    BY <1>1
  <2> QED BY <1>7, <1>8, <2>1, CauseTransient
<1>10. IsTransient(f) <=> IsTransient(e)
  BY <1>4, <1>6, <1>9 DEF IsTransient
<1> QED BY <1>10 DEF f

\* What lies below an error's outermost layer is the rest of it.
LEMMA BelowOutermost ==
  ASSUME NEW x, NEW t \in Error, <<x>> \o t \in Error
  PROVE  EndOf(<<x>> \o t, 1) = Len(t) + 1 /\ Below(<<x>> \o t, 1) = t
<1> DEFINE f == <<x>> \o t
<1>1. /\ t \in Seq(LayerSet) /\ Len(t) \in Nat /\ f \in Seq(LayerSet)
      /\ Len(f) = Len(t) + 1 /\ \A i \in 1 .. Len(t) : f[i + 1] = t[i]
  BY ErrorParts DEF Error, LayerSet
<1> HIDE DEF f
<1>2. EndOf(f, 1) = Len(f)
  <2>1. \A S : {k \in 1 .. 1 - 1 : k \in S} = {}
    OBVIOUS
  <2> DEFINE joins == {k \in 1 .. 1 - 1 : f[k].kind = "join" /\ 1 <= k + f[k].dur}
  <2>2. joins = {}
    OBVIOUS
  <2> HIDE DEF joins
  <2>3. {Len(f)} \cup {j + f[j].dur : j \in joins} = {Len(f)}
    BY <2>2
  <2>4. EndOf(f, 1) = CHOOSE last \in {Len(f)} : \A other \in {Len(f)} : last <= other
    BY <2>3 DEF EndOf, joins
  <2> QED BY <1>1, <2>4
<1>3. SubSeq(f, 2, Len(f)) = t
  <2> DEFINE s == SubSeq(f, 2, Len(f))
  <2>1. s \in Seq(LayerSet) /\ Len(s) = Len(t) /\ \A i \in 1 .. Len(t) : s[i] = t[i]
    BY <1>1
  <2> HIDE DEF s
  <2>2. s = t
    BY <1>1, <2>1
  <2> QED BY <2>2 DEF s
<1> QED BY <1>1, <1>2, <1>3 DEF Below, f

\* An error is its outermost layer on the rest.
LEMMA OutermostAndRest ==
  ASSUME NEW e \in Error \ {nil}
  PROVE  e[1] \in LayerSet /\ Tail(e) \in Error /\ e = <<e[1]>> \o Tail(e)
<1>1. e \in Seq(LayerSet) /\ e # <<>>
  BY DEF Error, LayerSet, nil
<1>2. Len(e) \in Nat \ {0} /\ e[1] \in LayerSet
  BY <1>1, EmptySeq
<1>3. Tail(e) \in Seq(LayerSet) /\ Tail(e) = SubSeq(e, 1 + 1, Len(e))
  BY <1>1, HeadTailProperties, TailIsSubSeq
<1>4. SubSeq(e, 1, Len(e)) = <<e[1]>> \o SubSeq(e, 1 + 1, Len(e))
  <2> DEFINE one == 1
  <2>1. one \in 1 .. Len(e) /\ Len(e) \in one .. Len(e)
    BY <1>2
  <2> HIDE DEF one
  <2>2. SubSeq(e, one, Len(e)) = <<e[one]>> \o SubSeq(e, one + 1, Len(e))
    BY <1>1, <2>1, SubSeqRecursiveFirst
  <2> QED BY <2>2 DEF one
<1>5. SubSeq(e, 1, Len(e)) = e
  BY <1>1, SubSeqFull
<1> QED BY <1>2, <1>3, <1>4, <1>5 DEF Error, LayerSet

\* One *url.Error reduces to the error it wraps.
LEMMA ReducedOnce ==
  ASSUME NEW x \in LayerSet, x.kind = "url", NEW t \in Error, ~Is(t, {"url"})
  PROVE  reduceURLErrors(<<x>> \o t) = IF t = nil THEN errRequestFailed ELSE nameHangUp(t)
<1> DEFINE f     == <<x>> \o t
           below == Below(f, First(f, {"url"}))
<1>1. Is(f, {"url"}) /\ First(f, {"url"}) = 1 /\ Below(f, 1) = t
  BY LayerOnTop, IsOnTop, FirstOnTop, BelowOutermost
<1>2. below = t
  BY <1>1
<1>3. Peeled(f) = urlErrorCause(f)
  BY <1>1 DEF Peeled
<1>4. urlErrorCause(f) = IF below = nil THEN errRequestFailed ELSE nameHangUp(below)
  BY Zenon DEF urlErrorCause
<1> HIDE DEF f, below
<1>5. Peeled(f) = IF t = nil THEN errRequestFailed ELSE nameHangUp(t)
  BY <1>2, <1>3, <1>4
<1>6. ~Is(Peeled(f), {"url"})
  BY <1>5, CauseOfNothing DEF nameHangUp
<1>7. reduceURLErrors(f) = Peeled(f)
  BY <1>6, OnePeelingReduces
<1> QED BY <1>5, <1>7 DEF f

\* What a *url.Error on an error changes of its verdicts: a hang-up shows only under
\* one, and a timeout may not show through it.
LEMMA UnderURL ==
  ASSUME NEW x \in LayerSet, x.kind = "url", NEW t \in Error, ~Is(t, {"url"})
  PROVE  LET f == <<x>> \o t
         IN  /\ \A kinds : "url" \notin kinds => (Is(f, kinds) <=> Is(t, kinds))
             /\ isTimeout(f) => isTimeout(t)
             /\ isReset(f) <=> t = <<Layer("eof")>> \/ isReset(t)
             /\ IsPermanent(f) <=> IsPermanent(t)
             /\ Is(f, {"auth", "rateLimit"}) <=> Is(t, {"auth", "rateLimit"})
             /\ IsAttemptTimeout(f) <=> IsAttemptTimeout(t)
             /\ isCallerContextError(f) <=> isCallerContextError(t)
             /\ Is(f, Transient) <=> Is(t, Transient)
             /\ Is(t, Transient) => f[First(f, Transient)].kind = t[First(t, Transient)].kind
<1> DEFINE f == <<x>> \o t
<1>1. /\ f \in Error /\ f[1] = x /\ Is(f, {"url"}) /\ First(f, {"url"}) = 1 /\ DOMAIN f = 1 .. Len(t) + 1
      /\ Below(f, 1) = t /\ EndOf(f, 1) = Len(t) + 1 /\ Len(t) \in Nat
  BY LayerOnTop, IsOnTop, FirstOnTop, BelowOutermost, ErrorParts
<1>2. \A kinds : "url" \notin kinds => (Is(f, kinds) <=> Is(t, kinds))
  BY IsOnTop
<1>3. ASSUME NEW kinds, "url" \notin kinds, Is(t, kinds)
      PROVE  f[First(f, kinds)] = t[First(t, kinds)]
  <2>1. First(f, kinds) = First(t, kinds) + 1
    BY <1>3, FirstBelow
  <2>2. First(t, kinds) \in DOMAIN t
    BY <1>3, FirstExists
  <2>3. \A k \in DOMAIN t : f[k + 1] = t[k]
    BY LayerOnTop
  <2> HIDE DEF f
  <2> QED BY <2>1, <2>2, <2>3
<1>4. \A i \in DOMAIN t : Timeout(f)[i + 1] <=> Timeout(t)[i]
  BY TimeoutBelow
<1>6. First(f, NetErrors) = 1 /\ Is(f, NetErrors)
  <2>1. x.kind \in NetErrors
    BY DEF NetErrors
  <2> QED BY <2>1, FirstOnTop, IsOnTop
<1> HIDE DEF f
<1>7. isTimeout(f) => isTimeout(t)
  <2> SUFFICES ASSUME isTimeout(f)  PROVE isTimeout(t)
    OBVIOUS
  <2>1. Timeout(f)[1]
    BY <1>6 DEF isTimeout
  <2>2. Asks(f, 1) /\ Timeout(f)[1 + 1]
    <3>1. 1 \in DOMAIN f
      BY <1>1
    <3>2. ~TimesOut(f, 1)
      BY <1>1 DEF TimesOut
    <3> QED BY <1>1, <2>1, <3>1, <3>2, TimeoutUnrolled
  <2>3. 1 \in DOMAIN t
    BY <1>1, <2>2, ErrorParts DEF Asks
  <2>4. Timeout(t)[1]
    BY <1>4, <2>2, <2>3
  <2>5. t[1].kind \in NetErrors
    BY <2>3, <2>4, TimeoutUnrolled DEF TimesOut, Asks, NetErrors
  <2>6. Is(t, NetErrors)
    BY <2>3, <2>5 DEF Is
  <2>7. First(t, NetErrors) = 1
    <3>1. /\ First(t, NetErrors) \in DOMAIN t
          /\ \A j \in 1 .. First(t, NetErrors) - 1 : t[j].kind \notin NetErrors
      BY <2>6, FirstExists
    <3>2. First(t, NetErrors) \in 1 .. Len(t)
      BY <3>1, ErrorParts
    <3> QED BY <2>5, <3>1, <3>2
  <2> QED BY <2>4, <2>6, <2>7 DEF isTimeout
<1>8. /\ IsPermanent(f) <=> IsPermanent(t)
      /\ Is(f, {"auth", "rateLimit"}) <=> Is(t, {"auth", "rateLimit"})
      /\ IsAttemptTimeout(f) <=> IsAttemptTimeout(t)
      /\ isCallerContextError(f) <=> isCallerContextError(t)
  BY <1>2 DEF IsPermanent, IsAttemptTimeout, isCallerContextError, MatchesDeadline
<1>9. /\ Is(f, Transient) <=> Is(t, Transient)
      /\ Is(t, Transient) => f[First(f, Transient)].kind = t[First(t, Transient)].kind
  BY <1>2, <1>3 DEF Transient
<1>10. isReset(f) <=> t = <<Layer("eof")>> \/ isReset(t)
  BY <1>1, <1>2 DEF isReset
<1> QED BY <1>2, <1>7, <1>8, <1>9, <1>10 DEF f

\* What the hang-up is named is retried.
LEMMA HangUpIsTransient == IsTransient(errServerClosed)
<1>1. \A kinds : Is(errServerClosed, kinds) <=> "serverClosed" \in kinds \/ "eof" \in kinds
  BY DEF errServerClosed, Is, Layer
<1>2. isReset(errServerClosed)
  BY <1>1 DEF isReset
<1>3. CauseOf(errServerClosed) \in {"dns", "refused", "reset", "timeout"}
  BY <1>1, <1>2, CauseTransient
<1> QED BY <1>1, <1>3 DEF IsTransient, IsPermanent, isCallerContextError, MatchesDeadline, Transient

\* An error of one layer that names no cause, carries no mark and is no net error
\* is not retried.
LEMMA PlainIsFinal ==
  ASSUME NEW x \in LayerSet, x.kind \in {"status", "tooLarge", "opaque", "requestFailed"}
  PROVE  ~IsTransient(<<x>>)
<1>1. \A kinds : Is(<<x>>, kinds) <=> x.kind \in kinds
  BY OfOneLayer
<1> DEFINE e == <<x>>
<1> HIDE DEF e
<1>2. ~isReset(e) /\ ~isTimeout(e)
  BY <1>1 DEF e, isReset, isTimeout, NetErrors
<1>3. ~Is(e, Transient) /\ ~Is(e, {"dns"}) /\ ~Is(e, {"refused"}) /\ ~IsAttemptTimeout(e)
  BY <1>1 DEF e, Transient, IsAttemptTimeout
<1>4. ~IsTransient(e)
  BY <1>2, <1>3, CauseTransient DEF IsTransient
<1> QED BY <1>4 DEF e

\* The reduction of a retryable error is retryable: the *url.Error it drops gave the
\* verdict nothing but the hang-up, which is named.
LEMMA ReductionKeepsTransience ==
  ASSUME NEW x \in LayerSet, x.kind = "url", NEW t \in Error, ~Is(t, {"url"}),
         IsTransient(<<x>> \o t)
  PROVE  IsTransient(reduceURLErrors(<<x>> \o t))
<1> DEFINE f == <<x>> \o t
<1>1. /\ \A kinds : "url" \notin kinds => (Is(f, kinds) <=> Is(t, kinds))
      /\ isTimeout(f) => isTimeout(t)
      /\ isReset(f) <=> t = <<Layer("eof")>> \/ isReset(t)
      /\ IsPermanent(f) <=> IsPermanent(t)
      /\ Is(f, {"auth", "rateLimit"}) <=> Is(t, {"auth", "rateLimit"})
      /\ IsAttemptTimeout(f) <=> IsAttemptTimeout(t)
      /\ isCallerContextError(f) <=> isCallerContextError(t)
      /\ Is(f, Transient) <=> Is(t, Transient)
      /\ Is(t, Transient) => f[First(f, Transient)].kind = t[First(t, Transient)].kind
  BY UnderURL
<1>2. IsTransient(f)
  OBVIOUS
<1> HIDE DEF f
<1>3. CASE t = nil
  <2>1. \A kinds : ~Is(t, kinds)
    BY <1>3 DEF Is, nil
  <2>2. ~isReset(f) /\ ~isTimeout(f)
    BY <1>1, <1>3, <2>1 DEF isReset, isTimeout, nil
  <2>3. ~Is(f, Transient) /\ ~Is(f, {"dns"}) /\ ~Is(f, {"refused"}) /\ ~IsAttemptTimeout(f)
    BY <1>1, <2>1 DEF IsAttemptTimeout
  <2> QED BY <1>2, <2>2, <2>3, CauseTransient DEF IsTransient
<1>4. CASE t = <<Layer("eof")>>
  <2>1. nameHangUp(t) = errServerClosed /\ t # nil
    BY <1>4 DEF nameHangUp, nil
  <2> QED BY <2>1, HangUpIsTransient, ReducedOnce
<1>5. CASE t # nil /\ t # <<Layer("eof")>>
  <2>1. reduceURLErrors(<<x>> \o t) = t
    BY <1>5, ReducedOnce DEF nameHangUp
  <2>2. CauseOf(f) \in {"dns", "refused", "reset", "timeout"}
          => CauseOf(t) \in {"dns", "refused", "reset", "timeout"}
    <3>1. \A kind \in {"tooLarge", "tls", "dns", "refused"} : Is(f, {kind}) <=> Is(t, {kind})
      BY <1>1
    <3> QED BY <1>1, <1>5, <3>1, CauseTransient
  <2>3. IsTransient(t)
    BY <1>1, <1>2, <2>2 DEF IsTransient
  <2> QED BY <2>1, <2>3
<1> QED BY <1>3, <1>4, <1>5

\* And it makes no other error retryable but one whose timeout the *url.Error hid.
LEMMA ReductionShowsTimeouts ==
  ASSUME NEW x \in LayerSet, x.kind = "url", NEW t \in Error, ~Is(t, {"url"}),
         IsTransient(reduceURLErrors(<<x>> \o t)), ~IsTransient(<<x>> \o t)
  PROVE  ~isTimeout(<<x>> \o t) /\ isTimeout(reduceURLErrors(<<x>> \o t))
<1> DEFINE f == <<x>> \o t
<1>1. /\ \A kinds : "url" \notin kinds => (Is(f, kinds) <=> Is(t, kinds))
      /\ isReset(f) <=> t = <<Layer("eof")>> \/ isReset(t)
      /\ IsPermanent(f) <=> IsPermanent(t)
      /\ Is(f, {"auth", "rateLimit"}) <=> Is(t, {"auth", "rateLimit"})
      /\ IsAttemptTimeout(f) <=> IsAttemptTimeout(t)
      /\ isCallerContextError(f) <=> isCallerContextError(t)
      /\ Is(f, Transient) <=> Is(t, Transient)
      /\ Is(t, Transient) => f[First(f, Transient)].kind = t[First(t, Transient)].kind
  BY UnderURL
<1>2. ~IsTransient(f)
  OBVIOUS
<1> HIDE DEF f
<1>3. t # nil
  <2> SUFFICES ASSUME t = nil  PROVE FALSE
    OBVIOUS
  <2>1. reduceURLErrors(<<x>> \o t) = errRequestFailed
    BY ReducedOnce
  <2>2. Layer("requestFailed") \in LayerSet /\ Layer("requestFailed").kind = "requestFailed"
    BY DEF Layer, LayerSet, Kinds, OwnKinds, LibraryKinds
  <2> QED BY <2>1, <2>2, PlainIsFinal DEF errRequestFailed
<1>4. t # <<Layer("eof")>>
  <2> SUFFICES ASSUME t = <<Layer("eof")>>  PROVE FALSE
    OBVIOUS
  <2>1. \A kinds : Is(t, kinds) <=> "eof" \in kinds
    BY DEF Is, Layer
  <2>2. CauseOf(f) \in {"dns", "refused", "reset", "timeout"}
    BY <1>1, <2>1, CauseTransient
  <2>3. IsTransient(f)
    BY <1>1, <2>1, <2>2 DEF IsTransient, IsPermanent, isCallerContextError, MatchesDeadline, Transient
  <2> QED BY <1>2, <2>3
<1>5. reduceURLErrors(<<x>> \o t) = t
  BY <1>3, <1>4, ReducedOnce DEF nameHangUp
<1>6. IsTransient(t)
  BY <1>5
<1>7. ~(CauseOf(f) \in {"dns", "refused", "reset", "timeout"})
      /\ CauseOf(t) \in {"dns", "refused", "reset", "timeout"}
  BY <1>1, <1>2, <1>6 DEF IsTransient
<1>8. ~isTimeout(f) /\ isTimeout(t)
  <2>1. \A kind \in {"tooLarge", "tls", "dns", "refused"} : Is(f, {kind}) <=> Is(t, {kind})
    BY <1>1
  <2> QED BY <1>1, <1>4, <1>7, <2>1, CauseTransient
<1> QED BY <1>5, <1>8 DEF f

==============================================================================
