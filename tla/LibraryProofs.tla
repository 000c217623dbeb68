--------------------------- MODULE LibraryProofs ---------------------------
(***************************************************************************)
(* Proofs about the two components whose operations a caller of the        *)
(* library may use in any order: OutputQueue, for all limits, sizes,       *)
(* windows and numbers of records, and HealthReporter, for all windows and *)
(* every end of the clock. Neither uses the other.                         *)
(*                                                                         *)
(* The queue: how many bytes wait is a sum over the records, and the limit *)
(* try_push grows to is a loop. Both are recursive functions, so that what *)
(* an operation makes of them is an induction, done here with the least    *)
(* number principle.                                                       *)
(*                                                                         *)
(* The reporter: a snapshot is told by a poll, so what it may say is       *)
(* decided by what the state means at that moment: HealthInv ties the      *)
(* state to the last gap and to the last failure, whether or not anybody   *)
(* polls.                                                                  *)
(***************************************************************************)
EXTENDS OutputQueue, HealthReporter, NaturalsInduction, WellFoundedInduction,
        SequenceTheorems, TLAPS

-----------------------------------------------------------------------------
(* Natural numbers.                                                         *)

LEMMA LeastElement ==
  ASSUME NEW S, S \subseteq Nat, S # {}
  PROVE  \E x \in S : \A y \in S : x <= y
  <1> DEFINE Less == {p \in Nat \X Nat : p[1] < p[2]}
  <1>1. IsWellFoundedOn(Less, Nat)
    BY NatLessThanWellFounded DEF OpToRel
  <1>2. PICK x \in S : \A y \in S : <<y, x>> \notin Less
    BY <1>1, WFMin
  <1>3. \A y \in S : x <= y
    <2> TAKE y \in S
    <2>1. <<y, x>> \notin Less /\ x \in Nat /\ y \in Nat
      BY <1>2
    <2> QED
      BY <2>1
  <1> QED
    BY <1>3

\* Induction, for a property that is given by the set of numbers that have it.
LEMMA SetInduction ==
  ASSUME NEW S, 0 \in S, \A n \in Nat : n \in S => n + 1 \in S
  PROVE  Nat \subseteq S
  <1>1. SUFFICES ASSUME Nat \ S # {} PROVE FALSE
    OBVIOUS
  <1>2. PICK x \in Nat \ S : \A y \in Nat \ S : x <= y
    BY <1>1, LeastElement
  <1>3. x # 0 /\ x - 1 \in Nat
    BY <1>2
  <1>4. x - 1 \notin Nat \ S
    BY <1>2, <1>3
  <1> QED
    BY <1>2, <1>3, <1>4

\* A recursive function of numbers is a CHOOSE: there is one to choose.
Recurs(f, n, start, step) ==
  /\ f \in [0 .. n -> Nat]
  /\ \A k \in 0 .. n : f[k] = IF k = 0 THEN start ELSE step[<<k, f[k - 1]>>]

LEMMA Recursion ==
  ASSUME NEW start \in Nat, NEW step \in [Nat \X Nat -> Nat], NEW n \in Nat
  PROVE  \E f : Recurs(f, n, start, step)
  <1> DEFINE S == {m \in Nat : \E f : Recurs(f, m, start, step)}
  <1>1. 0 \in S
    <2>1. Recurs([k \in 0 .. 0 |-> start], 0, start, step)
      BY DEF Recurs
    <2> QED
      BY <2>1
  <1>2. ASSUME NEW m \in Nat, m \in S
        PROVE  m + 1 \in S
    <2>1. PICK f : Recurs(f, m, start, step)
      BY <1>2
    <2>2. f \in [0 .. m -> Nat] /\ f[m] \in Nat
      BY <2>1 DEF Recurs
    <2>3. PICK last \in Nat : last = step[<<m + 1, f[m]>>]
      <3>1. <<m + 1, f[m]>> \in Nat \X Nat
        BY <2>2
      <3> QED
        BY <3>1
    <2> DEFINE g == [k \in 0 .. m + 1 |-> IF k = m + 1 THEN last ELSE f[k]]
    <2>4. g \in [0 .. m + 1 -> Nat]
      BY <2>2
    <2>5. g[m + 1] = last /\ \A k \in 0 .. m : g[k] = f[k]
      OBVIOUS
    <2> HIDE DEF g
    <2>6. ASSUME NEW k \in 0 .. m + 1
          PROVE  g[k] = IF k = 0 THEN start ELSE step[<<k, g[k - 1]>>]
      <3>1. CASE k = m + 1
        BY <3>1, <2>3, <2>5
      <3>2. CASE k # m + 1
        <4>1. k \in 0 .. m /\ g[k] = f[k]
          BY <3>2, <2>5
        <4>2. f[k] = IF k = 0 THEN start ELSE step[<<k, f[k - 1]>>]
          BY <4>1, <2>1 DEF Recurs
        <4>3. k # 0 => g[k - 1] = f[k - 1]
          BY <4>1, <2>5
        <4> QED
          BY <4>1, <4>2, <4>3
      <3> QED
        BY <3>1, <3>2
    <2>7. Recurs(g, m + 1, start, step)
      BY <2>4, <2>6 DEF Recurs
    <2> QED
      BY <2>7
  <1> HIDE DEF S
  <1>3. Nat \subseteq S
    BY <1>1, <1>2, SetInduction
  <1> QED
    BY <1>3 DEF S

-----------------------------------------------------------------------------
(* The bytes of a queue.                                                    *)

Records == [id : 1 .. MaxRecords, size : Sizes]

\* f[n] is the size of the first n records.
Sums(f, s) == f = [n \in 0 .. Len(s) |-> IF n = 0 THEN 0 ELSE f[n - 1] + s[n].size]

LEMMA SizesAreNat == \A r \in Records : r.size \in Nat \ {0}
  BY OutputAssumption DEF Records

LEMMA SumsExist ==
  ASSUME NEW s \in Seq(Records)
  PROVE  \E f \in [0 .. Len(s) -> Nat] : Sums(f, s)
  <1> DEFINE step == [p \in Nat \X Nat |->
                        p[2] + (IF p[1] \in 1 .. Len(s) THEN s[p[1]].size ELSE 0)]
  <1>1. Len(s) \in Nat /\ \A n \in 1 .. Len(s) : s[n].size \in Nat
    BY SizesAreNat
  <1>2. step \in [Nat \X Nat -> Nat]
    BY <1>1
  <1>3. ASSUME NEW k \in 1 .. Len(s), NEW b \in Nat
        PROVE  step[<<k, b>>] = b + s[k].size
    <2>1. <<k, b>> \in Nat \X Nat
      BY <1>1
    <2> QED
      BY <2>1
  <1> HIDE DEF step
  <1>4. PICK f : Recurs(f, Len(s), 0, step)
    BY <1>1, <1>2, Recursion
  <1>5. \A k \in 0 .. Len(s) : f[k] = IF k = 0 THEN 0 ELSE f[k - 1] + s[k].size
    <2> TAKE k \in 0 .. Len(s)
    <2>1. CASE k = 0
      BY <2>1, <1>4 DEF Recurs
    <2>2. CASE k # 0
      <3>1. f \in [0 .. Len(s) -> Nat]
        BY <1>4 DEF Recurs
      <3>2. k \in 1 .. Len(s) /\ k - 1 \in 0 .. Len(s)
        BY <2>2, <1>1
      <3>3. f[k - 1] \in Nat
        BY <3>1, <3>2
      <3> QED
        BY <2>2, <3>2, <3>3, <1>3, <1>4 DEF Recurs
    <2> QED
      BY <2>1, <2>2
  <1>6. f \in [0 .. Len(s) -> Nat] /\ f = [k \in 0 .. Len(s) |-> f[k]]
    BY <1>4 DEF Recurs
  <1>7. Sums(f, s)
    BY <1>5, <1>6 DEF Sums
  <1> QED
    BY <1>6, <1>7

\* Sequences that begin alike have the same sums.
Alike(s, t, m) ==
  /\ Len(s) \in Nat /\ Len(t) \in Nat /\ m \in Nat /\ m <= Len(s) /\ m <= Len(t)
  /\ \A n \in 1 .. m : s[n] = t[n]

LEMMA SumsAgree ==
  ASSUME NEW s, NEW t, NEW m, Alike(s, t, m), NEW f, Sums(f, s), NEW g, Sums(g, t)
  PROVE  f[m] = g[m]
  <1> USE DEF Alike
  <1> DEFINE S == {n \in Nat : n <= m => f[n] = g[n]}
  <1>1. 0 \in S
    BY DEF Sums
  <1>2. ASSUME NEW n \in Nat, n \in S
        PROVE  n + 1 \in S
    <2> SUFFICES ASSUME n + 1 <= m PROVE f[n + 1] = g[n + 1]
      OBVIOUS
    <2>1. n + 1 \in 0 .. Len(s) /\ n + 1 \in 0 .. Len(t) /\ n + 1 \in 1 .. m
      OBVIOUS
    <2>2. f[n + 1] = f[n] + s[n + 1].size
      BY <2>1 DEF Sums
    <2>3. g[n + 1] = g[n] + t[n + 1].size
      BY <2>1 DEF Sums
    <2>4. f[n] = g[n]
      BY <1>2
    <2> QED
      BY <2>1, <2>2, <2>3, <2>4
  <1> HIDE DEF S
  <1>3. Nat \subseteq S
    BY <1>1, <1>2, SetInduction
  <1> QED
    BY <1>3 DEF S

LEMMA BytesAre ==
  ASSUME NEW s \in Seq(Records), NEW f, Sums(f, s)
  PROVE  Buffer!Bytes(s) = f[Len(s)] /\ f \in [0 .. Len(s) -> Nat]
  <1> DEFINE sum == CHOOSE g : Sums(g, s)
  <1>1. Buffer!Bytes(s) = sum[Len(s)]
    BY DEF Buffer!Bytes, Sums
  <1>2. PICK h \in [0 .. Len(s) -> Nat] : Sums(h, s)
    BY SumsExist
  <1>3. Sums(sum, s)
    BY <1>2
  <1> HIDE DEF sum
  <1>4. \A n \in 0 .. Len(s) : Alike(s, s, n)
    BY DEF Alike
  <1>5. sum[Len(s)] = f[Len(s)]
    BY <1>3, <1>4, SumsAgree
  <1>6. \A n \in 0 .. Len(s) : f[n] = h[n]
    BY <1>2, <1>4, SumsAgree
  <1>7. f = [n \in 0 .. Len(s) |-> f[n]]
    BY DEF Sums
  <1>8. f \in [0 .. Len(s) -> Nat]
    BY <1>2, <1>6, <1>7
  <1> QED
    BY <1>1, <1>5, <1>8

LEMMA BytesOfNone == Buffer!Bytes(<<>>) = 0
  <1>1. <<>> \in Seq(Records) /\ Len(<<>>) = 0
    OBVIOUS
  <1>2. PICK f : Sums(f, <<>>)
    BY <1>1, SumsExist
  <1>3. f[0] = 0
    BY <1>1, <1>2 DEF Sums
  <1> QED
    BY <1>1, <1>2, <1>3, BytesAre

LEMMA BytesAreNat ==
  ASSUME NEW s \in Seq(Records)
  PROVE  Buffer!Bytes(s) \in Nat
  <1>1. PICK f : Sums(f, s)
    BY SumsExist
  <1> QED
    BY <1>1, BytesAre

\* try_push adds the size of the record it appends.
LEMMA BytesOfAppend ==
  ASSUME NEW s \in Seq(Records), NEW r \in Records
  PROVE  Buffer!Bytes(Append(s, r)) = Buffer!Bytes(s) + r.size
  <1> DEFINE t == Append(s, r)
  <1>1. /\ t \in Seq(Records) /\ Len(s) \in Nat /\ Len(t) = Len(s) + 1
        /\ \A n \in 1 .. Len(s) : t[n] = s[n]
        /\ t[Len(t)] = r
    OBVIOUS
  <1> HIDE DEF t
  <1>2. PICK f : Sums(f, s)
    BY SumsExist
  <1>3. PICK g : Sums(g, t)
    BY <1>1, SumsExist
  <1>4. f[Len(s)] = g[Len(s)]
    <2>1. Alike(s, t, Len(s))
      BY <1>1 DEF Alike
    <2> QED
      BY <2>1, <1>2, <1>3, SumsAgree
  <1>5. g[Len(t)] = g[Len(t) - 1] + t[Len(t)].size
    BY <1>1, <1>3 DEF Sums
  <1>6. Buffer!Bytes(s) = f[Len(s)]
    BY <1>2, BytesAre
  <1>7. Buffer!Bytes(t) = g[Len(t)]
    BY <1>1, <1>3, BytesAre
  <1>8. Len(t) - 1 = Len(s)
    BY <1>1
  <1>9. Buffer!Bytes(t) = Buffer!Bytes(s) + r.size
    BY <1>1, <1>4, <1>5, <1>6, <1>7, <1>8
  <1> QED
    BY <1>9 DEF t

\* pop takes the size of the first record off.
LEMMA BytesOfTail ==
  ASSUME NEW s \in Seq(Records), s # <<>>
  PROVE  Buffer!Bytes(s) = Buffer!Bytes(Tail(s)) + Head(s).size
  <1> DEFINE t == Tail(s)
  <1>1. /\ t \in Seq(Records) /\ Len(s) \in Nat /\ Len(s) = Len(t) + 1 /\ Len(t) \in Nat
        /\ \A n \in 1 .. Len(t) : t[n] = s[n + 1]
        /\ Head(s) = s[1] /\ s[1].size \in Nat
    BY SizesAreNat
  <1> HIDE DEF t
  <1>2. PICK f : Sums(f, s)
    BY SumsExist
  <1>3. PICK g : Sums(g, t)
    BY <1>1, SumsExist
  <1>4. f \in [0 .. Len(s) -> Nat] /\ g \in [0 .. Len(t) -> Nat]
    BY <1>1, <1>2, <1>3, BytesAre
  <1> DEFINE S == {n \in Nat : n <= Len(t) => f[n + 1] = g[n] + s[1].size}
  <1>5. 0 \in S
    <2>1. f[1] = f[0] + s[1].size /\ f[0] = 0
      BY <1>1, <1>2 DEF Sums
    <2>2. g[0] = 0
      BY <1>1, <1>3 DEF Sums
    <2> QED
      BY <1>1, <2>1, <2>2
  <1>6. ASSUME NEW n \in Nat, n \in S
        PROVE  n + 1 \in S
    <2> SUFFICES ASSUME n + 1 <= Len(t) PROVE f[n + 1 + 1] = g[n + 1] + s[1].size
      OBVIOUS
    <2>1. n + 2 \in 0 .. Len(s) /\ n + 1 \in 1 .. Len(t) /\ n \in 0 .. Len(t)
      BY <1>1
    <2>2. f[n + 2] = f[n + 1] + s[n + 2].size
      BY <1>2, <2>1 DEF Sums
    <2>3. g[n + 1] = g[n] + t[n + 1].size
      <3>1. n + 1 \in 0 .. Len(t) /\ n + 1 # 0 /\ n + 1 - 1 = n
        BY <1>1, <2>1
      <3> QED
        BY <1>3, <3>1 DEF Sums
    <2>4. f[n + 1] = g[n] + s[1].size /\ g[n] \in Nat
      BY <1>6, <1>4, <2>1
    <2>5. t[n + 1] = s[n + 2] /\ s[n + 2].size \in Nat
      BY <1>1, <2>1, SizesAreNat
    <2> QED
      BY <1>1, <2>2, <2>3, <2>4, <2>5
  <1> HIDE DEF S
  <1>7. Nat \subseteq S
    BY <1>5, <1>6, SetInduction
  <1>8. f[Len(t) + 1] = g[Len(t)] + s[1].size
    BY <1>1, <1>7 DEF S
  <1>9. Buffer!Bytes(s) = f[Len(s)]
    BY <1>2, BytesAre
  <1>10. Buffer!Bytes(t) = g[Len(t)]
    BY <1>1, <1>3, BytesAre
  <1>11. Buffer!Bytes(s) = Buffer!Bytes(t) + Head(s).size
    BY <1>1, <1>8, <1>9, <1>10
  <1> QED
    BY <1>11 DEF t

-----------------------------------------------------------------------------
(* The limit of a queue.                                                    *)

LEMMA GrownIs ==
  ASSUME NEW b \in 1 .. Max
  PROVE  /\ Grown(b) \in b .. Max
         /\ Grown(b) = Max \/ Grown(b) > b
  <1>1. Max \in Nat
    BY OutputAssumption
  <1>2. CASE b = Max
    BY <1>1, <1>2 DEF Grown
  <1>3. CASE b # Max
    <2>1. 2 * b > b /\ Grown(b) = IF 2 * b <= Max THEN 2 * b ELSE Max
      BY <1>1, <1>3 DEF Grown, Smaller
    <2> QED
      BY <1>1, <2>1
  <1> QED
    BY <1>2, <1>3

\* What try_push may make of the limit: it grows only for a record that needs it,
\* and gives up only at the maximum.
GrownFor(bytes, required) ==
  /\ bytes \in limit .. Max
  /\ required > bytes => bytes = Max
  /\ required <= limit => bytes = limit

LEMMA LimitForGrows ==
  ASSUME limit \in 1 .. Max, NEW required \in Nat
  PROVE  GrownFor(LimitFor(required), required)
  <1> DEFINE doubled == CHOOSE f : f = [n \in 0 .. Max |->
                          IF n = 0 THEN limit ELSE Grown(f[n - 1])]
             Stop(n) == required <= doubled[n] \/ doubled[n] = Max
             times == CHOOSE n \in 0 .. Max : Stop(n) /\ \A m \in 0 .. n - 1 : doubled[m] < required
  <1>1. LimitFor(required) = doubled[times]
    BY DEF LimitFor
  <1>2. Max \in Nat \ {0}
    BY OutputAssumption
  <1>3. doubled = [n \in 0 .. Max |-> IF n = 0 THEN limit ELSE Grown(doubled[n - 1])]
    <2> DEFINE step == [p \in Nat \X Nat |-> IF Grown(p[2]) \in Nat THEN Grown(p[2]) ELSE 0]
    <2>1. step \in [Nat \X Nat -> Nat] /\ limit \in Nat
      BY <1>2
    <2>2. \A n, b \in Nat : Grown(b) \in Nat /\ step[<<n, b>>] = Grown(b)
      <3> TAKE n, b \in Nat
      <3>1. Grown(b) \in Nat
        BY <1>2 DEF Grown, Smaller
      <3>2. <<n, b>> \in Nat \X Nat
        OBVIOUS
      <3> QED
        BY <3>1, <3>2
    <2> HIDE DEF step
    <2>3. PICK f : Recurs(f, Max, limit, step)
      BY <1>2, <2>1, Recursion
    <2>4. \A n \in 0 .. Max : f[n] = IF n = 0 THEN limit ELSE Grown(f[n - 1])
      <3> TAKE n \in 0 .. Max
      <3>1. n # 0 => n \in Nat /\ f[n - 1] \in Nat
        BY <1>2, <2>3 DEF Recurs
      <3> QED
        BY <2>2, <2>3, <3>1 DEF Recurs
    <2>5. f = [n \in 0 .. Max |-> f[n]]
      BY <2>3 DEF Recurs
    <2>6. f = [n \in 0 .. Max |-> IF n = 0 THEN limit ELSE Grown(f[n - 1])]
      BY <2>4, <2>5
    <2> QED
      BY <2>6
  <1> HIDE DEF doubled
  <1> DEFINE S == {n \in Nat : n <= Max =>
                     doubled[n] \in limit .. Max /\ (doubled[n] = Max \/ doubled[n] >= limit + n)}
  <1>4. 0 \in S
    BY <1>2, <1>3
  <1>5. ASSUME NEW n \in Nat, n \in S
        PROVE  n + 1 \in S
    <2> SUFFICES ASSUME n + 1 <= Max
                 PROVE  /\ doubled[n + 1] \in limit .. Max
                        /\ doubled[n + 1] = Max \/ doubled[n + 1] >= limit + (n + 1)
      OBVIOUS
    <2>1. doubled[n + 1] = Grown(doubled[n])
      BY <1>2, <1>3
    <2>2. doubled[n] \in limit .. Max /\ (doubled[n] = Max \/ doubled[n] >= limit + n)
      BY <1>2, <1>5
    <2>3. doubled[n] \in 1 .. Max
      BY <1>2, <2>2
    <2>4. /\ Grown(doubled[n]) \in doubled[n] .. Max
          /\ Grown(doubled[n]) = Max \/ Grown(doubled[n]) > doubled[n]
      BY <2>3, GrownIs
    <2> QED
      BY <1>2, <2>1, <2>2, <2>4
  <1> HIDE DEF S
  <1>6. Nat \subseteq S
    BY <1>4, <1>5, SetInduction
  <1>7. \A n \in 0 .. Max : doubled[n] \in limit .. Max
    BY <1>2, <1>6 DEF S
  <1>8. doubled[0] = limit
    BY <1>2, <1>3
  <1>9. doubled[Max] = Max
    <2>1. doubled[Max] \in limit .. Max /\ (doubled[Max] = Max \/ doubled[Max] >= limit + Max)
      BY <1>2, <1>6 DEF S
    <2> QED
      BY <1>2, <2>1
  <1>10. times \in 0 .. Max /\ Stop(times) /\ \A m \in 0 .. times - 1 : doubled[m] < required
    <2> DEFINE Stops == {n \in 0 .. Max : Stop(n)}
    <2>1. Stops \subseteq Nat /\ Max \in Stops
      BY <1>2, <1>9
    <2>2. PICK n \in Stops : \A m \in Stops : n <= m
      BY <2>1, LeastElement
    <2>3. \A m \in 0 .. n - 1 : doubled[m] < required
      <3> TAKE m \in 0 .. n - 1
      <3>1. m \in 0 .. Max /\ m \notin Stops
        BY <1>2, <2>2
      <3>2. doubled[m] \in Nat /\ ~(required <= doubled[m])
        BY <1>7, <3>1
      <3> QED
        BY <3>2
    <2> QED
      BY <2>2, <2>3
  <1> HIDE DEF times
  <1>11. doubled[times] \in limit .. Max /\ (required > doubled[times] => doubled[times] = Max)
    BY <1>7, <1>10
  <1>12. ASSUME required <= limit PROVE doubled[times] = limit
    <2>1. times = 0
      <3> SUFFICES ASSUME times # 0 PROVE FALSE
        OBVIOUS
      <3>1. 0 \in 0 .. times - 1
        BY <1>10
      <3>2. doubled[0] < required
        BY <1>10, <3>1
      <3> QED
        BY <1>8, <1>12, <3>2
    <2> QED
      BY <1>8, <2>1
  <1> QED
    BY <1>1, <1>11, <1>12 DEF GrownFor

-----------------------------------------------------------------------------
(* The inductive invariant of the queue.                                    *)

\* Every record offered is refused, waits, is written or was lost by a failed write.
Accounted == offered = dropped + Len(entries) + Len(stdout) + failed

QueueInv == TypeOK /\ Accounted

\* A state that speaks of the maximum is told only at the maximum.
Told(word, bytes) ==
  /\ word \in {"Normal", "Growing", "AtMax", "Dropping"}
  /\ word \in {"AtMax", "Dropping"} => bytes = Max
  /\ word = "Growing" => bytes \in Initial + 1 .. Max - 1
  /\ word = "Normal" => bytes < Max \/ Initial = Max

LEMMA QueueConstants ==
  /\ Initial \in Nat \ {0} /\ Max \in Nat \ {0} /\ Initial <= Max
  /\ LowDuration \in Nat \ {0} /\ MaxRecords \in Nat
  /\ Sizes \subseteq Nat \ {0} /\ Windows \subseteq Nat \ {0}
  BY OutputAssumption

LEMMA QueueTypes ==
  TypeOK <=>
    /\ entries \in Seq(Records)
    /\ used = Buffer!Bytes(entries)
    /\ used <= limit /\ limit \in Initial .. Max
    /\ Told(state, limit)
    /\ high \in 0 .. 2 /\ low \in 0 .. LowDuration - 1
    /\ dropped \in 0 .. MaxRecords /\ offered \in 0 .. MaxRecords /\ failed \in 0 .. MaxRecords
    /\ stdout \in Seq(1 .. MaxRecords)
  BY DEF TypeOK, Told, Records

LEMMA QueueTypesNext ==
  TypeOK' <=>
    /\ entries' \in Seq(Records)
    /\ used' = Buffer!Bytes(entries')
    /\ used' <= limit' /\ limit' \in Initial .. Max
    /\ Told(state', limit')
    /\ high' \in 0 .. 2 /\ low' \in 0 .. LowDuration - 1
    /\ dropped' \in 0 .. MaxRecords /\ offered' \in 0 .. MaxRecords /\ failed' \in 0 .. MaxRecords
    /\ stdout' \in Seq(1 .. MaxRecords)
  BY DEF TypeOK, Told, Records, Buffer!Bytes

LEMMA QueueNumbers ==
  ASSUME TypeOK
  PROVE  /\ used \in Nat /\ limit \in Nat \ {0} /\ limit \in 1 .. Max
         /\ Len(entries) \in Nat /\ Len(stdout) \in Nat
  <1>1. entries \in Seq(Records) /\ used = Buffer!Bytes(entries) /\ limit \in Initial .. Max
        /\ stdout \in Seq(1 .. MaxRecords)
    BY QueueTypes
  <1>2. used \in Nat
    BY <1>1, BytesAreNat
  <1> QED
    BY <1>1, <1>2, QueueConstants

LEMMA QueueStarts == Init => QueueInv
  <1> SUFFICES ASSUME Init PROVE QueueInv
    OBVIOUS
  <1>1. TypeOK
    <2>1. entries = <<>> /\ used = 0
      BY DEF Init
    <2>2. used = Buffer!Bytes(entries)
      BY <2>1, BytesOfNone
    <2>3. Told(state, limit)
      BY QueueConstants DEF Init, Told
    <2> QED
      BY <2>1, <2>2, <2>3, QueueConstants, QueueTypes DEF Init
  <1>2. Accounted
    BY DEF Init, Accounted
  <1> QED
    BY <1>1, <1>2 DEF QueueInv

\* What an Enqueue does, in terms of the sum of the queue: a record is refused when it
\* does not fit under the maximum, and only then.
LEMMA EnqueueSteps ==
  ASSUME QueueInv, NEW size \in Sizes, Enqueue(size)
  PROVE  /\ offered' = offered + 1 /\ offered' \in 1 .. MaxRecords
         /\ limit' \in limit .. Max
         /\ \/ /\ used + size > Max /\ limit' = Max
               /\ dropped' = dropped + 1 /\ state' = "Dropping"
               /\ UNCHANGED <<entries, used>>
            \/ /\ used + size <= limit'
               /\ used' = used + size
               /\ entries' = Append(entries, [id |-> offered', size |-> size])
               /\ state' = IF limit' = Max THEN "AtMax"
                           ELSE IF limit' # limit THEN "Growing" ELSE state
               /\ UNCHANGED dropped
  <1>1. used \in Nat /\ size \in Nat /\ used + size \in Nat /\ limit \in 1 .. Max
    BY QueueNumbers, QueueConstants DEF QueueInv
  <1>2. limit' = LimitFor(used + size)
    BY DEF Enqueue
  <1>3. GrownFor(limit', used + size)
    BY <1>1, <1>2, LimitForGrows
  <1>4. limit' \in limit .. Max /\ (used + size > limit' => limit' = Max)
    BY <1>3 DEF GrownFor
  <1>5. offered' = offered + 1 /\ offered' \in 1 .. MaxRecords
    BY QueueTypes, QueueConstants DEF Enqueue, QueueInv
  <1> QED
    BY <1>4, <1>5 DEF Enqueue

LEMMA EnqueuePreserves ==
  ASSUME QueueInv, NEW size \in Sizes, Enqueue(size)
  PROVE  QueueInv'
  <1>1. TypeOK
    BY DEF QueueInv
  <1>2. UNCHANGED <<high, low, stdout, failed>>
    BY DEF Enqueue, watermarks
  <1>3. offered' = offered + 1 /\ offered' \in 1 .. MaxRecords /\ limit' \in limit .. Max
    BY EnqueueSteps
  <1>4. limit' \in Initial .. Max
    <2>1. limit \in Initial .. Max /\ Initial \in Nat /\ Max \in Nat
      BY <1>1, QueueTypes, QueueConstants
    <2> QED
      BY <1>3, <2>1
  <1>5. /\ offered = dropped + Len(entries) + Len(stdout) + failed
        /\ offered \in Nat /\ dropped \in Nat /\ failed \in Nat
        /\ Len(entries) \in Nat /\ Len(stdout) \in Nat
    BY <1>1, QueueTypes, QueueNumbers DEF QueueInv, Accounted
  <1>6. CASE /\ limit' = Max
             /\ dropped' = dropped + 1 /\ state' = "Dropping"
             /\ UNCHANGED <<entries, used>>
    <2>1. Told(state', limit')
      BY <1>6 DEF Told
    <2>2. Accounted'
      <3>1. Len(entries') = Len(entries) /\ Len(stdout') = Len(stdout) /\ failed' = failed
        BY <1>2, <1>6
      <3>2. offered' = dropped' + Len(entries') + Len(stdout') + failed'
        BY <1>3, <1>6, <1>5, <3>1
      <3> QED
        BY <3>2 DEF Accounted
    <2>3. dropped' \in 0 .. MaxRecords
      <3>1. dropped' \in Nat /\ offered' = dropped' + Len(entries) + Len(stdout) + failed
        BY <1>3, <1>6, <1>5
      <3>2. MaxRecords \in Nat /\ offered' \in 1 .. MaxRecords
        BY <1>3, QueueConstants
      <3> QED
        BY <1>5, <3>1, <3>2
    <2>4. used' <= limit'
      BY <1>1, <1>3, <1>6, QueueNumbers, QueueTypes
    <2>5. TypeOK'
      BY <1>1, <1>2, <1>3, <1>4, <1>6, <2>1, <2>3, <2>4, QueueTypes, QueueTypesNext
    <2> QED
      BY <2>2, <2>5 DEF QueueInv
  <1>7. CASE /\ used + size <= limit'
             /\ used' = used + size
             /\ entries' = Append(entries, [id |-> offered', size |-> size])
             /\ state' = IF limit' = Max THEN "AtMax"
                         ELSE IF limit' # limit THEN "Growing" ELSE state
             /\ UNCHANGED dropped
    <2>1. PICK r : r = [id |-> offered', size |-> size] /\ r \in Records /\ r.size = size
      <3>1. [id |-> offered', size |-> size] \in Records
        BY <1>3 DEF Records
      <3> QED
        BY <3>1
    <2>2. entries' = Append(entries, r) /\ entries \in Seq(Records)
      BY <1>1, <1>7, <2>1, QueueTypes
    <2>3. entries' \in Seq(Records) /\ Len(entries') = Len(entries) + 1
      BY <2>1, <2>2
    <2>4. used' = Buffer!Bytes(entries')
      <3>1. used = Buffer!Bytes(entries)
        BY <1>1, QueueTypes
      <3>2. Buffer!Bytes(Append(entries, r)) = Buffer!Bytes(entries) + r.size
        BY <2>1, <2>2, BytesOfAppend
      <3> QED
        BY <1>7, <2>1, <2>2, <3>1, <3>2
    <2>5. Told(state', limit')
      <3>1. limit \in Initial .. Max /\ Told(state, limit)
        BY <1>1, QueueTypes
      <3>2. CASE limit' = Max
        BY <1>7, <3>2 DEF Told
      <3>3. CASE limit' # Max /\ limit' # limit
        BY <1>3, <1>7, <3>1, <3>3, QueueConstants DEF Told
      <3>4. CASE limit' # Max /\ limit' = limit
        BY <1>7, <3>1, <3>4
      <3> QED
        BY <3>2, <3>3, <3>4
    <2>6. Accounted'
      <3>1. Len(stdout') = Len(stdout) /\ failed' = failed /\ dropped' = dropped
        BY <1>2, <1>7
      <3>2. offered' = dropped' + Len(entries') + Len(stdout') + failed'
        BY <1>3, <1>5, <2>3, <3>1
      <3> QED
        BY <3>2 DEF Accounted
    <2>7. used' <= limit'
      BY <1>7
    <2>8. TypeOK'
      BY <1>1, <1>2, <1>3, <1>4, <1>7, <2>3, <2>4, <2>5, <2>7, QueueTypes, QueueTypesNext
    <2> QED
      BY <2>6, <2>8 DEF QueueInv
  <1> QED
    BY <1>6, <1>7, EnqueueSteps

LEMMA DrainOnePreserves ==
  ASSUME QueueInv, DrainOne
  PROVE  QueueInv'
  <1>1. TypeOK
    BY DEF QueueInv
  <1>2. UNCHANGED <<limit, state, high, low, dropped, offered>>
    BY DEF DrainOne, watermarks
  <1>3. /\ entries \in Seq(Records) /\ entries # <<>>
        /\ entries' = Tail(entries) /\ used' = used - Head(entries).size
    BY <1>1, QueueTypes DEF DrainOne
  <1>4. /\ Head(entries) \in Records /\ entries' \in Seq(Records)
        /\ Len(entries') = Len(entries) - 1
    BY <1>3
  <1>5. Head(entries).id \in 1 .. MaxRecords /\ Head(entries).size \in Nat
    BY <1>4, SizesAreNat DEF Records
  <1>6. used' = Buffer!Bytes(entries')
    <2>1. Buffer!Bytes(entries) = Buffer!Bytes(entries') + Head(entries).size
      BY <1>3, BytesOfTail
    <2>2. Buffer!Bytes(entries') \in Nat
      BY <1>4, BytesAreNat
    <2>3. used = Buffer!Bytes(entries)
      BY <1>1, QueueTypes
    <2> QED
      BY <1>3, <1>5, <2>1, <2>2, <2>3
  <1>7. used' <= limit'
    BY <1>1, <1>2, <1>3, <1>5, QueueNumbers, QueueTypes
  <1>8. /\ stdout' \in Seq(1 .. MaxRecords)
        /\ Len(stdout') + failed' = Len(stdout) + failed + 1
        /\ failed' \in Nat
    <2>1. stdout \in Seq(1 .. MaxRecords) /\ failed \in Nat
      BY <1>1, QueueTypes
    <2>2. CASE stdout' = Append(stdout, Head(entries).id) /\ UNCHANGED failed
      BY <1>5, <2>1, <2>2
    <2>3. CASE failed' = failed + 1 /\ UNCHANGED stdout
      BY <2>1, <2>3
    <2> QED
      BY <2>2, <2>3 DEF DrainOne
  <1>9. Accounted'
    <2>1. /\ offered = dropped + Len(entries) + Len(stdout) + failed
          /\ dropped \in Nat /\ failed \in Nat
      BY <1>1, QueueTypes DEF QueueInv, Accounted
    <2>2. Len(entries) \in Nat /\ Len(stdout) \in Nat /\ Len(stdout') \in Nat
      BY <1>1, <1>8, QueueNumbers
    <2>3. /\ offered' = offered /\ dropped' = dropped /\ Len(entries') = Len(entries) - 1
          /\ Len(stdout') + failed' = Len(stdout) + failed + 1 /\ failed' \in Nat
      BY <1>2, <1>4, <1>8
    <2>4. Len(entries') + 1 = Len(entries) /\ Len(entries') \in Nat
      BY <1>4, <2>2
    <2>5. offered = dropped + Len(entries') + 1 + Len(stdout) + failed
      BY <2>1, <2>2, <2>4
    <2>6. offered = dropped + Len(entries') + (Len(stdout) + failed + 1)
      BY <2>1, <2>2, <2>4, <2>5
    <2>7. offered = dropped + Len(entries') + (Len(stdout') + failed')
      BY <2>3, <2>6
    <2>8. offered = dropped + Len(entries') + Len(stdout') + failed'
      BY <2>1, <2>2, <2>3, <2>4, <2>7
    <2>9. offered' = dropped' + Len(entries') + Len(stdout') + failed'
      BY <2>3, <2>8
    <2> QED
      BY <2>9 DEF Accounted
  <1>10. failed' \in 0 .. MaxRecords
    <2>1. offered = dropped + Len(entries') + Len(stdout') + failed' /\ dropped \in Nat
          /\ offered \in 0 .. MaxRecords
      BY <1>1, <1>2, <1>9, QueueTypes DEF Accounted
    <2>2. Len(entries') \in Nat /\ Len(stdout') \in Nat
      BY <1>4, <1>8
    <2> QED
      BY <1>8, <2>1, <2>2, QueueConstants
  <1>11. TypeOK'
    BY <1>1, <1>2, <1>4, <1>6, <1>7, <1>8, <1>10, QueueTypes, QueueTypesNext
  <1> QED
    BY <1>9, <1>11 DEF QueueInv

\* No window takes the limit below the bytes in use, or out of its range.
LEMMA GrowOnceKeeps ==
  ASSUME TypeOK, GrowOnce
  PROVE  limit' \in Initial .. Max /\ used <= limit' /\ Told(state', limit')
  <1>1. limit \in Initial .. Max /\ limit \in 1 .. Max /\ used <= limit /\ used \in Nat
    BY QueueTypes, QueueNumbers
  <1>2. limit' \in limit .. Max /\ (limit' = Max \/ limit' > limit)
    BY <1>1, GrownIs DEF GrowOnce
  <1>3. limit' \in Initial .. Max /\ used <= limit'
    BY <1>1, <1>2, QueueConstants
  <1>4. CASE limit' = Max
    BY <1>3, <1>4 DEF GrowOnce, Told
  <1>5. CASE limit' # Max
    <2>1. state' = "Growing" /\ limit' \in Initial + 1 .. Max - 1
      BY <1>1, <1>2, <1>3, <1>5, QueueConstants DEF GrowOnce
    <2> QED
      BY <1>3, <2>1 DEF Told
  <1> QED
    BY <1>4, <1>5

LEMMA SettledIsTold ==
  ASSUME NEW bytes \in Initial .. Max
  PROVE  Told(Settled(bytes), bytes)
  BY QueueConstants DEF Settled, Told

LEMMA ShrinkOnceKeeps ==
  ASSUME TypeOK, ShrinkOnce
  PROVE  limit' \in Initial .. Max /\ used <= limit' /\ Told(state', limit')
  <1>1. limit \in Initial .. Max /\ limit \in 1 .. Max /\ used <= limit /\ used \in Nat
    BY QueueTypes, QueueNumbers
  <1>2. limit \div 2 \in Nat /\ limit \div 2 <= limit
    BY <1>1, QueueConstants
  <1>3. Larger(limit \div 2, Initial) \in Initial .. Max
    BY <1>1, <1>2, QueueConstants DEF Larger
  <1>4. limit' = IF Larger(limit \div 2, Initial) >= used
                   THEN Larger(limit \div 2, Initial) ELSE limit
    BY DEF ShrinkOnce
  <1>5. limit' \in Initial .. Max /\ used <= limit'
    BY <1>1, <1>3, <1>4, QueueConstants
  <1>6. state' = Settled(limit')
    BY DEF ShrinkOnce
  <1> QED
    BY <1>5, <1>6, SettledIsTold

LEMMA ObserveWindowPreserves ==
  ASSUME QueueInv, NEW elapsed \in Windows, ObserveWindow(elapsed)
  PROVE  QueueInv'
  <1>1. TypeOK
    BY DEF QueueInv
  <1>2. UNCHANGED <<entries, used, dropped, stdout, offered, failed>>
    BY DEF ObserveWindow
  <1>3. /\ entries \in Seq(Records) /\ used = Buffer!Bytes(entries)
        /\ used <= limit /\ limit \in Initial .. Max /\ Told(state, limit)
        /\ high \in 0 .. 2 /\ low \in 0 .. LowDuration - 1
        /\ dropped \in 0 .. MaxRecords /\ offered \in 0 .. MaxRecords /\ failed \in 0 .. MaxRecords
        /\ stdout \in Seq(1 .. MaxRecords)
    BY <1>1, QueueTypes
  <1>4. /\ limit' \in Initial .. Max /\ used <= limit' /\ Told(state', limit')
        /\ high' \in 0 .. 2 /\ low' \in 0 .. LowDuration - 1
    <2>1. 0 \in 0 .. LowDuration - 1
      BY QueueConstants
    <2>2. CASE HighWindow
      <3>1. high' \in 0 .. 2 /\ low' \in 0 .. LowDuration - 1
        BY <1>3, <2>1, <2>2 DEF HighWindow
      <3>2. CASE GrowOnce
        BY <1>1, <3>1, <3>2, GrowOnceKeeps
      <3>3. CASE UNCHANGED <<limit, state>>
        BY <1>3, <3>1, <3>3
      <3> QED
        BY <2>2, <3>2, <3>3 DEF HighWindow
    <2>3. CASE LowWindow(elapsed)
      <3>1. CASE low' = 0 /\ ShrinkOnce
        BY <1>1, <2>1, <2>3, <3>1, ShrinkOnceKeeps DEF LowWindow
      <3>2. CASE low + elapsed < LowDuration /\ low' = low + elapsed /\ UNCHANGED <<limit, state>>
        <4>1. elapsed \in Nat
          BY QueueConstants
        <4>2. low' \in 0 .. LowDuration - 1
          BY <1>3, <3>2, <4>1, QueueConstants
        <4> QED
          BY <1>3, <2>3, <3>2, <4>2 DEF LowWindow
      <3>3. elapsed \in Nat /\ low \in Nat
        BY <1>3, QueueConstants
      <3>4. (low' = 0 /\ ShrinkOnce) \/
            (low + elapsed < LowDuration /\ low' = low + elapsed /\ UNCHANGED <<limit, state>>)
        BY <2>3, <3>3, QueueConstants DEF LowWindow
      <3> QED
        BY <3>1, <3>2, <3>4
    <2>4. CASE MiddleWindow
      <3>1. high' = 0 /\ low' = 0 /\ limit' = limit /\ state' = Settled(limit')
        BY <2>4 DEF MiddleWindow
      <3> QED
        BY <1>3, <2>1, <3>1, SettledIsTold
    <2> QED
      BY <2>2, <2>3, <2>4 DEF ObserveWindow
  <1>5. TypeOK'
    BY <1>2, <1>3, <1>4, QueueTypesNext
  <1>6. Accounted'
    BY <1>2 DEF QueueInv, Accounted
  <1> QED
    BY <1>5, <1>6 DEF QueueInv

LEMMA QueueNextPreserves ==
  ASSUME QueueInv, [Next]_vars
  PROVE  QueueInv'
  <1>1. CASE UNCHANGED vars
    <2>1. UNCHANGED <<entries, used, limit, state, high, low, dropped, stdout, offered, failed>>
      BY <1>1 DEF vars, watermarks
    <2>2. TypeOK'
      BY <2>1, QueueTypes, QueueTypesNext DEF QueueInv
    <2>3. Accounted'
      BY <2>1 DEF QueueInv, Accounted
    <2> QED
      BY <2>2, <2>3 DEF QueueInv
  <1> QED
    BY <1>1, EnqueuePreserves, DrainOnePreserves, ObserveWindowPreserves DEF Next

LEMMA QueueInvariance == Spec => []QueueInv
  BY QueueStarts, QueueNextPreserves, PTL DEF Spec

\* output/adaptive_queue.rs: for all limits, sizes, windows and numbers of records, the bytes in
\* use are those of the records that wait, they fit under the limit, the limit stays in
\* its range, and the state says no more of the maximum than is so.
THEOREM QueueTypeCorrect == Spec => []TypeOK
  <1>1. QueueInv => TypeOK
    BY DEF QueueInv
  <1> QED
    BY <1>1, QueueInvariance, PTL

-----------------------------------------------------------------------------
(* The queue implements BoundedFifo.                                        *)

\* Whatever the limit is at that moment, a record is taken iff it fits under Max.
LEMMA EnqueueOffers ==
  ASSUME QueueInv, NEW size \in Sizes, Enqueue(size)
  PROVE  Buffer!Offer(size)
  <1>1. /\ used = Buffer!Bytes(entries) /\ used \in Nat /\ size \in Nat
        /\ Max \in Nat /\ limit \in 1 .. Max
    BY QueueTypes, QueueNumbers, QueueConstants DEF QueueInv
  <1>2. offered' = offered + 1 /\ UNCHANGED <<stdout, failed>>
    BY DEF Enqueue
  <1>3. CASE /\ used + size > Max
             /\ dropped' = dropped + 1
             /\ UNCHANGED entries
    <2>1. ~(Buffer!Bytes(entries) + size <= Max)
      BY <1>1, <1>3
    <2> QED
      BY <1>2, <1>3, <2>1 DEF Buffer!Offer
  <1>4. CASE /\ used + size <= limit' /\ limit' \in limit .. Max
             /\ entries' = Append(entries, [id |-> offered', size |-> size])
             /\ UNCHANGED dropped
    <2>1. Buffer!Bytes(entries) + size <= Max
      BY <1>1, <1>4
    <2> QED
      BY <1>2, <1>4, <2>1 DEF Buffer!Offer
  <1> QED
    BY <1>3, <1>4, EnqueueSteps

LEMMA QueueStepsAreFifoSteps ==
  ASSUME QueueInv, [Next]_vars
  PROVE  [Buffer!Next]_(Buffer!vars)
  <1>1. ASSUME NEW size \in Sizes, Enqueue(size)
        PROVE  Buffer!Next
    BY <1>1, EnqueueOffers DEF Buffer!Next
  <1>2. CASE DrainOne
    BY <1>2 DEF DrainOne, Buffer!Next, Buffer!Deliver
  <1>3. ASSUME NEW elapsed \in Windows, ObserveWindow(elapsed)
        PROVE  UNCHANGED Buffer!vars
    BY <1>3 DEF ObserveWindow, Buffer!vars
  <1>4. CASE UNCHANGED vars
    BY <1>4 DEF vars, Buffer!vars
  <1> QED
    BY <1>1, <1>2, <1>3, <1>4 DEF Next

\* docs/configuration.md:36-38, try_push, drain_one: for all limits and sizes, records leave in
\* the order they came, one is refused iff it does not fit under the hard maximum, and every
\* one is waiting, written, counted as dropped or lost by a write that failed.
THEOREM QueueImplementsFifo == Spec => ImplementsFifo
  <1>1. Init => Buffer!Init
    BY DEF Init, Buffer!Init
  <1>2. QueueInv /\ [Next]_vars => [Buffer!Next]_(Buffer!vars)
    BY QueueStepsAreFifoSteps
  <1> QED
    BY <1>1, <1>2, QueueInvariance, PTL DEF Spec, ImplementsFifo, Buffer!Spec

-----------------------------------------------------------------------------
(* What the caller may conclude.                                            *)

\* drain_all, statistics: for all limits and sizes, every record offered was refused and
\* counted, still waits, was written, or went with a write that failed; none is counted twice.
THEOREM EveryRecordIsAccounted == Spec => []Accounted
  <1>1. QueueInv => Accounted
    BY DEF QueueInv
  <1> QED
    BY <1>1, QueueInvariance, PTL

\* Numbers as they were written, then those that wait.
InOrder ==
  /\ \A i, j \in 1 .. Len(stdout) : i < j => stdout[i] < stdout[j]
  /\ \A i, j \in 1 .. Len(entries) : i < j => entries[i].id < entries[j].id
  /\ \A i \in 1 .. Len(stdout), j \in 1 .. Len(entries) : stdout[i] < entries[j].id
  /\ \A i \in 1 .. Len(stdout) : stdout[i] <= offered
  /\ \A j \in 1 .. Len(entries) : entries[j].id <= offered

LEMMA InOrderNext ==
  InOrder' <=>
    /\ \A i, j \in 1 .. Len(stdout') : i < j => stdout'[i] < stdout'[j]
    /\ \A i, j \in 1 .. Len(entries') : i < j => entries'[i].id < entries'[j].id
    /\ \A i \in 1 .. Len(stdout'), j \in 1 .. Len(entries') : stdout'[i] < entries'[j].id
    /\ \A i \in 1 .. Len(stdout') : stdout'[i] <= offered'
    /\ \A j \in 1 .. Len(entries') : entries'[j].id <= offered'
  BY DEF InOrder

LEMMA EnqueueKeepsOrder ==
  ASSUME QueueInv, InOrder, NEW size \in Sizes, Enqueue(size)
  PROVE  InOrder'
  <1>1. /\ offered \in Nat /\ offered' = offered + 1 /\ stdout' = stdout
        /\ stdout \in Seq(1 .. MaxRecords) /\ entries \in Seq(Records)
    <2>1. offered \in Nat /\ stdout \in Seq(1 .. MaxRecords) /\ entries \in Seq(Records)
      BY QueueTypes, QueueConstants DEF QueueInv
    <2> QED
      BY <2>1 DEF Enqueue
  <1>2. \A i \in 1 .. Len(stdout) : stdout[i] \in Nat /\ stdout[i] <= offered
    <2>1. \A i \in 1 .. Len(stdout) : stdout[i] \in 1 .. MaxRecords
      <3>1. stdout \in Seq(1 .. MaxRecords)
        BY <1>1
      <3> QED
        BY <3>1, ElementOfSeq
    <2>2. \A i \in 1 .. Len(stdout) : stdout[i] <= offered
      BY DEF InOrder
    <2> QED
      BY <2>1, <2>2
  <1>3. \A j \in 1 .. Len(entries) : entries[j].id \in Nat /\ entries[j].id <= offered
    <2>1. \A j \in 1 .. Len(entries) : entries[j] \in Records
      BY <1>1
    <2>2. \A j \in 1 .. Len(entries) : entries[j].id <= offered
      BY DEF InOrder
    <2> QED
      BY <2>1, <2>2 DEF Records
  <1>4. CASE entries' = entries
    <2>1. \A i \in 1 .. Len(stdout) : stdout[i] <= offered'
      BY <1>1, <1>2
    <2>2. \A j \in 1 .. Len(entries) : entries[j].id <= offered'
      BY <1>1, <1>3
    <2>3. stdout' = stdout
      BY <1>1
    <2> QED
      BY <1>4, <2>1, <2>2, <2>3, InOrderNext DEF InOrder
  <1>5. CASE entries' = Append(entries, [id |-> offered', size |-> size])
    <2>1. /\ Len(entries') = Len(entries) + 1 /\ Len(entries) \in Nat
          /\ \A j \in 1 .. Len(entries) : entries'[j] = entries[j]
          /\ entries'[Len(entries) + 1].id = offered + 1
      BY <1>1, <1>5
    <2>2. \A i, j \in 1 .. Len(entries') : i < j => entries'[i].id < entries'[j].id
      <3> TAKE i, j \in 1 .. Len(entries')
      <3> HAVE i < j
      <3>1. i \in 1 .. Len(entries) /\ entries'[i] = entries[i]
        BY <2>1
      <3>2. CASE j = Len(entries) + 1
        BY <1>1, <1>3, <2>1, <3>1, <3>2
      <3>3. CASE j # Len(entries) + 1
        <4>1. j \in 1 .. Len(entries) /\ entries'[j] = entries[j]
          BY <2>1, <3>3
        <4> QED
          BY <3>1, <4>1 DEF InOrder
      <3> QED
        BY <3>2, <3>3
    <2>3. \A j \in 1 .. Len(entries') : entries'[j].id <= offered'
      <3> TAKE j \in 1 .. Len(entries')
      <3>1. CASE j = Len(entries) + 1
        BY <1>1, <2>1, <3>1
      <3>2. CASE j # Len(entries) + 1
        <4>1. j \in 1 .. Len(entries) /\ entries'[j] = entries[j]
          BY <2>1, <3>2
        <4> QED
          BY <1>1, <1>3, <4>1
      <3> QED
        BY <3>1, <3>2
    <2>4. \A i \in 1 .. Len(stdout), j \in 1 .. Len(entries') : stdout[i] < entries'[j].id
      <3> TAKE i \in 1 .. Len(stdout), j \in 1 .. Len(entries')
      <3>1. CASE j = Len(entries) + 1
        BY <1>1, <1>2, <2>1, <3>1
      <3>2. CASE j # Len(entries) + 1
        <4>1. j \in 1 .. Len(entries) /\ entries'[j] = entries[j]
          BY <2>1, <3>2
        <4> QED
          BY <4>1 DEF InOrder
      <3> QED
        BY <3>1, <3>2
    <2>5. \A i \in 1 .. Len(stdout) : stdout[i] <= offered'
      BY <1>1, <1>2
    <2>6. \A i, j \in 1 .. Len(stdout) : i < j => stdout[i] < stdout[j]
      BY DEF InOrder
    <2> QED
      BY <1>1, <2>2, <2>3, <2>4, <2>5, <2>6, InOrderNext
  <1> QED
    BY <1>4, <1>5 DEF Enqueue

LEMMA DrainOneKeepsOrder ==
  ASSUME QueueInv, InOrder, DrainOne
  PROVE  InOrder'
  <1>1. /\ offered' = offered /\ entries # <<>> /\ entries' = Tail(entries)
        /\ entries \in Seq(Records) /\ stdout \in Seq(1 .. MaxRecords)
    BY QueueTypes DEF QueueInv, DrainOne
  <1>2. /\ Len(entries) \in Nat \ {0} /\ Len(entries') = Len(entries) - 1
        /\ \A j \in 1 .. Len(entries') : entries'[j] = entries[j + 1]
        /\ Head(entries) = entries[1]
    BY <1>1
  <1>3. \A j \in 1 .. Len(entries') : j + 1 \in 1 .. Len(entries)
    BY <1>2
  <1>4. \A i, j \in 1 .. Len(entries') : i < j => entries'[i].id < entries'[j].id
    <2> TAKE i, j \in 1 .. Len(entries')
    <2> HAVE i < j
    <2>1. i + 1 \in 1 .. Len(entries) /\ j + 1 \in 1 .. Len(entries) /\ i + 1 < j + 1
      BY <1>3
    <2>2. entries[i + 1].id < entries[j + 1].id
      BY <2>1 DEF InOrder
    <2> QED
      BY <1>2, <2>2
  <1>5. \A j \in 1 .. Len(entries') : entries'[j].id <= offered'
    BY <1>1, <1>2, <1>3 DEF InOrder
  <1>6. CASE stdout' = stdout
    <2>1. \A i \in 1 .. Len(stdout), j \in 1 .. Len(entries') : stdout[i] < entries'[j].id
      BY <1>2, <1>3 DEF InOrder
    <2>2. \A i, j \in 1 .. Len(stdout) : i < j => stdout[i] < stdout[j]
      BY DEF InOrder
    <2>3. \A i \in 1 .. Len(stdout) : stdout[i] <= offered
      BY DEF InOrder
    <2> QED
      BY <1>1, <1>4, <1>5, <1>6, <2>1, <2>2, <2>3, InOrderNext
  <1>7. CASE stdout' = Append(stdout, entries[1].id)
    <2>1. entries[1].id \in 1 .. MaxRecords /\ 1 \in 1 .. Len(entries)
      <3>1. 1 \in 1 .. Len(entries) /\ entries[1] \in Records
        BY <1>1, <1>2
      <3> QED
        BY <3>1 DEF Records
    <2>2. /\ Len(stdout') = Len(stdout) + 1 /\ Len(stdout) \in Nat
          /\ \A i \in 1 .. Len(stdout) : stdout'[i] = stdout[i]
          /\ stdout'[Len(stdout) + 1] = entries[1].id
      BY <1>1, <1>7, <2>1
    <2>3. \A i \in 1 .. Len(stdout') : i \in 1 .. Len(stdout) \/ i = Len(stdout) + 1
      BY <2>2
    <2>4. \A i, j \in 1 .. Len(stdout') : i < j => stdout'[i] < stdout'[j]
      <3> TAKE i, j \in 1 .. Len(stdout')
      <3> HAVE i < j
      <3>1. i \in 1 .. Len(stdout) /\ stdout'[i] = stdout[i]
        BY <2>2
      <3>2. CASE j = Len(stdout) + 1
        BY <2>1, <2>2, <3>1, <3>2 DEF InOrder
      <3>3. CASE j \in 1 .. Len(stdout)
        BY <2>2, <3>1, <3>3 DEF InOrder
      <3> QED
        BY <2>3, <3>2, <3>3
    <2>5. \A i \in 1 .. Len(stdout') : stdout'[i] <= offered
      <3> TAKE i \in 1 .. Len(stdout')
      <3>1. CASE i = Len(stdout) + 1
        BY <2>1, <2>2, <3>1 DEF InOrder
      <3>2. CASE i \in 1 .. Len(stdout)
        BY <2>2, <3>2 DEF InOrder
      <3> QED
        BY <2>3, <3>1, <3>2
    <2>6. \A i \in 1 .. Len(stdout'), j \in 1 .. Len(entries') : stdout'[i] < entries'[j].id
      <3> TAKE i \in 1 .. Len(stdout'), j \in 1 .. Len(entries')
      <3>1. j + 1 \in 1 .. Len(entries) /\ entries'[j] = entries[j + 1] /\ 1 < j + 1
        BY <1>2, <1>3
      <3>2. CASE i = Len(stdout) + 1
        BY <2>1, <2>2, <3>1, <3>2 DEF InOrder
      <3>3. CASE i \in 1 .. Len(stdout)
        BY <2>2, <3>1, <3>3 DEF InOrder
      <3> QED
        BY <2>3, <3>2, <3>3
    <2> QED
      BY <1>1, <1>4, <1>5, <2>4, <2>5, <2>6, InOrderNext
  <1> QED
    BY <1>2, <1>6, <1>7 DEF DrainOne

\* try_push, pop: for all limits and sizes, records are written in the order in which they were
\* offered, none twice, whatever was dropped or lost in between.
THEOREM WrittenInOrder == Spec => []InOrder
  <1>1. Init => InOrder
    BY DEF Init, InOrder
  <1>2. QueueInv /\ InOrder /\ [Next]_vars => InOrder'
    <2> SUFFICES ASSUME QueueInv, InOrder, [Next]_vars PROVE InOrder'
      OBVIOUS
    <2>1. ASSUME NEW elapsed \in Windows, ObserveWindow(elapsed)
          PROVE  InOrder'
      <3>1. UNCHANGED <<entries, stdout, offered>>
        BY <2>1 DEF ObserveWindow
      <3> QED
        BY <3>1, InOrderNext DEF InOrder
    <2>2. CASE UNCHANGED vars
      <3>1. UNCHANGED <<entries, stdout, offered>>
        BY <2>2 DEF vars
      <3> QED
        BY <3>1, InOrderNext DEF InOrder
    <2> QED
      BY <2>1, <2>2, EnqueueKeepsOrder, DrainOneKeepsOrder DEF Next
  <1> QED
    BY <1>1, <1>2, QueueInvariance, PTL DEF Spec

-----------------------------------------------------------------------------
(* The health reporter.                                                     *)

USE HealthAssumption

\* What goes down stays down until a gap or ready() overrides it.
DownInv == downSince => health \in {"Unhealthy", "Stopping"}

\* The history of gaps is last_gap_at, but for what ready() sets aside.
GapInv == gapSince # Never => gapSince = lastGap

\* A healthy state has no recent gap, and time passes only away from one.
HealthyInv == health = "Healthy" => gapSince = Never \/ now - gapSince >= RecoveryWindow

HealthInv == HealthTypeOK /\ DownInv /\ GapInv /\ HealthyInv

LEMMA HealthStarts == HealthInit => HealthInv
  <1> SUFFICES ASSUME HealthInit PROVE HealthInv
    OBVIOUS
  <1>1. 0 \in Times /\ Never \notin Nat
    BY DEF Times
  <1>2. HealthTypeOK
    BY <1>1 DEF HealthInit, HealthTypeOK, States
  <1> QED
    BY <1>2 DEF HealthInit, HealthInv, DownInv, GapInv, HealthyInv

\* A gap leaves the machine degraded or unhealthy, with a series that ends now.
LEMMA DegradeEffect ==
  ASSUME HealthInv, Degrade
  PROVE  /\ health' \in {"Degraded", "Unhealthy"}
         /\ lastGap' = now /\ firstGap' \in 0 .. now
         /\ health' = "Degraded" => now - firstGap' < GapWindow
         /\ gapSince' = now /\ ~downSince'
  <1>1. firstGap' \in 0 .. now
    BY DEF HealthInv, HealthTypeOK, Degrade, Times
  <1>2. health' = IF now - firstGap' >= GapWindow THEN "Unhealthy" ELSE "Degraded"
    BY DEF Degrade, Severity
  <1>3. now \in Nat
    BY DEF HealthInv, HealthTypeOK, Times
  <1> QED
    BY <1>1, <1>2, <1>3 DEF Degrade

LEMMA GapPreserves ==
  ASSUME HealthInv, RecordGap \/ RecordUncleanShutdown
  PROVE  HealthInv'
  <1>1. Degrade /\ Changed /\ unclean' \in {0, 1}
    BY DEF RecordGap, RecordUncleanShutdown, HealthInv, HealthTypeOK
  <1>2. HealthTypeOK'
    <2>1. /\ health' \in {"Degraded", "Unhealthy"} /\ lastGap' = now /\ firstGap' \in 0 .. now
          /\ gapSince' = now /\ downSince' = FALSE
          /\ health' = "Degraded" => now - firstGap' < GapWindow
      BY <1>1, DegradeEffect DEF Degrade
    <2>2. /\ now' = now /\ told' = told /\ asked' = asked /\ lastReport' = lastReport
          /\ changed' = TRUE
      BY <1>1 DEF Changed
    <2>3. now \in Times /\ now \in Nat /\ Never \notin Nat
      BY DEF HealthInv, HealthTypeOK, Times
    <2>4. firstGap' \in Times /\ firstGap' # Never /\ lastGap' \in firstGap' .. now'
      BY <2>1, <2>2, <2>3 DEF Times
    <2>5. told \in States /\ {lastReport, asked} \subseteq Times \cup {Never}
      BY DEF HealthInv, HealthTypeOK
    <2> QED
      BY <1>1, <2>1, <2>2, <2>3, <2>4, <2>5 DEF HealthTypeOK, States
  <1>3. DownInv' /\ GapInv' /\ HealthyInv'
    BY <1>1, DegradeEffect DEF DownInv, GapInv, HealthyInv
  <1> QED
    BY <1>2, <1>3 DEF HealthInv

LEMMA ReadyPreserves ==
  ASSUME HealthInv, Ready
  PROVE  HealthInv'
  BY DEF HealthInv, HealthTypeOK, DownInv, GapInv, HealthyInv, Ready, Changed, Times, States

LEMMA GoDownPreserves ==
  ASSUME HealthInv, NEW to \in {"Unhealthy", "Stopping"}, GoDown(to)
  PROVE  HealthInv'
  BY DEF HealthInv, HealthTypeOK, DownInv, GapInv, HealthyInv, GoDown, Changed, Times, States

\* A poll heals only what is degraded and has been quiet for a RecoveryWindow.
LEMMA PollPreserves ==
  ASSUME HealthInv, Poll
  PROVE  HealthInv'
  <1> USE DEF HealthInv, HealthTypeOK, Times, States
  <1>1. CASE Quiet
    <2>1. /\ health = "Degraded" /\ health' = "Healthy" /\ firstGap' = Never
          /\ lastGap \in Times /\ now - lastGap >= RecoveryWindow
      BY <1>1 DEF Poll, Quiet
    <2>2. HealthTypeOK'
      BY <1>1, <2>1 DEF Poll
    <2>3. DownInv' /\ GapInv' /\ HealthyInv'
      BY <2>1 DEF Poll, DownInv, GapInv, HealthyInv
    <2> QED
      BY <2>2, <2>3
  <1>2. CASE ~Quiet
    <2>1. health' = health /\ firstGap' = firstGap
      BY <1>2 DEF Poll
    <2>2. HealthTypeOK'
      BY <1>2, <2>1 DEF Poll
    <2>3. DownInv' /\ GapInv' /\ HealthyInv'
      BY <2>1 DEF Poll, DownInv, GapInv, HealthyInv
    <2> QED
      BY <2>2, <2>3
  <1> QED
    BY <1>1, <1>2

LEMMA TickPreserves ==
  ASSUME HealthInv, Tick
  PROVE  HealthInv'
  <1>1. HealthTypeOK'
    BY DEF HealthInv, HealthTypeOK, Tick, machine, reporter, history, Times, States
  <1>2. DownInv' /\ GapInv'
    BY DEF HealthInv, DownInv, GapInv, Tick, machine, reporter, history
  <1>3. HealthyInv'
    <2>1. now \in Nat /\ now' = now + 1 /\ gapSince' = gapSince /\ health' = health
      BY DEF HealthInv, HealthTypeOK, Times, Tick, machine, history
    <2>2. gapSince # Never => gapSince \in Nat
      BY DEF HealthInv, HealthTypeOK, Times
    <2> QED
      BY <2>1, <2>2 DEF HealthInv, HealthyInv
  <1> QED
    BY <1>1, <1>2, <1>3 DEF HealthInv

LEMMA HealthNextPreserves ==
  ASSUME HealthInv, [HealthNext]_healthVars
  PROVE  HealthInv'
  <1>1. CASE RecordGap \/ RecordUncleanShutdown
    BY <1>1, GapPreserves
  <1>2. CASE GoDown("Unhealthy") \/ GoDown("Stopping")
    BY <1>2, GoDownPreserves
  <1>3. CASE UNCHANGED healthVars
    BY <1>3 DEF HealthInv, HealthTypeOK, DownInv, GapInv, HealthyInv,
                healthVars, machine, reporter, history
  <1> QED
    BY <1>1, <1>2, <1>3, ReadyPreserves, PollPreserves, TickPreserves DEF HealthNext

LEMMA HealthInvariance == HealthSpec => []HealthInv
  BY HealthStarts, HealthNextPreserves, PTL DEF HealthSpec

\* health/state.rs: the types, and that a degraded machine is in a series of gaps
\* younger than GapWindow, for all windows.
THEOREM HealthTypeCorrect == HealthSpec => []HealthTypeOK
  <1>1. HealthInv => HealthTypeOK
    BY DEF HealthInv
  <1> QED
    BY <1>1, HealthInvariance, PTL

\* health/reporter.rs, poll: the last snapshot says healthy only after a quiet
\* RecoveryWindow and while nothing has failed.
THEOREM HealthyOnlyAfterQuiet == HealthSpec => []HealthyIsQuiet
  <1>1. HealthInv => HealthyIsQuiet
    BY DEF HealthInv, HealthTypeOK, DownInv, HealthyInv, HealthyIsQuiet
  <1> QED
    BY <1>1, HealthInvariance, PTL
=============================================================================
