------------------------ MODULE StatusCountersProofs ------------------------
(***************************************************************************)
(* Proofs about StatusCounters, for any number of CPUs, records, ring      *)
(* slots and tries.                                                        *)
(*                                                                         *)
(* The counters are related only if one counts the increments that are     *)
(* still to be made: by the programs (FlowInv) and by the collector        *)
(* (OrderInv). A status that nothing disturbs reads them at one moment     *)
(* (SampleInv). How long a status can take is StepsLeft.                   *)
(***************************************************************************)
EXTENDS StatusCounters, FiniteSetTheorems, SequenceTheorems, TLAPS

\* The increments a program may still have to make.
Steps == {<<>>, <<"submitted">>, <<"submitted", "captured">>, <<"captured">>,
          <<"dropped">>, <<"attempt">>, <<"other">>}

\* Records that are seen, and neither counted as submitted nor as dropped.
Unsettled == Steps \ {<<>>, <<"captured">>}
\* Records in the ring, or consumed, that are not counted as submitted.
Unsubmitted == {<<"submitted">>, <<"submitted", "captured">>}
\* Attempts in the ring, or consumed, that are not counted as captured.
Uncaptured == {<<"submitted", "captured">>, <<"captured">>}

\* How many programs have one of these before them.
Programs(p, steps) == Cardinality({c \in Cpus : p[c] \in steps})

Member(s, steps) == IF s \in steps THEN 1 ELSE 0

FlowInv ==
  /\ kernel.seen = kernel.submitted + kernel.dropped + Programs(program, Unsettled)
  /\ kernel.submitted + Programs(program, Unsubmitted) = counters.consumed + Len(ring)
  /\ kernel.captured + Programs(program, Uncaptured)
       <= kernel.submitted + Programs(program, Unsubmitted)
  /\ waiting <= counters.consumed

-----------------------------------------------------------------------------
(* The slots, and the programs as sets of CPUs.                             *)

LEMMA Slots ==
  /\ KernelCounters = {"seen", "submitted", "dropped", "captured"}
  /\ CollectorCounters = {"consumed", "done", "gaps", "suppressed", "candidates", "matches"}
  <1>1. KernelCounters = {KernelSlots[i] : i \in 1 .. 4}
    BY DEF KernelCounters, ToSet, KernelSlots
  <1>2. CollectorCounters = {CollectorSlots[i] : i \in 1 .. 6}
    BY DEF CollectorCounters, ToSet, CollectorSlots
  <1>3. 1 .. 4 = {1, 2, 3, 4} /\ 1 .. 6 = {1, 2, 3, 4, 5, 6}
    OBVIOUS
  <1> QED
    BY <1>1, <1>2, <1>3 DEF KernelSlots, CollectorSlots

LEMMA Limits == MaxRecords \in Nat /\ RingSlots \in Nat
  BY StatusAssumption

LEMMA CpusFinite == IsFiniteSet(Cpus)
  BY StatusAssumption, FS_Interval DEF Cpus

LEMMA ProgramsFinite ==
  ASSUME NEW p, NEW steps
  PROVE  /\ IsFiniteSet({c \in Cpus : p[c] \in steps})
         /\ Programs(p, steps) \in Nat
  <1>1. IsFiniteSet({c \in Cpus : p[c] \in steps})
    BY CpusFinite, FS_Subset
  <1> QED
    BY <1>1, FS_CardinalityType DEF Programs

\* One program moves: at most one CPU joins or leaves the count.
LEMMA ProgramsMove ==
  ASSUME NEW p, NEW q, NEW cpu \in Cpus, NEW steps,
         \A c \in Cpus : c # cpu => q[c] = p[c]
  PROVE  Programs(q, steps) + Member(p[cpu], steps) = Programs(p, steps) + Member(q[cpu], steps)
  <1> DEFINE R == {c \in Cpus \ {cpu} : p[c] \in steps}
  <1>1. R \subseteq Cpus /\ cpu \notin R
    OBVIOUS
  <1>2. IsFiniteSet(R)
    BY <1>1, CpusFinite, FS_Subset
  <1>3. Cardinality(R) \in Nat /\ Cardinality(R \cup {cpu}) = Cardinality(R) + 1
    BY <1>1, <1>2, FS_CardinalityType, FS_AddElement
  <1>4. {c \in Cpus : p[c] \in steps} = IF p[cpu] \in steps THEN R \cup {cpu} ELSE R
    OBVIOUS
  <1>5. {c \in Cpus : q[c] \in steps} = IF q[cpu] \in steps THEN R \cup {cpu} ELSE R
    OBVIOUS
  <1> HIDE DEF R
  <1>6. Programs(p, steps) = Cardinality(R) + Member(p[cpu], steps)
    BY <1>3, <1>4 DEF Programs, Member
  <1>7. Programs(q, steps) = Cardinality(R) + Member(q[cpu], steps)
    BY <1>3, <1>5 DEF Programs, Member
  <1>8. Member(p[cpu], steps) \in {0, 1} /\ Member(q[cpu], steps) \in {0, 1}
    BY DEF Member
  <1> QED
    BY <1>3, <1>6, <1>7, <1>8

LEMMA ProgramsSubset ==
  ASSUME NEW p, NEW few, NEW many, few \subseteq many
  PROVE  Programs(p, few) <= Programs(p, many)
  <1>1. {c \in Cpus : p[c] \in few} \subseteq {c \in Cpus : p[c] \in many}
    OBVIOUS
  <1>2. IsFiniteSet({c \in Cpus : p[c] \in many})
    BY ProgramsFinite
  <1>3. Cardinality({c \in Cpus : p[c] \in few}) <= Cardinality({c \in Cpus : p[c] \in many})
    BY <1>1, <1>2, FS_Subset
  <1> QED
    BY <1>3 DEF Programs

LEMMA ProgramsIdle ==
  ASSUME NEW p, NEW steps, <<>> \notin steps, \A c \in Cpus : p[c] = <<>>
  PROVE  Programs(p, steps) = 0
  <1>1. {c \in Cpus : p[c] \in steps} = {}
    OBVIOUS
  <1> QED
    BY <1>1, FS_EmptySet DEF Programs

\* What a program has before it, and which counts it is in.
LEMMA IdleStep ==
  /\ <<>> \in Steps
  /\ <<>> \notin Unsettled /\ <<>> \notin Unsubmitted /\ <<>> \notin Uncaptured
  BY DEF Steps, Unsettled, Unsubmitted, Uncaptured

LEMMA RecordStep ==
  ASSUME NEW type \in RecordTypes
  PROVE  /\ <<type>> \in Unsettled /\ <<type>> \in Steps
         /\ <<type>> \notin Unsubmitted /\ <<type>> \notin Uncaptured
  BY DEF Steps, Unsettled, Unsubmitted, Uncaptured, RecordTypes

LEMMA RecordHead ==
  ASSUME NEW s \in Steps, s # <<>>, Head(s) \in RecordTypes
  PROVE  s = <<Head(s)>>
  BY DEF Steps, RecordTypes

LEMMA Pair ==
  ASSUME NEW a, NEW b
  PROVE  <<a>> \o <<b>> = <<a, b>> /\ <<a>> \o <<>> = <<a>>
  <1> DEFINE S == {a, b}
             s == <<a>>
             t == <<b>>
             u == <<a, b>>
  <1>1. s \in Seq(S) /\ t \in Seq(S) /\ u \in Seq(S)
    OBVIOUS
  <1>2. Len(s) = 1 /\ Len(t) = 1 /\ Len(u) = 2 /\ s[1] = a /\ t[1] = b /\ u[1] = a /\ u[2] = b
    OBVIOUS
  <1> HIDE DEF S, s, t, u
  <1>3. /\ s \o t \in Seq(S) /\ Len(s \o t) = Len(s) + Len(t)
        /\ \A i \in 1 .. Len(s) + Len(t) :
             (s \o t)[i] = IF i <= Len(s) THEN s[i] ELSE t[i - Len(s)]
    BY <1>1, ConcatProperties
  <1>4. \A i \in 1 .. Len(s \o t) : (s \o t)[i] = u[i]
    BY <1>2, <1>3
  <1>5. s \o t = u
    BY <1>1, <1>2, <1>3, <1>4, SeqEqual
  <1>6. s \o <<>> = s
    BY <1>1, ConcatEmptySeq
  <1> QED
    BY <1>5, <1>6 DEF s, t, u

LEMMA SubmittedStep ==
  ASSUME NEW type \in RecordTypes
  PROVE  LET s == <<"submitted">> \o Captures(type)
         IN  s \in Unsubmitted /\ s \in Unsettled /\ s \in Steps
  <1>1. <<"submitted">> \o <<>> = <<"submitted">>
    BY Pair
  <1>2. <<"submitted">> \o <<"captured">> = <<"submitted", "captured">>
    BY Pair
  <1>3. /\ <<"submitted">> \in Unsubmitted /\ <<"submitted", "captured">> \in Unsubmitted
        /\ <<"submitted">> \in Unsettled /\ <<"submitted", "captured">> \in Unsettled
        /\ <<"submitted">> \in Steps /\ <<"submitted", "captured">> \in Steps
    BY DEF Unsubmitted, Unsettled, Steps
  <1> QED
    BY <1>1, <1>2, <1>3 DEF Captures

LEMMA DroppedStep ==
  /\ <<"dropped">> \in Unsettled /\ <<"dropped">> \in Steps
  /\ <<"dropped">> \notin Unsubmitted /\ <<"dropped">> \notin Uncaptured
  BY DEF Steps, Unsettled, Unsubmitted, Uncaptured

\* Counting an outcome moves the program out of what it no longer lacks.
LEMMA OutcomeStep ==
  ASSUME NEW s \in Steps, s # <<>>, Head(s) \in KernelCounters
  PROVE  /\ Tail(s) \in Steps
         /\ \/ /\ Head(s) = "submitted"
               /\ Member(s, Unsettled) = 1 /\ Member(Tail(s), Unsettled) = 0
               /\ Member(s, Unsubmitted) = 1 /\ Member(Tail(s), Unsubmitted) = 0
               /\ Member(s, Uncaptured) = Member(Tail(s), Uncaptured)
            \/ /\ Head(s) = "dropped"
               /\ Member(s, Unsettled) = 1 /\ Member(Tail(s), Unsettled) = 0
               /\ Member(s, Unsubmitted) = 0 /\ Member(Tail(s), Unsubmitted) = 0
               /\ Member(s, Uncaptured) = Member(Tail(s), Uncaptured)
            \/ /\ Head(s) = "captured"
               /\ Member(s, Unsettled) = 0 /\ Member(Tail(s), Unsettled) = 0
               /\ Member(s, Unsubmitted) = 0 /\ Member(Tail(s), Unsubmitted) = 0
               /\ Member(s, Uncaptured) = 1 /\ Member(Tail(s), Uncaptured) = 0
  <1> USE DEF Steps, Unsettled, Unsubmitted, Uncaptured, Member
  <1>1. CASE s = <<"submitted">>
    <2>1. Head(s) = "submitted" /\ Tail(s) = <<>>
      BY <1>1
    <2> QED
      BY <1>1, <2>1
  <1>2. CASE s = <<"submitted", "captured">>
    <2>1. Head(s) = "submitted" /\ Tail(s) = <<"captured">>
      BY <1>2
    <2> QED
      BY <1>2, <2>1
  <1>3. CASE s = <<"captured">>
    <2>1. Head(s) = "captured" /\ Tail(s) = <<>>
      BY <1>3
    <2> QED
      BY <1>3, <2>1
  <1>4. CASE s = <<"dropped">>
    <2>1. Head(s) = "dropped" /\ Tail(s) = <<>>
      BY <1>4
    <2> QED
      BY <1>4, <2>1
  <1>5. s # <<"attempt">> /\ s # <<"other">>
    BY Slots
  <1> QED
    BY <1>1, <1>2, <1>3, <1>4, <1>5

-----------------------------------------------------------------------------
(* Types, with the bounds that need no other invariant.                     *)

FlowTypes ==
  /\ kernel \in [KernelCounters -> Nat] /\ kernel.seen <= MaxRecords
  /\ program \in [Cpus -> Steps]
  /\ ring \in Seq(RecordTypes) /\ Len(ring) <= RingSlots
  /\ counters \in [CollectorCounters -> Nat]
  /\ waiting \in Nat /\ alive \in BOOLEAN

StatusTypes ==
  /\ at \in 0 .. Verdict /\ tries \in 0 .. MaxTries
  /\ sample \in [KernelCounters \cup CollectorCounters -> Nat]
  /\ {rejected, disturbed} \subseteq BOOLEAN

-----------------------------------------------------------------------------
(* Sums of three, and what moves between the sides of an equation.          *)

LEMMA Settle ==
  \A a, b, c \in Nat : /\ a + b + (c + 1) = (a + 1) + b + c
                       /\ a + b + (c + 1) = a + (b + 1) + c
  OBVIOUS

LEMMA Unsettle == \A a, b, c \in Nat : a + b + (c + 1) = (a + b + c) + 1
  OBVIOUS

LEMMA Shift == \A a, b \in Nat : (a + 1) + b = a + (b + 1)
  OBVIOUS

LEMMA OneMore == \A a, b \in Nat : a + (b + 1) = (a + b) + 1
  OBVIOUS

LEMMA Room ==
  \A a, b, c \in Nat : a <= b + c => /\ a + 1 <= (b + 1) + c /\ a <= (b + 1) + c
                                   /\ a + 1 <= b + (c + 1) /\ a <= b + (c + 1)
  OBVIOUS

LEMMA RightGrows ==
  \A a, b, c, d \in Nat : \A e \in {b, b + 1} : a + b <= c + d => a + e <= c + (d + 1)
  OBVIOUS

-----------------------------------------------------------------------------
(* A step of a kernel program.                                              *)

LEMMA KernelValues ==
  ASSUME kernel \in [KernelCounters -> Nat]
  PROVE  /\ kernel.seen \in Nat /\ kernel.submitted \in Nat
         /\ kernel.dropped \in Nat /\ kernel.captured \in Nat
  BY Slots

LEMMA KernelCount ==
  ASSUME kernel \in [KernelCounters -> Nat], NEW n \in KernelCounters, Count(n)
  PROVE  /\ kernel' \in [KernelCounters -> Nat]
         /\ kernel'.seen = IF n = "seen" THEN kernel.seen + 1 ELSE kernel.seen
         /\ kernel'.submitted = IF n = "submitted" THEN kernel.submitted + 1
                                                   ELSE kernel.submitted
         /\ kernel'.dropped = IF n = "dropped" THEN kernel.dropped + 1 ELSE kernel.dropped
         /\ kernel'.captured = IF n = "captured" THEN kernel.captured + 1 ELSE kernel.captured
  <1>1. kernel' = [kernel EXCEPT ![n] = @ + 1]
    BY DEF Count
  <1>2. kernel' \in [KernelCounters -> Nat]
    BY <1>1
  <1>3. \A m \in KernelCounters : kernel'[m] = IF n = m THEN kernel[m] + 1 ELSE kernel[m]
    BY <1>1
  <1> QED
    BY <1>2, <1>3, Slots

\* The numbers FlowInv is about.
LEMMA FlowValues ==
  ASSUME FlowTypes
  PROVE  /\ kernel.seen \in Nat /\ kernel.submitted \in Nat
         /\ kernel.dropped \in Nat /\ kernel.captured \in Nat
         /\ Programs(program, Unsettled) \in Nat /\ Programs(program, Unsubmitted) \in Nat
         /\ Programs(program, Uncaptured) \in Nat
         /\ counters.consumed \in Nat /\ Len(ring) \in Nat /\ waiting \in Nat
  <1>1. counters.consumed \in Nat /\ Len(ring) \in Nat
    BY Slots, LenProperties DEF FlowTypes
  <1> QED
    BY <1>1, KernelValues, ProgramsFinite DEF FlowTypes

LEMMA ProduceFlow ==
  ASSUME FlowTypes, FlowInv, NEW cpu \in Cpus, NEW type \in RecordTypes,
         Produce(cpu, type), UNCHANGED collector
  PROVE  FlowInv' /\ kernel' \in [KernelCounters -> Nat] /\ kernel'.seen <= MaxRecords
         /\ program' \in [Cpus -> Steps] /\ ring' = ring
  <1>0. /\ kernel.seen \in Nat /\ kernel.submitted \in Nat
         /\ kernel.dropped \in Nat /\ kernel.captured \in Nat
         /\ Programs(program, Unsettled) \in Nat /\ Programs(program, Unsubmitted) \in Nat
         /\ Programs(program, Uncaptured) \in Nat
         /\ counters.consumed \in Nat /\ Len(ring) \in Nat /\ waiting \in Nat
    BY FlowValues
  <1>1. /\ Count("seen")
        /\ program' = [program EXCEPT ![cpu] = <<type>>]
        /\ program[cpu] = <<>> /\ kernel.seen < MaxRecords
        /\ ring' = ring /\ counters' = counters /\ waiting' = waiting
    BY DEF Produce, collector
  <1>2. kernel \in [KernelCounters -> Nat] /\ program \in [Cpus -> Steps]
    BY DEF FlowTypes
  <1>3. program' \in [Cpus -> Steps] /\ program'[cpu] = <<type>>
        /\ \A c \in Cpus : c # cpu => program'[c] = program[c]
    BY <1>1, <1>2, RecordStep
  <1>4. /\ kernel' \in [KernelCounters -> Nat] /\ kernel'.seen = kernel.seen + 1
        /\ kernel'.submitted = kernel.submitted /\ kernel'.dropped = kernel.dropped
        /\ kernel'.captured = kernel.captured
    BY <1>1, <1>2, Slots, KernelCount, KernelValues
  <1>5. /\ Member(program[cpu], Unsettled) = 0 /\ Member(program'[cpu], Unsettled) = 1
        /\ Member(program[cpu], Unsubmitted) = 0 /\ Member(program'[cpu], Unsubmitted) = 0
        /\ Member(program[cpu], Uncaptured) = 0 /\ Member(program'[cpu], Uncaptured) = 0
    BY <1>1, <1>3, IdleStep, RecordStep DEF Member
  <1>6. /\ Programs(program', Unsettled) = Programs(program, Unsettled) + 1
        /\ Programs(program', Unsubmitted) = Programs(program, Unsubmitted)
        /\ Programs(program', Uncaptured) = Programs(program, Uncaptured)
    <2>1. \A p, steps : Programs(p, steps) \in Nat
      BY ProgramsFinite
    <2>2. \A steps : Programs(program', steps) + Member(program[cpu], steps)
                      = Programs(program, steps) + Member(program'[cpu], steps)
      BY <1>3, ProgramsMove
    <2> QED
      BY <1>5, <2>1, <2>2
  <1>7. FlowInv'
    <2>1. ring' = ring /\ counters' = counters /\ waiting' = waiting
      BY <1>1
    <2>2. kernel'.seen = kernel'.submitted + kernel'.dropped + Programs(program', Unsettled)
      <3>1. kernel.seen = kernel.submitted + kernel.dropped + Programs(program, Unsettled)
        BY DEF FlowInv
      <3>2. kernel.seen + 1 = kernel.submitted + kernel.dropped + (Programs(program, Unsettled) + 1)
        <4>1. kernel.submitted + kernel.dropped + (Programs(program, Unsettled) + 1)
                = (kernel.submitted + kernel.dropped + Programs(program, Unsettled)) + 1
          <5>1. /\ kernel.submitted \in Nat /\ kernel.dropped \in Nat
                /\ Programs(program, Unsettled) \in Nat
            BY <1>0
          <5> QED
            BY <5>1, Unsettle, Zenon
        <4> QED
          BY <3>1, <4>1, Zenon
      <3> QED
        BY <3>2, <1>4, <1>6
    <2>3. kernel'.submitted + Programs(program', Unsubmitted) = counters'.consumed + Len(ring')
      BY <2>1, <1>0, <1>4, <1>6 DEF FlowInv
    <2>4. kernel'.captured + Programs(program', Uncaptured)
            <= kernel'.submitted + Programs(program', Unsubmitted)
      BY <1>0, <1>4, <1>6 DEF FlowInv
    <2> QED
      BY <2>1, <2>2, <2>3, <2>4 DEF FlowInv
  <1>8. kernel'.seen <= MaxRecords
    BY <1>0, <1>1, <1>4, Limits
  <1> QED
    BY <1>1, <1>3, <1>4, <1>7, <1>8

\* What a program moves from and to decides how the counts move.
\* A step of one program.
Moves(cpu, s) == program' = [program EXCEPT ![cpu] = s]

LEMMA CountsMove ==
  ASSUME FlowTypes, NEW cpu \in Cpus, NEW s \in Steps,
         Moves(cpu, s)
  PROVE  /\ program' \in [Cpus -> Steps]
         /\ \A steps : /\ Programs(program', steps) \in Nat
                       /\ Programs(program', steps) + Member(program[cpu], steps)
                            = Programs(program, steps) + Member(s, steps)
  <1>1. program \in [Cpus -> Steps]
    BY DEF FlowTypes
  <1>2. /\ program' \in [Cpus -> Steps] /\ program'[cpu] = s
        /\ \A c \in Cpus : c # cpu => program'[c] = program[c]
    BY <1>1 DEF Moves
  <1>3. ASSUME NEW steps
        PROVE  /\ Programs(program', steps) \in Nat
               /\ Programs(program', steps) + Member(program[cpu], steps)
                    = Programs(program, steps) + Member(s, steps)
    <2>1. \A c \in Cpus : c # cpu => program'[c] = program[c]
      BY <1>2
    <2>2. Programs(program', steps) + Member(program[cpu], steps)
            = Programs(program, steps) + Member(program'[cpu], steps)
      <3>1. \A p, q : (\A c \in Cpus : c # cpu => q[c] = p[c])
                 => Programs(q, steps) + Member(p[cpu], steps)
                      = Programs(p, steps) + Member(q[cpu], steps)
        BY ProgramsMove
      <3> QED
        BY <2>1, <3>1
    <2>3. Programs(program', steps) \in Nat
      BY ProgramsFinite
    <2> QED
      BY <1>2, <2>2, <2>3
  <1> QED
    BY <1>2, <1>3

LEMMA SubmitFlow ==
  ASSUME FlowTypes, FlowInv, NEW cpu \in Cpus, Submit(cpu), UNCHANGED collector
  PROVE  FlowInv' /\ program' \in [Cpus -> Steps]
         /\ ring' \in Seq(RecordTypes) /\ Len(ring') <= RingSlots
  <1> DEFINE type == Head(program[cpu])
  <1>0. /\ kernel.seen \in Nat /\ kernel.submitted \in Nat
        /\ kernel.dropped \in Nat /\ kernel.captured \in Nat
        /\ Programs(program, Unsettled) \in Nat /\ Programs(program, Unsubmitted) \in Nat
        /\ Programs(program, Uncaptured) \in Nat
        /\ counters.consumed \in Nat /\ Len(ring) \in Nat /\ waiting \in Nat
    BY FlowValues
  <1>1. type \in RecordTypes /\ program[cpu] = <<type>>
    <2>1. program[cpu] \in Steps /\ program[cpu] # <<>> /\ type \in RecordTypes
      BY DEF FlowTypes, Submit
    <2> QED
      BY <2>1, RecordHead
  <1> HIDE DEF type
  <1>2. kernel' = kernel /\ counters' = counters /\ waiting' = waiting
    BY DEF Submit, collector
  <1>3. /\ Member(program[cpu], Unsettled) = 1 /\ Member(program[cpu], Unsubmitted) = 0
        /\ Member(program[cpu], Uncaptured) = 0
    BY <1>1, RecordStep DEF Member
  <1>4. ring \in Seq(RecordTypes) /\ Len(ring) <= RingSlots
    BY DEF FlowTypes
  <1>5. CASE Len(ring) < RingSlots /\ ring' = Append(ring, type)
             /\ program' = [program EXCEPT ![cpu] = <<"submitted">> \o Captures(type)]
    <2> DEFINE s == <<"submitted">> \o Captures(type)
    <2>1. s \in Steps /\ s \in Unsettled /\ s \in Unsubmitted
      BY <1>1, SubmittedStep
    <2> HIDE DEF s
    <2>2. program' = [program EXCEPT ![cpu] = s]
      BY <1>5 DEF s
    <2>3. ring' \in Seq(RecordTypes) /\ Len(ring') = Len(ring) + 1
      BY <1>1, <1>4, <1>5
    <2>4. /\ Member(s, Unsettled) = 1 /\ Member(s, Unsubmitted) = 1
          /\ Member(s, Uncaptured) \in {0, 1}
      BY <2>1 DEF Member
    <2>5. /\ program' \in [Cpus -> Steps]
          /\ \A steps : /\ Programs(program', steps) \in Nat
                        /\ Programs(program', steps) + Member(program[cpu], steps)
                             = Programs(program, steps) + Member(s, steps)
      BY <2>1, <2>2, CountsMove DEF Moves
    <2>6. /\ Programs(program', Unsettled) = Programs(program, Unsettled)
          /\ Programs(program', Unsubmitted) = Programs(program, Unsubmitted) + 1
          /\ Programs(program', Uncaptured) \in
               {Programs(program, Uncaptured), Programs(program, Uncaptured) + 1}
      BY <1>0, <1>3, <2>4, <2>5
    <2>7. kernel.submitted + Programs(program', Unsubmitted) = counters.consumed + Len(ring')
      <3>1. kernel.submitted + Programs(program, Unsubmitted) = counters.consumed + Len(ring)
        BY DEF FlowInv
      <3>2. kernel.submitted + (Programs(program, Unsubmitted) + 1)
              = counters.consumed + (Len(ring) + 1)
        <4>1. kernel.submitted + (Programs(program, Unsubmitted) + 1)
                = (kernel.submitted + Programs(program, Unsubmitted)) + 1
          BY <1>0, OneMore, Zenon
        <4>2. counters.consumed + (Len(ring) + 1) = (counters.consumed + Len(ring)) + 1
          BY <1>0, OneMore, Zenon
        <4> QED
          BY <3>1, <4>1, <4>2
      <3> QED
        BY <2>3, <2>6, <3>2
    <2>8. kernel.captured + Programs(program', Uncaptured)
            <= kernel.submitted + Programs(program', Unsubmitted)
      <3>1. kernel.captured + Programs(program, Uncaptured)
              <= kernel.submitted + Programs(program, Unsubmitted)
        BY DEF FlowInv
      <3>2. kernel.captured + Programs(program', Uncaptured)
              <= kernel.submitted + (Programs(program, Unsubmitted) + 1)
        BY <1>0, <2>6, <3>1, RightGrows, Zenon
      <3> QED
        BY <2>6, <3>2
    <2>9. FlowInv'
      BY <1>2, <2>6, <2>7, <2>8 DEF FlowInv
    <2>10. Len(ring') <= RingSlots
      BY <1>0, <1>5, <2>3, Limits
    <2> QED
      BY <2>3, <2>5, <2>9, <2>10
  <1>6. CASE ring' = ring /\ program' = [program EXCEPT ![cpu] = <<"dropped">>]
    <2>1. /\ Member(<<"dropped">>, Unsettled) = 1 /\ Member(<<"dropped">>, Unsubmitted) = 0
          /\ Member(<<"dropped">>, Uncaptured) = 0
      BY DroppedStep DEF Member
    <2>2. /\ program' \in [Cpus -> Steps]
          /\ \A steps : /\ Programs(program', steps) \in Nat
                        /\ Programs(program', steps) + Member(program[cpu], steps)
                             = Programs(program, steps) + Member(<<"dropped">>, steps)
      BY <1>6, DroppedStep, CountsMove DEF Moves
    <2>3. /\ Programs(program', Unsettled) = Programs(program, Unsettled)
          /\ Programs(program', Unsubmitted) = Programs(program, Unsubmitted)
          /\ Programs(program', Uncaptured) = Programs(program, Uncaptured)
      BY <1>0, <1>3, <2>1, <2>2
    <2>4. FlowInv'
      BY <1>2, <1>6, <2>3 DEF FlowInv
    <2> QED
      BY <1>4, <1>6, <2>2, <2>4
  <1> QED
    BY <1>5, <1>6 DEF Submit, Output, type

LEMMA CountFlow ==
  ASSUME FlowTypes, FlowInv, NEW cpu \in Cpus, CountOutcome(cpu), UNCHANGED collector
  PROVE  FlowInv' /\ kernel' \in [KernelCounters -> Nat] /\ kernel'.seen = kernel.seen
         /\ program' \in [Cpus -> Steps] /\ ring' = ring
  <1> DEFINE s == program[cpu]
             t == Tail(s)
             name == Head(s)
  <1>0. /\ kernel.seen \in Nat /\ kernel.submitted \in Nat
        /\ kernel.dropped \in Nat /\ kernel.captured \in Nat
        /\ Programs(program, Unsettled) \in Nat /\ Programs(program, Unsubmitted) \in Nat
        /\ Programs(program, Uncaptured) \in Nat
        /\ counters.consumed \in Nat /\ Len(ring) \in Nat /\ waiting \in Nat
    BY FlowValues
  <1>1. s \in Steps /\ s # <<>> /\ name \in KernelCounters /\ Count(name)
        /\ program' = [program EXCEPT ![cpu] = t]
        /\ ring' = ring /\ counters' = counters /\ waiting' = waiting
    BY DEF FlowTypes, CountOutcome, collector
  <1> HIDE DEF s
  <1>2. /\ t \in Steps
        /\ \/ /\ name = "submitted"
              /\ Member(s, Unsettled) = 1 /\ Member(t, Unsettled) = 0
              /\ Member(s, Unsubmitted) = 1 /\ Member(t, Unsubmitted) = 0
              /\ Member(s, Uncaptured) = Member(t, Uncaptured)
           \/ /\ name = "dropped"
              /\ Member(s, Unsettled) = 1 /\ Member(t, Unsettled) = 0
              /\ Member(s, Unsubmitted) = 0 /\ Member(t, Unsubmitted) = 0
              /\ Member(s, Uncaptured) = Member(t, Uncaptured)
           \/ /\ name = "captured"
              /\ Member(s, Unsettled) = 0 /\ Member(t, Unsettled) = 0
              /\ Member(s, Unsubmitted) = 0 /\ Member(t, Unsubmitted) = 0
              /\ Member(s, Uncaptured) = 1 /\ Member(t, Uncaptured) = 0
    BY <1>1, OutcomeStep
  <1>3. /\ program' \in [Cpus -> Steps]
        /\ \A steps : /\ Programs(program', steps) \in Nat
                      /\ Programs(program', steps) + Member(s, steps)
                           = Programs(program, steps) + Member(t, steps)
    BY <1>1, <1>2, CountsMove DEF s, Moves
  <1>4. /\ kernel' \in [KernelCounters -> Nat]
        /\ kernel'.seen = IF name = "seen" THEN kernel.seen + 1 ELSE kernel.seen
        /\ kernel'.submitted = IF name = "submitted" THEN kernel.submitted + 1
                                                     ELSE kernel.submitted
        /\ kernel'.dropped = IF name = "dropped" THEN kernel.dropped + 1 ELSE kernel.dropped
        /\ kernel'.captured = IF name = "captured" THEN kernel.captured + 1 ELSE kernel.captured
    <2>1. kernel \in [KernelCounters -> Nat]
      BY DEF FlowTypes
    <2> QED
      BY <1>1, <2>1, KernelCount
  <1>5. Member(s, Uncaptured) \in {0, 1} /\ Member(t, Uncaptured) \in {0, 1}
    BY DEF Member
  <1>6. kernel.seen = kernel.submitted + kernel.dropped + Programs(program, Unsettled)
    BY DEF FlowInv
  <1> HIDE DEF t, name
  <1>7. CASE /\ name = "submitted"
             /\ Member(s, Unsettled) = 1 /\ Member(t, Unsettled) = 0
             /\ Member(s, Unsubmitted) = 1 /\ Member(t, Unsubmitted) = 0
             /\ Member(s, Uncaptured) = Member(t, Uncaptured)
    <2>1. /\ Programs(program', Unsettled) \in Nat
          /\ Programs(program', Unsettled) + 1 = Programs(program, Unsettled)
          /\ Programs(program', Unsubmitted) \in Nat
          /\ Programs(program', Unsubmitted) + 1 = Programs(program, Unsubmitted)
          /\ Programs(program', Uncaptured) = Programs(program, Uncaptured)
      BY <1>0, <1>3, <1>5, <1>7
    <2>2. /\ kernel'.seen = kernel.seen /\ kernel'.submitted = kernel.submitted + 1
          /\ kernel'.dropped = kernel.dropped /\ kernel'.captured = kernel.captured
      BY <1>4, <1>7
    <2>3. kernel.seen = (kernel.submitted + 1) + kernel.dropped + Programs(program', Unsettled)
      <3>1. /\ kernel.seen \in Nat /\ kernel.submitted \in Nat /\ kernel.dropped \in Nat
            /\ Programs(program, Unsettled) \in Nat
        BY <1>0
      <3>2. /\ Programs(program', Unsettled) \in Nat
            /\ Programs(program', Unsettled) + 1 = Programs(program, Unsettled)
        BY <2>1
      <3> QED
        <4>1. kernel.submitted + kernel.dropped + (Programs(program', Unsettled) + 1)
                = (kernel.submitted + 1) + kernel.dropped + Programs(program', Unsettled)
          BY <3>1, <3>2, Settle, Zenon
        <4> QED
          BY <1>6, <3>2, <4>1, Zenon
    <2>4. (kernel.submitted + 1) + Programs(program', Unsubmitted)
            = kernel.submitted + Programs(program, Unsubmitted)
      <3>1. (kernel.submitted + 1) + Programs(program', Unsubmitted)
              = kernel.submitted + (Programs(program', Unsubmitted) + 1)
        BY <1>0, <2>1, Shift, Zenon
      <3> QED
        BY <2>1, <3>1, Zenon
    <2> QED
      BY <1>1, <1>3, <1>4, <2>1, <2>2, <2>3, <2>4 DEF FlowInv
  <1>8. CASE /\ name = "dropped"
             /\ Member(s, Unsettled) = 1 /\ Member(t, Unsettled) = 0
             /\ Member(s, Unsubmitted) = 0 /\ Member(t, Unsubmitted) = 0
             /\ Member(s, Uncaptured) = Member(t, Uncaptured)
    <2>1. /\ Programs(program', Unsettled) \in Nat
          /\ Programs(program', Unsettled) + 1 = Programs(program, Unsettled)
          /\ Programs(program', Unsubmitted) = Programs(program, Unsubmitted)
          /\ Programs(program', Uncaptured) = Programs(program, Uncaptured)
      BY <1>0, <1>3, <1>5, <1>8
    <2>2. /\ kernel'.seen = kernel.seen /\ kernel'.submitted = kernel.submitted
          /\ kernel'.dropped = kernel.dropped + 1 /\ kernel'.captured = kernel.captured
      BY <1>4, <1>8
    <2>3. kernel.seen = kernel.submitted + (kernel.dropped + 1) + Programs(program', Unsettled)
      <3>1. /\ kernel.seen \in Nat /\ kernel.submitted \in Nat /\ kernel.dropped \in Nat
            /\ Programs(program, Unsettled) \in Nat
        BY <1>0
      <3>2. /\ Programs(program', Unsettled) \in Nat
            /\ Programs(program', Unsettled) + 1 = Programs(program, Unsettled)
        BY <2>1
      <3> QED
        <4>1. kernel.submitted + kernel.dropped + (Programs(program', Unsettled) + 1)
                = kernel.submitted + (kernel.dropped + 1) + Programs(program', Unsettled)
          BY <3>1, <3>2, Settle, Zenon
        <4> QED
          BY <1>6, <3>2, <4>1, Zenon
    <2> QED
      BY <1>1, <1>3, <1>4, <2>1, <2>2, <2>3 DEF FlowInv
  <1>9. CASE /\ name = "captured"
             /\ Member(s, Unsettled) = 0 /\ Member(t, Unsettled) = 0
             /\ Member(s, Unsubmitted) = 0 /\ Member(t, Unsubmitted) = 0
             /\ Member(s, Uncaptured) = 1 /\ Member(t, Uncaptured) = 0
    <2>1. /\ Programs(program', Unsettled) = Programs(program, Unsettled)
          /\ Programs(program', Unsubmitted) = Programs(program, Unsubmitted)
          /\ Programs(program', Uncaptured) \in Nat
          /\ Programs(program', Uncaptured) + 1 = Programs(program, Uncaptured)
      BY <1>0, <1>3, <1>9
    <2>2. /\ kernel'.seen = kernel.seen /\ kernel'.submitted = kernel.submitted
          /\ kernel'.dropped = kernel.dropped /\ kernel'.captured = kernel.captured + 1
      BY <1>4, <1>9
    <2>3. (kernel.captured + 1) + Programs(program', Uncaptured)
            = kernel.captured + Programs(program, Uncaptured)
      <3>1. (kernel.captured + 1) + Programs(program', Uncaptured)
              = kernel.captured + (Programs(program', Uncaptured) + 1)
        BY <1>0, <2>1, Shift, Zenon
      <3> QED
        BY <2>1, <3>1, Zenon
    <2> QED
      BY <1>1, <1>3, <1>4, <2>1, <2>2, <2>3 DEF FlowInv
  <1> QED
    BY <1>2, <1>7, <1>8, <1>9

-----------------------------------------------------------------------------
(* What the collector has to count for a record, in the order of Rank.      *)

Outcomes == {"candidates", "matches", "suppressed", "gaps", "done", "end"}
Rank == [candidates |-> 1, matches |-> 2, suppressed |-> 3, gaps |-> 4, done |-> 5, end |-> 5]

Names(t) == {t[i] : i \in 1 .. Len(t)}

Ordered(t) ==
  /\ t \in Seq(Outcomes)
  /\ \A i, j \in 1 .. Len(t) : i < j => Rank[t[i]] < Rank[t[j]]

LEMMA RankValues ==
  /\ Rank["candidates"] = 1 /\ Rank["matches"] = 2 /\ Rank["suppressed"] = 3
  /\ Rank["gaps"] = 4 /\ Rank["done"] = 5 /\ Rank["end"] = 5
  BY DEF Rank

LEMMA OrderedNone == Ordered(<<>>) /\ Names(<<>>) = {}
  <1>1. <<>> \in Seq(Outcomes) /\ Len(<<>>) = 0
    BY EmptySeq
  <1> QED
    BY <1>1 DEF Ordered, Names

LEMMA OrderedOne ==
  ASSUME NEW n \in Outcomes
  PROVE  Ordered(<<n>>) /\ Names(<<n>>) = {n}
  <1>1. <<n>> \in Seq(Outcomes) /\ Len(<<n>>) = 1 /\ <<n>>[1] = n
    OBVIOUS
  <1> QED
    BY <1>1 DEF Ordered, Names

LEMMA OrderedConcat ==
  ASSUME NEW s, NEW t, Ordered(s), Ordered(t),
         \A m \in Names(s), n \in Names(t) : Rank[m] < Rank[n]
  PROVE  Ordered(s \o t) /\ Names(s \o t) = Names(s) \cup Names(t)
  <1> DEFINE u == s \o t
  <1>1. s \in Seq(Outcomes) /\ t \in Seq(Outcomes)
    BY DEF Ordered
  <1>2. Len(s) \in Nat /\ Len(t) \in Nat
    BY <1>1, LenProperties
  <1>3. /\ u \in Seq(Outcomes) /\ Len(u) = Len(s) + Len(t)
        /\ \A i \in 1 .. Len(s) + Len(t) : u[i] = IF i <= Len(s) THEN s[i] ELSE t[i - Len(s)]
    BY <1>1, ConcatProperties
  <1> HIDE DEF u
  <1>4. \A i \in 1 .. Len(u) :
          \/ i <= Len(s) /\ i \in 1 .. Len(s) /\ u[i] = s[i] /\ u[i] \in Names(s)
          \/ i > Len(s) /\ i - Len(s) \in 1 .. Len(t) /\ u[i] = t[i - Len(s)] /\ u[i] \in Names(t)
    BY <1>2, <1>3 DEF Names
  <1>5. ASSUME NEW i \in 1 .. Len(u), NEW j \in 1 .. Len(u), i < j
        PROVE  Rank[u[i]] < Rank[u[j]]
    <2>1. CASE j <= Len(s)
      <3>1. i \in 1 .. Len(s) /\ j \in 1 .. Len(s) /\ u[i] = s[i] /\ u[j] = s[j]
        BY <1>2, <1>3, <1>4, <1>5, <2>1
      <3> QED
        BY <1>5, <3>1 DEF Ordered
    <2>2. CASE i > Len(s)
      <3>1. /\ i - Len(s) \in 1 .. Len(t) /\ j - Len(s) \in 1 .. Len(t)
            /\ i - Len(s) < j - Len(s) /\ u[i] = t[i - Len(s)] /\ u[j] = t[j - Len(s)]
        BY <1>2, <1>3, <1>4, <1>5, <2>2
      <3> QED
        BY <3>1 DEF Ordered
    <2>3. CASE i <= Len(s) /\ j > Len(s)
      <3>1. u[i] \in Names(s) /\ u[j] \in Names(t)
        BY <1>2, <1>3, <1>4, <2>3
      <3> QED
        BY <3>1
    <2> QED
      BY <1>2, <1>3, <2>1, <2>2, <2>3
  <1>6. Names(u) = Names(s) \cup Names(t)
    <2>1. Names(u) \subseteq Names(s) \cup Names(t)
      BY <1>4 DEF Names
    <2>2. Names(s) \subseteq Names(u)
      <3>1. \A i \in 1 .. Len(s) : i \in 1 .. Len(u) /\ u[i] = s[i]
        BY <1>2, <1>3
      <3> QED
        BY <3>1 DEF Names
    <2>3. Names(t) \subseteq Names(u)
      <3>1. \A i \in 1 .. Len(t) : i + Len(s) \in 1 .. Len(u) /\ u[i + Len(s)] = t[i]
        BY <1>2, <1>3
      <3> QED
        BY <3>1 DEF Names
    <2> QED
      BY <2>1, <2>2, <2>3
  <1> QED
    BY <1>3, <1>5, <1>6 DEF Ordered, u

\* The next count has the lowest rank of those left.
LEMMA OrderedTail ==
  ASSUME NEW t, Ordered(t), t # <<>>
  PROVE  /\ Head(t) \in Outcomes /\ Ordered(Tail(t))
         /\ Names(t) = {Head(t)} \cup Names(Tail(t))
         /\ \A n \in Names(Tail(t)) : Rank[Head(t)] < Rank[n]
  <1> DEFINE u == Tail(t)
  <1>1. t \in Seq(Outcomes)
    BY DEF Ordered
  <1>2. /\ Head(t) \in Outcomes /\ u \in Seq(Outcomes) /\ Len(u) = Len(t) - 1
        /\ \A i \in 1 .. Len(u) : u[i] = t[i + 1]
    BY <1>1, HeadTailProperties
  <1>3. Len(t) \in Nat /\ Len(t) # 0 /\ Head(t) = t[1]
    BY <1>1, LenProperties, EmptySeq
  <1> HIDE DEF u
  <1>4. \A i \in 1 .. Len(u) : i + 1 \in 1 .. Len(t) /\ 1 < i + 1 /\ u[i] = t[i + 1]
    BY <1>2, <1>3
  <1>5. \A n \in Names(u) : Rank[Head(t)] < Rank[n]
    BY <1>3, <1>4 DEF Names, Ordered
  <1>6. ASSUME NEW i \in 1 .. Len(u), NEW j \in 1 .. Len(u), i < j
        PROVE  Rank[u[i]] < Rank[u[j]]
    <2>1. i + 1 \in 1 .. Len(t) /\ j + 1 \in 1 .. Len(t) /\ i + 1 < j + 1
          /\ u[i] = t[i + 1] /\ u[j] = t[j + 1]
      BY <1>4, <1>6
    <2> QED
      BY <2>1 DEF Ordered
  <1>7. Names(t) = {Head(t)} \cup Names(u)
    <2>1. \A i \in 1 .. Len(t) : i = 1 \/ (i - 1 \in 1 .. Len(u) /\ u[i - 1] = t[i])
      BY <1>2, <1>3
    <2>2. Names(t) \subseteq {Head(t)} \cup Names(u)
      BY <1>3, <2>1 DEF Names
    <2>3. Head(t) \in Names(t)
      BY <1>3 DEF Names
    <2>4. Names(u) \subseteq Names(t)
      BY <1>4 DEF Names
    <2> QED
      BY <2>2, <2>3, <2>4
  <1> QED
    BY <1>2, <1>5, <1>6, <1>7 DEF Ordered, u

LEMMA GapOrder ==
  ASSUME NEW t \in GapWrites
  PROVE  Ordered(t) /\ "gaps" \in Names(t) /\ Names(t) \subseteq {"gaps", "done", "end"}
  <1>1. {"gaps", "done", "end"} \subseteq Outcomes
    BY DEF Outcomes
  <1>2. Ordered(<<"gaps">>) /\ Names(<<"gaps">>) = {"gaps"}
    BY <1>1, OrderedOne
  <1>3. ASSUME NEW n \in {"done", "end"}
        PROVE  Ordered(<<"gaps", n>>) /\ Names(<<"gaps", n>>) = {"gaps", n}
    <2>1. Ordered(<<n>>) /\ Names(<<n>>) = {n}
      BY <1>1, OrderedOne
    <2>2. Rank["gaps"] < Rank[n]
      BY RankValues
    <2>3. Ordered(<<"gaps">> \o <<n>>) /\ Names(<<"gaps">> \o <<n>>) = {"gaps"} \cup {n}
      BY <1>2, <2>1, <2>2, OrderedConcat
    <2>4. <<"gaps">> \o <<n>> = <<"gaps", n>>
      BY Pair
    <2> QED
      BY <2>3, <2>4
  <1> QED
    BY <1>2, <1>3 DEF GapWrites

LEMMA MatchOrder ==
  ASSUME NEW w \in WatchCounts, NEW s \in {<<>>, <<"suppressed">>}, NEW a \in AuditWrites
  PROVE  /\ Ordered(w \o s \o a)
         /\ "matches" \in Names(w \o s \o a) => "candidates" \in Names(w \o s \o a)
  <1>1. {"candidates", "matches", "suppressed", "done", "end"} \subseteq Outcomes
    BY DEF Outcomes
  <1>2. Ordered(w) /\ Names(w) \in {{}, {"candidates"}, {"candidates", "matches"}}
    <2>1. Ordered(<<"candidates">>) /\ Names(<<"candidates">>) = {"candidates"}
      BY <1>1, OrderedOne
    <2>2. Ordered(<<"matches">>) /\ Names(<<"matches">>) = {"matches"}
      BY <1>1, OrderedOne
    <2>3. <<"candidates">> \o <<"matches">> = <<"candidates", "matches">>
      BY Pair
    <2>4. Ordered(<<"candidates", "matches">>)
          /\ Names(<<"candidates", "matches">>) = {"candidates"} \cup {"matches"}
      <3>1. \A m \in Names(<<"candidates">>), n \in Names(<<"matches">>) : Rank[m] < Rank[n]
        BY <2>1, <2>2, RankValues
      <3>2. Ordered(<<"candidates">> \o <<"matches">>)
            /\ Names(<<"candidates">> \o <<"matches">>) = {"candidates"} \cup {"matches"}
        BY <2>1, <2>2, <3>1, OrderedConcat
      <3> QED
        BY <2>3, <3>2
    <2> QED
      BY <2>1, <2>4, OrderedNone DEF WatchCounts
  <1>3. Ordered(s) /\ Names(s) \subseteq {"suppressed"}
    BY <1>1, OrderedNone, OrderedOne
  <1>4. Ordered(a) /\ Names(a) \subseteq {"done", "end"}
    BY <1>1, OrderedOne DEF AuditWrites
  <1>5. \A m \in Names(w), n \in Names(s) : Rank[m] < Rank[n]
    BY <1>2, <1>3, RankValues
  <1>6. Ordered(w \o s) /\ Names(w \o s) = Names(w) \cup Names(s)
    BY <1>2, <1>3, <1>5, OrderedConcat
  <1>7. \A m \in Names(w \o s), n \in Names(a) : Rank[m] < Rank[n]
    BY <1>2, <1>3, <1>4, <1>6, RankValues
  <1>8. Ordered(w \o s \o a) /\ Names(w \o s \o a) = Names(w) \cup Names(s) \cup Names(a)
    BY <1>4, <1>6, <1>7, OrderedConcat
  <1> QED
    BY <1>2, <1>3, <1>4, <1>8

LEMMA SyscallOrder ==
  ASSUME NEW t \in SyscallCounts
  PROVE  Ordered(t) /\ ("matches" \in Names(t) => "candidates" \in Names(t))
  <1>1. Ordered(<<"candidates">>) /\ Names(<<"candidates">>) = {"candidates"}
    <2>1. "candidates" \in Outcomes
      BY DEF Outcomes
    <2> QED
      BY <2>1, OrderedOne
  <1>2. CASE t \in {<<>>, <<"candidates">>}
    BY <1>1, <1>2, OrderedNone
  <1>3. CASE t \in GapWrites
    BY <1>3, GapOrder
  <1>4. CASE \E g \in GapWrites : t = <<"candidates">> \o g
    <2>1. PICK g \in GapWrites : t = <<"candidates">> \o g
      BY <1>4
    <2>2. Ordered(g) /\ Names(g) \subseteq {"gaps", "done", "end"}
      BY GapOrder
    <2>3. \A m \in Names(<<"candidates">>), n \in Names(g) : Rank[m] < Rank[n]
      BY <1>1, <2>2, RankValues
    <2>4. Ordered(<<"candidates">> \o g)
          /\ Names(<<"candidates">> \o g) = {"candidates"} \cup Names(g)
      BY <1>1, <2>2, <2>3, OrderedConcat
    <2> QED
      BY <2>1, <2>4
  <1>5. CASE t \in Matched
    <2>1. PICK w \in WatchCounts, s \in {<<>>, <<"suppressed">>}, a \in AuditWrites :
            t = w \o s \o a
      BY <1>5 DEF Matched
    <2> QED
      BY <2>1, MatchOrder
  <1> QED
    BY <1>2, <1>3, <1>4, <1>5 DEF SyscallCounts

-----------------------------------------------------------------------------
(* The order in which the collector counts.                                 *)

OrderInv ==
  /\ Ordered(todo)
  /\ counters.done <= counters.consumed + counters.gaps
  /\ "done" \in Names(todo) => \/ "gaps" \in Names(todo)
                               \/ counters.done + 1 <= counters.consumed + counters.gaps
  /\ counters.matches <= counters.candidates
  /\ "matches" \in Names(todo) => \/ "candidates" \in Names(todo)
                                  \/ counters.matches + 1 <= counters.candidates

LEMMA CounterValues ==
  ASSUME counters \in [CollectorCounters -> Nat]
  PROVE  /\ counters.consumed \in Nat /\ counters.done \in Nat /\ counters.gaps \in Nat
         /\ counters.matches \in Nat /\ counters.candidates \in Nat
  BY Slots

\* One counter is incremented, the others stay.
Counted(n) ==
  /\ counters' \in [CollectorCounters -> Nat]
  /\ counters'.consumed = IF n = "consumed" THEN counters.consumed + 1 ELSE counters.consumed
  /\ counters'.done = IF n = "done" THEN counters.done + 1 ELSE counters.done
  /\ counters'.gaps = IF n = "gaps" THEN counters.gaps + 1 ELSE counters.gaps
  /\ counters'.matches = IF n = "matches" THEN counters.matches + 1 ELSE counters.matches
  /\ counters'.candidates = IF n = "candidates" THEN counters.candidates + 1
                                               ELSE counters.candidates

LEMMA CollectorCount ==
  ASSUME counters \in [CollectorCounters -> Nat], NEW n \in CollectorCounters,
         counters' = [counters EXCEPT ![n] = @ + 1]
  PROVE  Counted(n)
  <1>1. counters' \in [CollectorCounters -> Nat]
    OBVIOUS
  <1>2. \A m \in CollectorCounters : counters'[m] = IF n = m THEN counters[m] + 1 ELSE counters[m]
    OBVIOUS
  <1> QED
    BY <1>1, <1>2, Slots DEF Counted

LEMMA ConsumeSteps ==
  ASSUME FlowTypes, FlowInv, OrderInv, Consume, UNCHANGED <<kernel, program>>
  PROVE  FlowInv' /\ OrderInv' /\ FlowTypes'
  <1>0. /\ kernel.seen \in Nat /\ kernel.submitted \in Nat
        /\ kernel.dropped \in Nat /\ kernel.captured \in Nat
        /\ Programs(program, Unsettled) \in Nat /\ Programs(program, Unsubmitted) \in Nat
        /\ Programs(program, Uncaptured) \in Nat
        /\ counters.consumed \in Nat /\ Len(ring) \in Nat /\ waiting \in Nat
    BY FlowValues
  <1>1. /\ todo = <<>> /\ ring # <<>> /\ ring' = Tail(ring) /\ alive' = alive
        /\ counters' = [counters EXCEPT !["consumed"] = @ + 1]
        /\ Accepted(Head(ring)) /\ kernel' = kernel /\ program' = program
    BY DEF Consume
  <1>2. counters \in [CollectorCounters -> Nat] /\ ring \in Seq(RecordTypes)
    BY DEF FlowTypes
  <1>3. Counted("consumed")
    BY <1>1, <1>2, CollectorCount, Slots
  <1>4. ring' \in Seq(RecordTypes) /\ Len(ring') \in Nat /\ Len(ring') + 1 = Len(ring)
    BY <1>0, <1>1, <1>2, HeadTailProperties, EmptySeq
  <1>5. waiting' \in Nat /\ waiting' <= waiting + 1
        /\ todo' \in GapWrites \cup SyscallCounts \cup {<<>>}
    BY <1>0, <1>1 DEF Accepted
  <1>6. FlowInv'
    <2>1. counters'.consumed = counters.consumed + 1
      BY <1>3 DEF Counted
    <2>2. (counters.consumed + 1) + Len(ring') = counters.consumed + Len(ring)
      <3>1. (counters.consumed + 1) + Len(ring') = counters.consumed + (Len(ring') + 1)
        BY <1>0, <1>4, Shift, Zenon
      <3> QED
        BY <1>4, <3>1, Zenon
    <2>3. waiting' <= counters.consumed + 1
      BY <1>0, <1>5 DEF FlowInv
    <2> QED
      BY <1>1, <2>1, <2>2, <2>3 DEF FlowInv
  <1>7. OrderInv'
    <2>1. Ordered(todo') /\ ("matches" \in Names(todo') => "candidates" \in Names(todo'))
      BY <1>5, GapOrder, SyscallOrder, OrderedNone
    <2>2. /\ counters'.done = counters.done /\ counters'.gaps = counters.gaps
          /\ counters'.matches = counters.matches /\ counters'.candidates = counters.candidates
          /\ counters'.consumed = counters.consumed + 1
      BY <1>3 DEF Counted
    <2>3. counters.done + 1 <= (counters.consumed + 1) + counters.gaps
          /\ counters.done <= (counters.consumed + 1) + counters.gaps
      <3>1. counters.consumed \in Nat /\ counters.done \in Nat /\ counters.gaps \in Nat
        BY <1>2, CounterValues
      <3>2. counters.done <= counters.consumed + counters.gaps
        BY DEF OrderInv
      <3> QED
        BY <3>1, <3>2, Room, Zenon
    <2> QED
      BY <2>1, <2>2, <2>3 DEF OrderInv
  <1>8. FlowTypes'
    <2>1. Len(ring') <= RingSlots
      BY <1>0, <1>4, Limits DEF FlowTypes
    <2> QED
      BY <1>1, <1>3, <1>4, <1>5, <2>1 DEF FlowTypes, Counted
  <1> QED
    BY <1>6, <1>7, <1>8

LEMMA ExpireSteps ==
  ASSUME FlowTypes, FlowInv, OrderInv, Expire, UNCHANGED <<kernel, program>>
  PROVE  FlowInv' /\ OrderInv' /\ FlowTypes'
  <1>1. /\ waiting > 0 /\ waiting' = waiting - 1 /\ todo' \in GapWrites
        /\ ring' = ring /\ counters' = counters /\ alive' = alive
        /\ kernel' = kernel /\ program' = program
    BY DEF Expire
  <1>2. waiting \in Nat /\ counters.consumed \in Nat
    BY FlowValues
  <1>3. waiting' \in Nat /\ waiting' <= waiting
    BY <1>1, <1>2
  <1>4. waiting' <= counters.consumed
    BY <1>2, <1>3 DEF FlowInv
  <1>5. Ordered(todo') /\ "gaps" \in Names(todo') /\ "matches" \notin Names(todo')
    BY <1>1, GapOrder
  <1>6. FlowInv'
    BY <1>1, <1>4 DEF FlowInv
  <1>7. OrderInv'
    BY <1>1, <1>5 DEF OrderInv
  <1> QED
    BY <1>1, <1>3, <1>6, <1>7 DEF FlowTypes

LEMMA CountNextSteps ==
  ASSUME FlowTypes, FlowInv, OrderInv, CountNext, UNCHANGED <<kernel, program>>
  PROVE  FlowInv' /\ OrderInv' /\ FlowTypes'
  <1> DEFINE n == Head(todo)
  <1>1. /\ todo # <<>> /\ todo' = Tail(todo) /\ ring' = ring /\ waiting' = waiting
        /\ kernel' = kernel /\ program' = program /\ alive' \in BOOLEAN
        /\ \/ n = "end" /\ counters' = counters
           \/ n # "end" /\ counters' = [counters EXCEPT ![n] = @ + 1]
    BY DEF CountNext, FlowTypes
  <1>2. /\ n \in Outcomes /\ Ordered(todo') /\ Names(todo) = {n} \cup Names(todo')
        /\ \A m \in Names(todo') : Rank[n] < Rank[m]
    BY <1>1, OrderedTail DEF OrderInv
  <1>3. counters \in [CollectorCounters -> Nat]
    BY DEF FlowTypes
  <1> HIDE DEF n
  <1>4. /\ counters' \in [CollectorCounters -> Nat] /\ counters'.consumed = counters.consumed
        /\ counters'.done = IF n = "done" THEN counters.done + 1 ELSE counters.done
        /\ counters'.gaps = IF n = "gaps" THEN counters.gaps + 1 ELSE counters.gaps
        /\ counters'.matches = IF n = "matches" THEN counters.matches + 1 ELSE counters.matches
        /\ counters'.candidates = IF n = "candidates" THEN counters.candidates + 1
                                                     ELSE counters.candidates
    <2>1. CASE n = "end"
      BY <1>1, <1>3, <2>1
    <2>2. CASE n # "end"
      <3>1. n \in CollectorCounters /\ n # "consumed"
        BY <1>2, <2>2, Slots DEF Outcomes
      <3>2. Counted(n)
        BY <1>1, <1>3, <2>2, <3>1, CollectorCount
      <3> QED
        BY <3>1, <3>2 DEF Counted
    <2> QED
      BY <2>1, <2>2
  <1>5. /\ counters.consumed \in Nat /\ counters.done \in Nat /\ counters.gaps \in Nat
        /\ counters.matches \in Nat /\ counters.candidates \in Nat
    BY <1>3, CounterValues
  <1>6. /\ counters'.done <= counters.consumed + counters'.gaps
        /\ "done" \in Names(todo') => \/ "gaps" \in Names(todo')
                                      \/ counters'.done + 1 <= counters.consumed + counters'.gaps
    <2>1. CASE n = "done"
      <3>1. "gaps" \notin Names(todo) /\ "done" \notin Names(todo')
        BY <1>2, <2>1, RankValues
      <3>2. counters.done + 1 <= counters.consumed + counters.gaps
        BY <1>2, <2>1, <3>1 DEF OrderInv
      <3> QED
        BY <1>4, <2>1, <3>1, <3>2
    <2>2. CASE n = "gaps"
      <3>1. counters.done <= counters.consumed + counters.gaps
        BY DEF OrderInv
      <3>2. /\ counters.done <= counters.consumed + (counters.gaps + 1)
            /\ counters.done + 1 <= counters.consumed + (counters.gaps + 1)
        BY <1>5, <3>1, Room, Zenon
      <3> QED
        BY <1>4, <2>2, <3>2
    <2>3. CASE n \notin {"done", "gaps"}
      BY <1>2, <1>4, <2>3 DEF OrderInv
    <2> QED
      BY <2>1, <2>2, <2>3
  <1>7. /\ counters'.matches <= counters'.candidates
        /\ "matches" \in Names(todo') => \/ "candidates" \in Names(todo')
                                         \/ counters'.matches + 1 <= counters'.candidates
    <2>1. CASE n = "matches"
      <3>1. "candidates" \notin Names(todo) /\ "matches" \notin Names(todo')
        BY <1>2, <2>1, RankValues
      <3>2. counters.matches + 1 <= counters.candidates
        BY <1>2, <2>1, <3>1 DEF OrderInv
      <3> QED
        BY <1>4, <2>1, <3>1, <3>2
    <2>2. CASE n = "candidates"
      <3>1. counters.matches <= counters.candidates
        BY DEF OrderInv
      <3>2. /\ counters.matches <= counters.candidates + 1
            /\ counters.matches + 1 <= counters.candidates + 1
        BY <1>5, <3>1
      <3> QED
        BY <1>4, <2>2, <3>2
    <2>3. CASE n \notin {"matches", "candidates"}
      BY <1>2, <1>4, <2>3 DEF OrderInv
    <2> QED
      BY <2>1, <2>2, <2>3
  <1>8. FlowInv'
    BY <1>1, <1>4 DEF FlowInv
  <1>9. OrderInv'
    BY <1>2, <1>4, <1>6, <1>7 DEF OrderInv
  <1>10. FlowTypes'
    BY <1>1, <1>4 DEF FlowTypes
  <1> QED
    BY <1>8, <1>9, <1>10

LEMMA ProgramSteps ==
  ASSUME FlowTypes, FlowInv, OrderInv, NEW cpu \in Cpus, Program(cpu)
  PROVE  FlowInv' /\ OrderInv' /\ FlowTypes'
  <1>1. UNCHANGED collector /\ (\/ \E type \in RecordTypes : Produce(cpu, type)
                               \/ Submit(cpu) \/ CountOutcome(cpu))
    BY DEF Program
  <1>2. counters' = counters /\ todo' = todo /\ waiting' = waiting /\ alive' = alive
    BY <1>1 DEF collector
  <1>3. OrderInv'
    BY <1>2 DEF OrderInv
  <1>4. CASE \E type \in RecordTypes : Produce(cpu, type)
    <2>1. PICK type \in RecordTypes : Produce(cpu, type)
      BY <1>4
    <2>2. FlowInv' /\ kernel' \in [KernelCounters -> Nat] /\ kernel'.seen <= MaxRecords
          /\ program' \in [Cpus -> Steps] /\ ring' = ring
      BY <1>1, <2>1, ProduceFlow
    <2> QED
      BY <1>2, <1>3, <2>2 DEF FlowTypes
  <1>5. CASE Submit(cpu)
    <2>1. FlowInv' /\ program' \in [Cpus -> Steps]
          /\ ring' \in Seq(RecordTypes) /\ Len(ring') <= RingSlots
      BY <1>1, <1>5, SubmitFlow
    <2>2. kernel' = kernel
      BY <1>5 DEF Submit
    <2> QED
      BY <1>2, <1>3, <2>1, <2>2 DEF FlowTypes
  <1>6. CASE CountOutcome(cpu)
    <2>1. FlowInv' /\ kernel' \in [KernelCounters -> Nat] /\ kernel'.seen = kernel.seen
          /\ program' \in [Cpus -> Steps] /\ ring' = ring
      BY <1>1, <1>6, CountFlow
    <2> QED
      BY <1>2, <1>3, <2>1 DEF FlowTypes
  <1> QED
    BY <1>1, <1>4, <1>5, <1>6

-----------------------------------------------------------------------------
(* A status that nothing disturbs reads all counters of one moment.         *)

\* What has been read is what is there, and what has not been read is zero.
Exact ==
  /\ \A c \in Cpus : program[c] = <<>>
  /\ \A i \in 1 .. 4 : sample[KernelSlots[i]]
                        = IF i < at THEN kernel[KernelSlots[i]] ELSE 0
  /\ \A i \in 1 .. 6 : sample[CollectorSlots[i]]
                        = IF i + Apply < at THEN counters[CollectorSlots[i]] ELSE 0

SampleInv ==
  /\ rejected => at = 0
  /\ RefusalHasACause
  /\ at # 0 /\ ~disturbed => Exact

LEMMA Positions == Apply = 5 /\ Verdict = 12
  BY DEF Apply, Verdict, KernelSlots, CollectorSlots

LEMMA KernelSlot ==
  /\ KernelSlots[1] = "seen" /\ KernelSlots[2] = "submitted"
  /\ KernelSlots[3] = "dropped" /\ KernelSlots[4] = "captured"
  /\ \A i \in 1 .. 4 : KernelSlots[i] \in KernelCounters
  /\ \A i, j \in 1 .. 4 : i # j => KernelSlots[i] # KernelSlots[j]
  <1>1. /\ KernelSlots[1] = "seen" /\ KernelSlots[2] = "submitted"
        /\ KernelSlots[3] = "dropped" /\ KernelSlots[4] = "captured"
    BY DEF KernelSlots
  <1>2. 1 .. 4 = {1, 2, 3, 4}
    OBVIOUS
  <1> QED
    BY <1>1, <1>2, Slots

LEMMA CollectorSlot ==
  /\ CollectorSlots[1] = "consumed" /\ CollectorSlots[2] = "done" /\ CollectorSlots[3] = "gaps"
  /\ CollectorSlots[4] = "suppressed" /\ CollectorSlots[5] = "candidates"
  /\ CollectorSlots[6] = "matches"
  /\ \A i \in 1 .. 6 : CollectorSlots[i] \in CollectorCounters
  /\ \A i, j \in 1 .. 6 : i # j => CollectorSlots[i] # CollectorSlots[j]
  <1>1. /\ CollectorSlots[1] = "consumed" /\ CollectorSlots[2] = "done"
        /\ CollectorSlots[3] = "gaps" /\ CollectorSlots[4] = "suppressed"
        /\ CollectorSlots[5] = "candidates" /\ CollectorSlots[6] = "matches"
    BY DEF CollectorSlots
  <1>2. 1 .. 6 = {1, 2, 3, 4, 5, 6}
    OBVIOUS
  <1> QED
    BY <1>1, <1>2, Slots

LEMMA SlotsApart ==
  \A i \in 1 .. 4, j \in 1 .. 6 : KernelSlots[i] # CollectorSlots[j]
  <1>1. KernelCounters \cap CollectorCounters = {}
    BY Slots
  <1> QED
    BY <1>1, KernelSlot, CollectorSlot

LEMMA NothingRead ==
  /\ Nothing \in [KernelCounters \cup CollectorCounters -> Nat]
  /\ \A i \in 1 .. 4 : Nothing[KernelSlots[i]] = 0
  /\ \A i \in 1 .. 6 : Nothing[CollectorSlots[i]] = 0
  BY KernelSlot, CollectorSlot DEF Nothing, Zero

IInv == FlowTypes /\ StatusTypes /\ FlowInv /\ OrderInv /\ SampleInv

LEMMA BeginSteps ==
  ASSUME IInv, Begin, UNCHANGED <<programs, collector>>
  PROVE  StatusTypes' /\ SampleInv'
  <1>1. /\ at' = 1 /\ tries' = 1 /\ sample' = Nothing /\ rejected' = rejected /\ ~rejected
        /\ disturbed' = \E cpu \in Cpus : program[cpu] # <<>>
        /\ program' = program /\ kernel' = kernel /\ counters' = counters
    BY DEF Begin, programs, collector
  <1>2. StatusTypes'
    <2>1. 1 \in 0 .. Verdict /\ 1 \in 0 .. MaxTries
      BY Positions, StatusAssumption
    <2>2. disturbed' \in BOOLEAN
      BY <1>1
    <2> QED
      BY <1>1, <2>1, <2>2, NothingRead DEF IInv, StatusTypes
  <1>3. ~disturbed' => Exact'
    <2>1. \A i \in 1 .. 4 : ~(i < 1)
      OBVIOUS
    <2>2. \A i \in 1 .. 6 : ~(i + Apply < 1)
      BY Positions
    <2> QED
      BY <1>1, <2>1, <2>2, NothingRead DEF Exact
  <1> QED
    BY <1>1, <1>2, <1>3 DEF SampleInv, RefusalHasACause

LEMMA ReadKernelSteps ==
  ASSUME IInv, ReadKernel, UNCHANGED <<programs, collector>>
  PROVE  StatusTypes' /\ SampleInv'
  <1> DEFINE slot == KernelSlots[at]
  <1>1. /\ at \in 1 .. 4 /\ at' = at + 1 /\ tries' = tries /\ rejected' = rejected
        /\ disturbed' = disturbed /\ sample' = [sample EXCEPT ![slot] = @ + kernel[slot]]
        /\ program' = program /\ kernel' = kernel /\ counters' = counters
    BY Positions DEF ReadKernel, Add, programs, collector
  <1>2. /\ sample \in [KernelCounters \cup CollectorCounters -> Nat]
        /\ kernel \in [KernelCounters -> Nat] /\ slot \in KernelCounters
    BY <1>1, KernelSlot DEF IInv, StatusTypes, FlowTypes
  <1>3. /\ sample' \in [KernelCounters \cup CollectorCounters -> Nat]
        /\ sample'[slot] = sample[slot] + kernel[slot]
        /\ \A n \in KernelCounters \cup CollectorCounters : n # slot => sample'[n] = sample[n]
    <2>1. sample[slot] \in Nat /\ kernel[slot] \in Nat
      BY <1>2
    <2> HIDE DEF slot
    <2> QED
      BY <1>1, <1>2, <2>1
  <1>4. StatusTypes'
    <2>1. at' \in 0 .. Verdict
      BY <1>1, Positions
    <2> QED
      BY <1>1, <1>3, <2>1 DEF IInv, StatusTypes
  <1>5. ASSUME Exact PROVE Exact'
    <2>1. ASSUME NEW i \in 1 .. 4
          PROVE  sample'[KernelSlots[i]] = IF i < at + 1 THEN kernel[KernelSlots[i]] ELSE 0
      <3>1. CASE i = at
        <4>1. sample[slot] = 0 /\ kernel[slot] \in Nat
          <5>1. sample[KernelSlots[i]] = IF i < at THEN kernel[KernelSlots[i]] ELSE 0
            BY <1>5 DEF Exact
          <5>2. ~(i < at)
            BY <3>1
          <5>3. kernel[slot] \in Nat
            BY <1>2
          <5> QED
            BY <3>1, <5>1, <5>2, <5>3
        <4>2. sample'[slot] = kernel[slot]
          BY <1>3, <4>1
        <4> QED
          BY <1>1, <3>1, <4>2
      <3>2. CASE i # at
        <4>1. KernelSlots[i] # slot /\ KernelSlots[i] \in KernelCounters
          BY <1>1, <3>2, KernelSlot
        <4>2. sample'[KernelSlots[i]] = sample[KernelSlots[i]]
          BY <1>3, <4>1
        <4>3. i < at + 1 <=> i < at
          BY <1>1, <3>2
        <4> QED
          BY <1>5, <4>2, <4>3 DEF Exact
      <3> QED
        BY <3>1, <3>2
    <2>2. ASSUME NEW i \in 1 .. 6
          PROVE  /\ sample'[CollectorSlots[i]] = 0
                 /\ ~(i + Apply < at + 1)
      <3>1. CollectorSlots[i] # slot /\ CollectorSlots[i] \in CollectorCounters
        BY <1>1, CollectorSlot, SlotsApart
      <3>2. ~(i + Apply < at) /\ ~(i + Apply < at + 1)
        BY <1>1, Positions
      <3> QED
        BY <1>3, <1>5, <3>1, <3>2 DEF Exact
    <2> QED
      BY <1>1, <1>5, <2>1, <2>2 DEF Exact
  <1>6. ~rejected
    BY <1>1 DEF IInv, SampleInv
  <1> QED
    BY <1>1, <1>4, <1>5, <1>6 DEF IInv, SampleInv, RefusalHasACause

LEMMA ReadCollectorSteps ==
  ASSUME IInv, ReadCollector, UNCHANGED <<programs, collector>>
  PROVE  StatusTypes' /\ SampleInv'
  <1> DEFINE p == at - Apply
             name == CollectorSlots[p]
  <1>1. /\ at \in 6 .. 11 /\ at' = at + 1 /\ tries' = tries /\ rejected' = rejected
        /\ disturbed' = disturbed /\ sample' = [sample EXCEPT ![name] = @ + counters[name]]
        /\ program' = program /\ kernel' = kernel /\ counters' = counters
    BY Positions DEF ReadCollector, Add, programs, collector
  <1>2. p \in 1 .. 6 /\ p + Apply = at
    BY <1>1, Positions
  <1>3. /\ sample \in [KernelCounters \cup CollectorCounters -> Nat]
        /\ counters \in [CollectorCounters -> Nat] /\ name \in CollectorCounters
    BY <1>2, CollectorSlot DEF IInv, StatusTypes, FlowTypes
  <1>4. /\ sample' \in [KernelCounters \cup CollectorCounters -> Nat]
        /\ sample'[name] = sample[name] + counters[name]
        /\ \A n \in KernelCounters \cup CollectorCounters : n # name => sample'[n] = sample[n]
    <2>1. sample[name] \in Nat /\ counters[name] \in Nat
      BY <1>3
    <2> HIDE DEF name
    <2> QED
      BY <1>1, <1>3, <2>1
  <1>5. StatusTypes'
    <2>1. at' \in 0 .. Verdict
      BY <1>1, Positions
    <2> QED
      BY <1>1, <1>4, <2>1 DEF IInv, StatusTypes
  <1> HIDE DEF p
  <1>6. ASSUME Exact PROVE Exact'
    <2>1. ASSUME NEW i \in 1 .. 6
          PROVE  sample'[CollectorSlots[i]]
                   = IF i + Apply < at + 1 THEN counters[CollectorSlots[i]] ELSE 0
      <3>1. CASE i = p
        <4>1. ~(p + Apply < at) /\ p + Apply < at + 1
          BY <1>1, <1>2
        <4>2. sample[name] = 0 /\ counters[name] \in Nat
          BY <1>2, <1>3, <1>6, <4>1 DEF Exact
        <4>3. sample'[name] = counters[name]
          BY <1>4, <4>2
        <4> QED
          BY <3>1, <4>1, <4>3
      <3>2. CASE i # p
        <4>1. CollectorSlots[i] # name /\ CollectorSlots[i] \in CollectorCounters
          BY <1>2, <3>2, CollectorSlot
        <4>2. sample'[CollectorSlots[i]] = sample[CollectorSlots[i]]
          BY <1>4, <4>1
        <4>3. i + Apply < at + 1 <=> i + Apply < at
          BY <1>1, <1>2, <3>2, Positions
        <4> QED
          BY <1>6, <4>2, <4>3 DEF Exact
      <3> QED
        BY <3>1, <3>2
    <2>2. ASSUME NEW i \in 1 .. 4
          PROVE  /\ sample'[KernelSlots[i]] = kernel[KernelSlots[i]]
                 /\ i < at + 1
      <3>1. KernelSlots[i] # name /\ KernelSlots[i] \in KernelCounters
        BY <1>2, KernelSlot, SlotsApart
      <3>2. i < at /\ i < at + 1
        BY <1>1
      <3> QED
        BY <1>4, <1>6, <3>1, <3>2 DEF Exact
    <2> QED
      BY <1>1, <1>6, <2>1, <2>2 DEF Exact
  <1>7. ~rejected
    BY <1>1 DEF IInv, SampleInv
  <1> QED
    BY <1>1, <1>5, <1>6, <1>7 DEF IInv, SampleInv, RefusalHasACause

\* What a status reads at one moment satisfies the invariants, but for the
\* counters of argv.
LEMMA ExactHolds ==
  ASSUME FlowTypes, FlowInv, OrderInv, Exact
  PROVE  /\ at \in 5 .. 12 => Balanced
         /\ at = 12 => /\ sample.seen = sample.submitted + sample.dropped
                      /\ sample.consumed <= sample.submitted
                      /\ sample.done <= sample.consumed + sample.gaps
                      /\ sample.matches <= sample.candidates
  <1>1. /\ Programs(program, Unsettled) = 0 /\ Programs(program, Unsubmitted) = 0
    BY ProgramsIdle, IdleStep DEF Exact
  <1>2. /\ kernel.seen \in Nat /\ kernel.submitted \in Nat /\ kernel.dropped \in Nat
        /\ counters.consumed \in Nat /\ Len(ring) \in Nat
    BY FlowValues
  <1>3. kernel.seen = kernel.submitted + kernel.dropped
    <2>1. kernel.submitted + kernel.dropped \in Nat
      BY <1>2
    <2> QED
      BY <1>1, <1>2, <2>1 DEF FlowInv
  <1>4. counters.consumed <= kernel.submitted
    BY <1>1, <1>2 DEF FlowInv
  <1>5. ASSUME at \in 5 .. 12
        PROVE  /\ sample.seen = kernel.seen /\ sample.submitted = kernel.submitted
               /\ sample.dropped = kernel.dropped
    <2>1. \A i \in 1 .. 4 : sample[KernelSlots[i]] = kernel[KernelSlots[i]]
      BY <1>5 DEF Exact
    <2>2. 1 \in 1 .. 4 /\ 2 \in 1 .. 4 /\ 3 \in 1 .. 4
      OBVIOUS
    <2> QED
      BY <2>1, <2>2, KernelSlot
  <1>6. ASSUME at = 12
        PROVE  /\ sample.consumed = counters.consumed /\ sample.done = counters.done
               /\ sample.gaps = counters.gaps /\ sample.candidates = counters.candidates
               /\ sample.matches = counters.matches
    <2>1. \A i \in 1 .. 6 : sample[CollectorSlots[i]] = counters[CollectorSlots[i]]
      <3>1. \A i \in 1 .. 6 : i + Apply < at
        BY <1>6, Positions
      <3> QED
        BY <3>1 DEF Exact
    <2>2. 1 \in 1 .. 6 /\ 2 \in 1 .. 6 /\ 3 \in 1 .. 6 /\ 5 \in 1 .. 6 /\ 6 \in 1 .. 6
      OBVIOUS
    <2> QED
      BY <2>1, <2>2, CollectorSlot
  <1>7. at \in 5 .. 12 => Balanced
    BY <1>3, <1>5 DEF Balanced
  <1>8. at = 12 => at \in 5 .. 12
    OBVIOUS
  <1> QED
    BY <1>3, <1>4, <1>5, <1>6, <1>7, <1>8 DEF OrderInv

LEMMA ApplySteps ==
  ASSUME IInv, ApplySample, UNCHANGED <<programs, collector>>
  PROVE  StatusTypes' /\ SampleInv'
  <1>1. /\ at = 5 /\ disturbed' = disturbed
        /\ program' = program /\ kernel' = kernel /\ counters' = counters
    BY Positions DEF ApplySample, programs, collector
  <1>2. ~rejected /\ FlowTypes /\ FlowInv /\ OrderInv /\ StatusTypes /\ SampleInv
    BY <1>1 DEF IInv, SampleInv
  <1>3. CASE Balanced
    <2>1. at' = 6 /\ tries' = 0 /\ sample' = sample /\ rejected' = rejected
      BY <1>1, <1>3 DEF ApplySample
    <2>2. StatusTypes'
      <3>1. 6 \in 0 .. Verdict /\ 0 \in 0 .. MaxTries
        BY Positions, StatusAssumption
      <3> QED
        BY <1>1, <1>2, <2>1, <3>1 DEF StatusTypes
    <2>3. ASSUME Exact PROVE Exact'
      <3>1. \A i \in 1 .. 4 : i < 5 /\ i < 6
        OBVIOUS
      <3>2. \A i \in 1 .. 6 : ~(i + Apply < 5) /\ ~(i + Apply < 6)
        BY Positions
      <3> QED
        BY <1>1, <2>1, <2>3, <3>1, <3>2 DEF Exact
    <2> QED
      BY <1>1, <1>2, <2>1, <2>2, <2>3 DEF SampleInv, RefusalHasACause
  <1>4. CASE ~Balanced
    <2>1. disturbed
      <3>1. ~Exact
        BY <1>1, <1>2, <1>4, ExactHolds
      <3> QED
        BY <1>1, <1>2, <3>1 DEF SampleInv, StatusTypes
    <2>2. Retry
      BY <1>4 DEF ApplySample
    <2>3. CASE /\ tries < MaxTries /\ tries' = tries + 1 /\ at' = 1
               /\ sample' = Nothing /\ rejected' = rejected
      <3>1. tries' \in 0 .. MaxTries /\ at' \in 0 .. Verdict
        BY <1>2, <2>3, Positions, StatusAssumption DEF StatusTypes
      <3>2. StatusTypes'
        BY <1>1, <1>2, <2>3, <3>1, NothingRead DEF StatusTypes
      <3> QED
        BY <1>1, <1>2, <2>1, <2>3, <3>2 DEF SampleInv, RefusalHasACause
    <2>4. CASE rejected' = TRUE /\ at' = 0 /\ sample' = sample /\ tries' = tries
      <3>1. at' \in 0 .. Verdict
        BY <2>4, Positions
      <3>2. StatusTypes'
        BY <1>1, <1>2, <2>4, <3>1 DEF StatusTypes
      <3> QED
        BY <1>1, <2>1, <2>4, <3>2 DEF SampleInv, RefusalHasACause
    <2> QED
      BY <2>2, <2>3, <2>4 DEF Retry
  <1> QED
    BY <1>3, <1>4

LEMMA DecideSteps ==
  ASSUME IInv, Decide, UNCHANGED <<programs, collector>>
  PROVE  StatusTypes' /\ SampleInv'
  <1>1. at = 12 /\ at' = 0
    BY Positions DEF Decide
  <1>2. ~rejected /\ FlowTypes /\ FlowInv /\ OrderInv /\ StatusTypes /\ SampleInv
    BY <1>1 DEF IInv, SampleInv
  <1>3. 0 \in 0 .. Verdict
    BY Positions
  <1>4. CASE /\ sample' = Nothing /\ disturbed' = FALSE
             /\ tries' = tries /\ rejected' = rejected
    <2>1. StatusTypes'
      BY <1>1, <1>2, <1>3, <1>4, NothingRead DEF StatusTypes
    <2> QED
      BY <1>1, <1>2, <1>4, <2>1 DEF SampleInv, RefusalHasACause
  <1>5. CASE /\ ~AllInvariantsHold(sample) /\ rejected' = TRUE
             /\ sample' = sample /\ tries' = tries /\ disturbed' = disturbed
    <2>1. StatusTypes'
      BY <1>1, <1>2, <1>3, <1>5 DEF StatusTypes
    <2>2. disturbed \/ sample.suppressed > sample.captured
      <3>1. CASE Exact
        <4>1. ~(sample.suppressed <= sample.captured)
          BY <1>1, <1>2, <1>5, <3>1, ExactHolds DEF AllInvariantsHold
        <4>2. sample.suppressed \in Nat /\ sample.captured \in Nat
          BY <1>2, Slots DEF StatusTypes
        <4> QED
          BY <4>1, <4>2
      <3>2. CASE ~Exact
        BY <1>1, <1>2, <3>2 DEF SampleInv
      <3> QED
        BY <3>1, <3>2
    <2> QED
      BY <1>1, <1>5, <2>1, <2>2 DEF SampleInv, RefusalHasACause
  <1> QED
    BY <1>4, <1>5 DEF Decide

-----------------------------------------------------------------------------
LEMMA InitIInv == Init => IInv
  <1> SUFFICES ASSUME Init PROVE IInv
    OBVIOUS
  <1>1. /\ kernel = Zero(KernelCounters) /\ program = [c \in Cpus |-> <<>>] /\ ring = <<>>
        /\ counters = Zero(CollectorCounters) /\ todo = <<>> /\ waiting = 0 /\ alive = TRUE
        /\ at = 0 /\ tries = 0 /\ rejected = FALSE /\ sample = Nothing /\ disturbed = FALSE
    BY DEF Init
  <1>2. /\ kernel \in [KernelCounters -> Nat] /\ kernel.seen = 0 /\ kernel.submitted = 0
        /\ kernel.dropped = 0 /\ kernel.captured = 0
    BY <1>1, Slots DEF Zero
  <1>3. /\ counters \in [CollectorCounters -> Nat] /\ counters.consumed = 0
        /\ counters.done = 0 /\ counters.gaps = 0
        /\ counters.matches = 0 /\ counters.candidates = 0
    BY <1>1, Slots DEF Zero
  <1>4. ring \in Seq(RecordTypes) /\ Len(ring) = 0
    BY <1>1, EmptySeq
  <1>5. \A c \in Cpus : program[c] = <<>>
    BY <1>1
  <1>6. FlowTypes
    <2>1. program \in [Cpus -> Steps]
      BY <1>1, IdleStep
    <2> QED
      BY <1>1, <1>2, <1>3, <1>4, <2>1, Limits DEF FlowTypes
  <1>7. StatusTypes
    <2>1. 0 \in 0 .. Verdict /\ 0 \in 0 .. MaxTries
      BY Positions, StatusAssumption
    <2> QED
      BY <1>1, <2>1, NothingRead DEF StatusTypes
  <1>8. FlowInv
    <2>1. /\ Programs(program, Unsettled) = 0 /\ Programs(program, Unsubmitted) = 0
          /\ Programs(program, Uncaptured) = 0
      BY <1>5, ProgramsIdle, IdleStep
    <2> QED
      BY <1>1, <1>2, <1>3, <1>4, <2>1 DEF FlowInv
  <1>9. OrderInv
    BY <1>1, <1>3, OrderedNone DEF OrderInv
  <1>10. SampleInv
    BY <1>1 DEF SampleInv, RefusalHasACause
  <1> QED
    BY <1>6, <1>7, <1>8, <1>9, <1>10 DEF IInv

LEMMA MovePreserves ==
  ASSUME IInv, Move
  PROVE  IInv'
  <1>1. /\ ~rejected /\ at' = at /\ sample' = sample /\ tries' = tries
        /\ rejected' = rejected /\ disturbed' = (disturbed \/ at # 0)
        /\ (\E cpu \in Cpus : Program(cpu)) \/ Collect
    BY DEF Move, sampler
  <1>2. FlowTypes /\ FlowInv /\ OrderInv /\ StatusTypes
    BY DEF IInv
  <1>3. FlowInv' /\ OrderInv' /\ FlowTypes'
    <2>1. CASE \E cpu \in Cpus : Program(cpu)
      BY <1>2, <2>1, ProgramSteps
    <2>2. CASE Collect
      BY <1>2, <2>2, ConsumeSteps, ExpireSteps, CountNextSteps DEF Collect
    <2> QED
      BY <1>1, <2>1, <2>2
  <1>4. StatusTypes'
    BY <1>1, <1>2 DEF StatusTypes
  <1>5. SampleInv'
    BY <1>1 DEF SampleInv, RefusalHasACause
  <1> QED
    BY <1>3, <1>4, <1>5 DEF IInv

LEMMA StatusPreserves ==
  ASSUME IInv, Status
  PROVE  IInv'
  <1>1. UNCHANGED <<programs, collector>>
    BY DEF Status
  <1>2. FlowInv' /\ OrderInv' /\ FlowTypes'
    BY <1>1 DEF IInv, FlowInv, OrderInv, FlowTypes, programs, collector
  <1>3. StatusTypes' /\ SampleInv'
    BY <1>1, BeginSteps, ReadKernelSteps, ApplySteps, ReadCollectorSteps, DecideSteps DEF Status
  <1> QED
    BY <1>2, <1>3 DEF IInv

LEMMA Invariance == Spec => []IInv
  <1>1. ASSUME IInv, [Next]_vars PROVE IInv'
    <2>1. CASE UNCHANGED vars
      BY <1>1, <2>1 DEF IInv, FlowInv, OrderInv, FlowTypes, StatusTypes, SampleInv,
                        RefusalHasACause, Exact, vars, programs, collector, sampler
    <2> QED
      BY <1>1, <2>1, MovePreserves, StatusPreserves DEF Next
  <1> QED
    BY InitIInv, <1>1, PTL DEF Spec

-----------------------------------------------------------------------------
LEMMA Bounds ==
  ASSUME FlowTypes, FlowInv
  PROVE  /\ kernel.submitted <= MaxRecords /\ kernel.dropped <= MaxRecords
         /\ kernel.captured <= MaxRecords /\ waiting <= MaxRecords
  <1>1. /\ kernel.seen \in Nat /\ kernel.submitted \in Nat
        /\ kernel.dropped \in Nat /\ kernel.captured \in Nat
        /\ Programs(program, Unsettled) \in Nat /\ Programs(program, Unsubmitted) \in Nat
        /\ Programs(program, Uncaptured) \in Nat
        /\ counters.consumed \in Nat /\ Len(ring) \in Nat /\ waiting \in Nat
    BY FlowValues
  <1>2. Programs(program, Unsubmitted) <= Programs(program, Unsettled)
    <2>1. Unsubmitted \subseteq Unsettled
      BY DEF Unsubmitted, Unsettled, Steps
    <2> QED
      BY <2>1, ProgramsSubset
  <1>3. kernel.seen <= MaxRecords /\ MaxRecords \in Nat
    BY Limits DEF FlowTypes
  <1>4. kernel.submitted + Programs(program, Unsettled) <= kernel.seen
        /\ kernel.dropped <= kernel.seen
    <2>1. \A a, b, c, m \in Nat : a = b + c + m => b + m <= a /\ c <= a
      OBVIOUS
    <2> QED
      BY <1>1, <2>1 DEF FlowInv
  <1>5. kernel.submitted + Programs(program, Unsubmitted) <= kernel.seen
    BY <1>1, <1>2, <1>4
  <1>6. kernel.captured <= kernel.seen /\ kernel.submitted <= kernel.seen
    BY <1>1, <1>5 DEF FlowInv
  <1>7. waiting <= kernel.seen
    BY <1>1, <1>5 DEF FlowInv
  <1> QED
    BY <1>1, <1>3, <1>4, <1>6, <1>7

\* runtime.rs, CollectorCounters, and EVENT_COUNTERS: the types, that no counter
\* of the kernel passes the records there were, and that no more attempts wait
\* than records were consumed.
THEOREM TypeCorrect == Spec => []TypeOK
  <1>1. ASSUME IInv PROVE TypeOK
    <2>1. FlowTypes /\ FlowInv /\ OrderInv /\ StatusTypes
      BY <1>1 DEF IInv
    <2>2. kernel \in [KernelCounters -> 0 .. MaxRecords]
      <3>1. \A n \in KernelCounters : kernel[n] \in Nat /\ kernel[n] <= MaxRecords
        BY <2>1, Bounds, Slots DEF FlowTypes
      <3> QED
        BY <2>1, <3>1, Limits DEF FlowTypes
    <2>3. Steps = {<<>>, <<"submitted">>, <<"submitted", "captured">>, <<"captured">>,
                   <<"dropped">>} \cup {<<t>> : t \in RecordTypes}
      BY DEF Steps, RecordTypes
    <2>4. todo \in Seq(CollectorCounters \cup {"end"})
      <3>1. Outcomes \subseteq CollectorCounters \cup {"end"}
        BY Slots DEF Outcomes
      <3> QED
        BY <2>1, <3>1, SeqMonotonic DEF OrderInv, Ordered
    <2>5. waiting \in 0 .. MaxRecords
      BY <2>1, Bounds, Limits DEF FlowTypes
    <2> QED
      BY <2>1, <2>2, <2>3, <2>4, <2>5 DEF TypeOK, FlowTypes, StatusTypes
  <1> QED
    BY <1>1, Invariance, PTL

\* syscall.rs, EVENTS.output and the counting after it: what was submitted was
\* consumed or is in the ring, up to the programs that have yet to count.
THEOREM NothingLostInTheRing == Spec => []SubmittedIsConserved
  <1>1. ASSUME IInv PROVE SubmittedIsConserved
    <2>1. program \in [Cpus -> Steps]
      BY <1>1 DEF IInv, FlowTypes
    <2>2. \A s \in Steps : (s # <<>> /\ Head(s) = "submitted") <=> s \in Unsubmitted
      BY DEF Steps, Unsubmitted
    <2>3. {c \in Cpus : program[c] # <<>> /\ Head(program[c]) = "submitted"}
            = {c \in Cpus : program[c] \in Unsubmitted}
      BY <2>1, <2>2
    <2>4. Uncounted = Programs(program, Unsubmitted)
      BY <2>3 DEF Uncounted, Programs
    <2> QED
      BY <1>1, <2>4 DEF IInv, FlowInv, SubmittedIsConserved
  <1> QED
    BY <1>1, Invariance, PTL

\* runtime.rs, process_collected_records: the collector's own counters satisfy
\* their invariants at every moment, whatever the record and wherever it stops.
THEOREM CountedInOrder == Spec => []CollectorCountsInOrder
  <1>1. IInv => CollectorCountsInOrder
    BY DEF IInv, OrderInv, CollectorCountsInOrder
  <1> QED
    BY <1>1, Invariance, PTL

\* runtime.rs, emit_runtime_status: a status is refused only if counters moved
\* while it was taken, or more argv were suppressed than captured.
THEOREM RefusedForAReason == Spec => []RefusalHasACause
  <1>1. IInv => RefusalHasACause
    BY DEF IInv, SampleInv
  <1> QED
    BY <1>1, Invariance, PTL

-----------------------------------------------------------------------------
(* How long a status takes.                                                 *)

\* The most steps the main thread has yet to make for a status in progress: what is left
\* of this sample, every sample it may still take, the collector's counters, the decision.
StepsLeft ==
  IF at = 0 THEN 0
  ELSE IF at <= Apply THEN (MaxTries - tries) * Apply + (Verdict - at) + 1
  ELSE (Verdict - at) + 1

\* A sample is being taken, and counted as one of those allowed.
TriesInv == at \in 1 .. Apply => tries \in 1 .. MaxTries

LEMMA TriesHold ==
  ASSUME IInv, TriesInv, [Next]_vars
  PROVE  TriesInv'
  <1>1. at \in Nat /\ tries \in 0 .. MaxTries /\ MaxTries \in Nat \ {0}
    BY StatusAssumption, Positions DEF IInv, StatusTypes
  <1>2. CASE Move \/ UNCHANGED vars
    <2>1. at' = at /\ tries' = tries
      BY <1>2 DEF Move, vars, sampler
    <2> QED
      BY <2>1 DEF TriesInv, Apply
  <1>3. CASE Begin
    <2>1. tries' = 1
      BY <1>3 DEF Begin
    <2> QED
      BY <1>1, <2>1 DEF TriesInv
  <1>4. CASE ReadKernel
    <2>1. at \in 1 .. Apply - 1 /\ tries' = tries
      BY <1>4 DEF ReadKernel
    <2>2. tries \in 1 .. MaxTries
      BY <2>1, Positions DEF TriesInv
    <2> QED
      BY <2>1, <2>2 DEF TriesInv
  <1>5. CASE ApplySample
    <2>1. at = 5 /\ tries \in 1 .. MaxTries
      BY <1>5, Positions DEF ApplySample, TriesInv
    <2>2. at' = at + 1 \/ at' = 0 \/ (tries' = tries + 1 /\ tries < MaxTries)
      BY <1>5 DEF ApplySample, Retry
    <2>3. Apply' = 5
      BY Positions DEF Apply
    <2>4. (tries' = tries + 1 /\ tries < MaxTries) => tries' \in 1 .. MaxTries
      BY <1>1, <2>1
    <2>5. (at' = at + 1 \/ at' = 0) => at' \notin 1 .. 5
      BY <2>1
    <2> QED
      BY <2>2, <2>3, <2>4, <2>5 DEF TriesInv
  <1>6. CASE ReadCollector
    <2>1. at \in Apply + 1 .. Verdict - 1 /\ at' = at + 1
      BY <1>6 DEF ReadCollector
    <2>2. Apply' = 5
      BY Positions DEF Apply
    <2> QED
      BY <2>1, <2>2, Positions DEF TriesInv
  <1>7. CASE Decide
    BY <1>7 DEF Decide, TriesInv
  <1> QED
    BY <1>2, <1>3, <1>4, <1>5, <1>6, <1>7 DEF Next, Status

StatusAdvances ==
  [][at # 0 => (at' = at /\ tries' = tries) \/ StepsLeft' < StepsLeft]_vars

StatusIsShort == StepsLeft <= MaxTries * Apply + (Verdict - Apply)

LEMMA StepsLeftIs ==
  ASSUME IInv, TriesInv
  PROVE  /\ at = 0 => StepsLeft = 0
         /\ at \in 1 .. 5 => StepsLeft = (MaxTries - tries) * 5 + (12 - at) + 1
         /\ at \in 6 .. 12 => StepsLeft = (12 - at) + 1
         /\ at \in 0 .. 12 /\ tries \in 0 .. MaxTries /\ MaxTries \in Nat \ {0}
         /\ at \in 1 .. 5 => tries \in 1 .. MaxTries
  <1>1. at \in 0 .. 12 /\ tries \in 0 .. MaxTries /\ MaxTries \in Nat \ {0}
    BY Positions, StatusAssumption DEF IInv, StatusTypes
  <1>2. StepsLeft = IF at = 0 THEN 0
                    ELSE IF at <= 5 THEN (MaxTries - tries) * 5 + (12 - at) + 1
                    ELSE (12 - at) + 1
    BY Positions DEF StepsLeft
  <1>3. at \in 1 .. 5 => tries \in 1 .. MaxTries
    BY Positions DEF TriesInv
  <1> QED
    BY <1>1, <1>2, <1>3

LEMMA StepsLeftNext ==
  ASSUME IInv', TriesInv'
  PROVE  /\ at' = 0 => StepsLeft' = 0
         /\ at' \in 1 .. 5 => StepsLeft' = (MaxTries - tries') * 5 + (12 - at') + 1
         /\ at' \in 6 .. 12 => StepsLeft' = (12 - at') + 1
         /\ at' \in 0 .. 12 /\ tries' \in 0 .. MaxTries
  <1>1. Apply' = 5 /\ Verdict' = 12
    BY Positions DEF Apply, Verdict
  <1>2. at' \in 0 .. 12 /\ tries' \in 0 .. MaxTries /\ MaxTries \in Nat \ {0}
    BY <1>1, StatusAssumption DEF IInv, StatusTypes
  <1>3. StepsLeft' = IF at' = 0 THEN 0
                     ELSE IF at' <= 5 THEN (MaxTries - tries') * 5 + (12 - at') + 1
                     ELSE (12 - at') + 1
    BY <1>1 DEF StepsLeft
  <1>4. at' \in 1 .. 5 => at' # 0 /\ at' <= 5
    OBVIOUS
  <1>5. at' \in 6 .. 12 => at' # 0 /\ ~(at' <= 5)
    OBVIOUS
  <1> QED
    BY <1>2, <1>3, <1>4, <1>5, Zenon

LEMMA StatusStepAdvances ==
  ASSUME IInv, TriesInv, IInv', TriesInv', Next, at # 0
  PROVE  (at' = at /\ tries' = tries) \/ StepsLeft' < StepsLeft
  <1>1. CASE Move
    BY <1>1 DEF Move, sampler
  <1>2. CASE ReadKernel
    <2>1. at \in 1 .. 4 /\ at' = at + 1 /\ tries' = tries
      BY <1>2, Positions DEF ReadKernel
    <2>2. StepsLeft = (MaxTries - tries) * 5 + (12 - at) + 1
      BY <2>1, StepsLeftIs
    <2>3. StepsLeft' = (MaxTries - tries) * 5 + (12 - (at + 1)) + 1
      BY <2>1, StepsLeftNext
    <2>4. MaxTries - tries \in Nat
      BY StepsLeftIs
    <2> QED
      BY <2>1, <2>2, <2>3, <2>4
  <1>3. CASE ApplySample
    <2>1. at = 5 /\ (at' = 6 \/ at' = 0 \/ (at' = 1 /\ tries' = tries + 1 /\ tries < MaxTries))
      BY <1>3, Positions DEF ApplySample, Retry
    <2>2. StepsLeft = (MaxTries - tries) * 5 + 8 /\ tries \in 1 .. MaxTries /\ MaxTries \in Nat
      BY <2>1, StepsLeftIs
    <2>3. CASE at' = 6
      <3>1. StepsLeft' = (12 - 6) + 1
        BY <2>3, StepsLeftNext
      <3>2. (MaxTries - tries) * 5 + 8 > (12 - 6) + 1
        BY <2>2
      <3> QED
        BY <2>2, <3>1, <3>2
    <2>4. CASE at' = 0
      <3>1. StepsLeft' = 0
        BY <2>4, StepsLeftNext
      <3> QED
        BY <2>2, <3>1
    <2>5. CASE at' = 1 /\ tries' = tries + 1 /\ tries < MaxTries
      <3>1. StepsLeft' = (MaxTries - (tries + 1)) * 5 + (12 - 1) + 1
        BY <2>5, StepsLeftNext
      <3>2. \A m, t \in Nat : (m - (t + 1)) * 5 + (12 - 1) + 1 < (m - t) * 5 + 8
        OBVIOUS
      <3>3. tries \in Nat /\ MaxTries \in Nat
        BY <2>2
      <3>4. (MaxTries - (tries + 1)) * 5 + (12 - 1) + 1 < (MaxTries - tries) * 5 + 8
        BY <3>2, <3>3
      <3> QED
        BY <2>2, <3>1, <3>4, Zenon
    <2> QED
      BY <2>1, <2>3, <2>4, <2>5
  <1>4. CASE ReadCollector
    <2>1. at \in 6 .. 11 /\ at' = at + 1
      BY <1>4, Positions DEF ReadCollector
    <2> QED
      BY <2>1, StepsLeftIs, StepsLeftNext
  <1>5. CASE Decide
    <2>1. at = 12 /\ at' = 0
      BY <1>5, Positions DEF Decide
    <2> QED
      BY <2>1, StepsLeftIs, StepsLeftNext
  <1>6. ~Begin
    BY DEF Begin
  <1> QED
    BY <1>1, <1>2, <1>3, <1>4, <1>5, <1>6 DEF Next, Status

\* runtime.rs:496-542, runtime_health_counters: a status takes a bounded number of steps of
\* the main thread, for any number of CPUs and tries and however busy kernel and
\* collector are: nothing they do adds to it, and each of its own steps takes one off. With the
\* scheduling of the main thread this is why StatusEnds.
THEOREM StatusIsBounded == Spec => []StatusIsShort /\ StatusAdvances
  <1>1. Init => TriesInv
    BY DEF Init, TriesInv
  <1>2. IInv /\ TriesInv => StatusIsShort
    <2> SUFFICES ASSUME IInv, TriesInv PROVE StatusIsShort
      OBVIOUS
    <2>1. StepsLeft <= MaxTries * 5 + 7
      BY StepsLeftIs
    <2> QED
      BY <2>1, Positions DEF StatusIsShort
  <1>3. IInv /\ TriesInv /\ IInv' /\ TriesInv' /\ [Next]_vars =>
          [at # 0 => (at' = at /\ tries' = tries) \/ StepsLeft' < StepsLeft]_vars
    BY StatusStepAdvances
  <1>4. IInv /\ TriesInv /\ [Next]_vars => TriesInv'
    BY TriesHold
  <1> QED
    BY <1>1, <1>2, <1>3, <1>4, Invariance, PTL DEF Spec, StatusAdvances
=============================================================================
