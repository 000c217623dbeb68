------------------------------ MODULE BoundedFifo ------------------------------
(***************************************************************************)
(* What OutputQueue promises its caller: records leave in the order they   *)
(* came, a record is refused if and only if it does not fit under the hard *)
(* capacity together with what waits, however the queue has grown or       *)
(* shrunk before, every refusal is counted, and a record that was taken is *)
(* waiting, delivered or lost by a write that failed.                      *)
(***************************************************************************)
EXTENDS Naturals, Sequences

CONSTANTS
  Sizes,     (* sizes of a record                                           *)
  Capacity   (* bytes that may wait                                         *)

VARIABLES
  offered,   (* records offered so far: the next one is offered + 1         *)
  pending,   (* records that wait                                           *)
  delivered, (* numbers of the records delivered                            *)
  refused,   (* count of records refused                                    *)
  lost       (* count of records whose write failed                         *)

vars == <<offered, pending, delivered, refused, lost>>

Bytes(records) ==
  LET sum[n \in 0 .. Len(records)] == IF n = 0 THEN 0 ELSE sum[n - 1] + records[n].size
  IN sum[Len(records)]

Offer(size) ==
  /\ offered' = offered + 1
  /\ IF Bytes(pending) + size <= Capacity
       THEN /\ pending' = Append(pending, [id |-> offered', size |-> size])
            /\ UNCHANGED refused
       ELSE /\ refused' = refused + 1
            /\ UNCHANGED pending
  /\ UNCHANGED <<delivered, lost>>

Deliver ==
  /\ pending # <<>>
  /\ pending' = Tail(pending)
  /\ \/ delivered' = Append(delivered, Head(pending).id) /\ UNCHANGED lost
     \/ lost' = lost + 1 /\ UNCHANGED delivered
  /\ UNCHANGED <<offered, refused>>

Init ==
  /\ offered = 0 /\ refused = 0 /\ lost = 0
  /\ pending = <<>> /\ delivered = <<>>

Next == (\E size \in Sizes : Offer(size)) \/ Deliver

Spec == Init /\ [][Next]_vars
=============================================================================
