----------------------------- MODULE Lifecycle -----------------------------
(***************************************************************************)
(* What the lifecycle marker promises its readers, whatever crashes: while *)
(* a run accepts events, and from then on until its events are accounted   *)
(* for, the durable record says dirty.  A run accounts for its events by   *)
(* draining them; a run that dies first leaves a debt, which only a gap    *)
(* reported by a later run settles.                                        *)
(***************************************************************************)
VARIABLES
  record,    (* "dirty", or "other": a clean, missing or doubtful record    *)
  accepting, (* a run has accepted events it has not accounted for          *)
  debt       (* an earlier run died accepting and no gap has said so        *)

vars == <<record, accepting, debt>>

Init == record = "other" /\ accepting = FALSE /\ debt = FALSE

\* The record becomes dirty, whoever wrote it.
MarkDirty ==
  /\ ~accepting
  /\ record' = "dirty"
  /\ UNCHANGED <<accepting, debt>>

Accept ==
  /\ record = "dirty"
  /\ accepting' = TRUE
  /\ UNCHANGED <<record, debt>>

Account ==
  /\ accepting' = FALSE
  /\ UNCHANGED <<record, debt>>

Die ==
  /\ accepting
  /\ accepting' = FALSE
  /\ debt' = TRUE
  /\ UNCHANGED record

Report ==
  /\ debt' = FALSE
  /\ UNCHANGED <<record, accepting>>

\* Only a run without debt that accepts nothing gives up the dirty record.
MarkOther ==
  /\ ~accepting /\ ~debt
  /\ record' = "other"
  /\ UNCHANGED <<accepting, debt>>

Next == MarkDirty \/ Accept \/ Account \/ Die \/ Report \/ MarkOther

Spec == Init /\ [][Next]_vars

-----------------------------------------------------------------------------
(* Properties.                                                              *)

TypeOK ==
  /\ record \in {"dirty", "other"}
  /\ accepting \in BOOLEAN /\ debt \in BOOLEAN

\* Unaccounted events are never hidden behind a record that is not dirty.
DirtyWhileUnaccounted == accepting \/ debt => record = "dirty"
=============================================================================
