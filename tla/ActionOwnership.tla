---------------------------- MODULE ActionOwnership ----------------------------
(***************************************************************************)
(* ActionOwnershipTracker: which background action owns a screen, so that  *)
(* the reports of an older one are fenced off.  Ids count up; the action   *)
(* with the highest id is the active one, whatever its outcome.            *)
(***************************************************************************)
EXTENDS Naturals

NoAction == [id |-> 0, kind |-> "none", previous |-> "none", outcome |-> "none"]

BeginAction(tracker, kind, previous) ==
  [id |-> tracker.id + 1, kind |-> kind, previous |-> previous, outcome |-> "PENDING"]

IsCurrent(tracker, id, kind) == tracker.id = id /\ tracker.kind = kind

IsCurrentPending(tracker, id, kind) ==
  IsCurrent(tracker, id, kind) /\ tracker.outcome = "PENDING"

FinishAction(tracker, id, outcome) ==
  IF tracker.id = id THEN [tracker EXCEPT !.outcome = outcome] ELSE tracker

InvalidateActive(tracker) ==
  IF tracker.outcome = "PENDING" THEN [tracker EXCEPT !.outcome = "INVALIDATED"]
  ELSE tracker
=============================================================================
