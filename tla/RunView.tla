------------------------------- MODULE RunView -------------------------------
(***************************************************************************)
(* What the window shows of the latest run, built from the run's ordered   *)
(* events (cao-gui/run_view.rs).  A label is what it names and how often   *)
(* "Cancelling - " stands before it; a detail row is its text.             *)
(***************************************************************************)
EXTENDS Naturals, Sequences, FiniteSets

CONSTANTS
  NoRun,         \* no run
  FailureRows    \* the texts a run's failures come out as

(* Only the row of a failure starts with "Failure: ".                      *)
ASSUME RowsAssumption == {"result", "evidence"} \cap FailureRows = {}

Count(rows, row) == Cardinality({i \in DOMAIN rows : rows[i] = row})

View0 ==
  [run |-> NoRun, label |-> [of |-> "none", marks |-> 0], details |-> <<>>, active |-> FALSE,
   cancelRequested |-> FALSE, closeRequested |-> FALSE, outcome |-> "none", sequence |-> 0]

Begin(run) ==
  [View0 EXCEPT !.run = run, !.label = [of |-> "preparing", marks |-> 0], !.active = TRUE]

Marked(label) == [label EXCEPT !.marks = @ + 1]

(* The rows streamed, as a multiset.                                       *)
Streamed(details) == [row \in FailureRows |-> Count(details, row)]

(* Mutant: a streamed row absorbs every copy of its text.                  *)
AbsorbEvery(listing, row) ==
  IF listing.streamed[row] > 0 THEN listing
  ELSE [listing EXCEPT !.details = Append(@, row)]

(* Each streamed row absorbs one copy of the result's failures.            *)
Absorb(listing, row) ==
  IF listing.streamed[row] > 0 THEN [listing EXCEPT !.streamed[row] = @ - 1]
  ELSE [listing EXCEPT !.details = Append(@, row)]

WithFailures(details, failures) ==
  LET after[k \in 0 .. Len(failures)] ==
        IF k = 0 THEN [streamed |-> Streamed(details), details |-> details]
        ELSE Absorb(after[k - 1], failures[k])
  IN after[Len(failures)].details

(* The flags and roots, the failures not yet listed, then the evidence of  *)
(* attempts, mutations, collisions, plans and skipped Assets.              *)
AppendResultDetails(details, failures) ==
  Append(WithFailures(Append(details, "result"), failures), "evidence")

Accepts(view, event) == event.run = view.run /\ event.sequence > view.sequence

Consume(view, event) ==
  LET next == [view EXCEPT !.sequence = event.sequence]
      named == [of |-> event.of, marks |-> IF view.cancelRequested THEN 1 ELSE 0]
  IN IF event.kind = "phase" THEN [next EXCEPT !.label = named]
     ELSE IF event.kind = "failure" THEN [next EXCEPT !.details = Append(@, event.of)]
     ELSE [next EXCEPT
             !.active = FALSE,
             !.outcome = event.of,
             !.details = AppendResultDetails(@, event.failures),
             !.label = [of |-> event.of, marks |-> 0]]

(* Mutant: a cancelled run counts as ended.                                *)
EndCancelled(view) ==
  [view EXCEPT !.active = FALSE, !.cancelRequested = TRUE, !.outcome = "cancelled"]

RequestCancellation(view) ==
  IF view.active /\ ~view.cancelRequested
    THEN [view EXCEPT !.cancelRequested = TRUE, !.label = Marked(@)] ELSE view

MayClose(view) == ~view.active

RequestClose(view) ==
  IF MayClose(view) THEN view ELSE RequestCancellation([view EXCEPT !.closeRequested = TRUE])

CanStart(view) == ~view.active /\ ~view.closeRequested

=============================================================================
