---------------------------- MODULE ApplicationLog ----------------------------
(***************************************************************************)
(* The Application Log's sink and the feed of the Log tab                  *)
(* (cao-optimizers/application_log.rs, cao-gui/log_tab.rs).  The sink's    *)
(* state lock covers one operator below; the feed's queue has a lock of    *)
(* its own, which draining takes alone.  The file itself is left out: a    *)
(* write that fails is swallowed and the row still reaches the tab.        *)
(***************************************************************************)
EXTENDS Naturals, Sequences, SequencesExt

CONSTANT MaxFeedRows      \* MAX_FEED_ROWS

ASSUME FeedAssumption == MaxFeedRows \in Nat \ {0}

Opened(path, debug) ==
  [path |-> path, debug |-> debug, history |-> <<>>,
   attached |-> FALSE, reset |-> FALSE, lines |-> <<>>]

Idle(log) == ~log.reset /\ log.lines = <<>>

(* Whether the change made to the queue of log is the one that wakes.      *)
Wakes(log) == log.attached /\ Idle(log)

Subscribe(log) == [log EXCEPT !.attached = TRUE, !.reset = TRUE, !.lines = log.history]

PushCapped(rows, line) ==
  Append(IF Len(rows) = MaxFeedRows THEN Tail(rows) ELSE rows, line)

(* Mutant: the new session keeps the rows that wait for the tab.           *)
RedirectKeepingRows(log, path, debug) ==
  IF path = log.path THEN [log EXCEPT !.debug = debug]
  ELSE [log EXCEPT !.path = path, !.debug = debug, !.history = <<>>, !.reset = log.attached]

(* A new path starts a new session; the same path only takes the level.    *)
Redirect(log, path, debug) ==
  IF path = log.path THEN [log EXCEPT !.debug = debug]
  ELSE [log EXCEPT !.path = path, !.debug = debug, !.history = <<>>,
                   !.reset = log.attached, !.lines = <<>>]

RedirectWakes(log, path) == path # log.path /\ Wakes(log)

Enabled(log, verbose) == verbose => log.debug

Log(log, line) ==
  [log EXCEPT !.history = PushCapped(@, line),
              !.lines = IF log.attached THEN PushCapped(@, line) ELSE @]

Drained(log) == [log EXCEPT !.reset = FALSE, !.lines = <<>>]

(***************************************************************************)
(* The Log tab: the log's rows, then the run's details.                    *)
(***************************************************************************)
DetailRow(text) == [kind |-> "detail", of |-> text]
LogRow(line) == [kind |-> "log", of |-> line]

TrailingDetails(rows) ==
  Len(rows) - SelectLastInSeq(rows, LAMBDA row : row.kind = "log")

Logged(rows) == SubSeq(rows, 1, Len(rows) - TrailingDetails(rows))

ShowDetails(rows, details) ==
  LET trailing == TrailingDetails(rows)
      detailRows == [i \in 1 .. Len(details) |-> DetailRow(details[i])]
  IN IF trailing > Len(details) THEN Logged(rows) \o detailRows
     ELSE rows \o SubSeq(detailRows, trailing + 1, Len(details))

Newest(rows) ==
  SubSeq(rows, IF Len(rows) > MaxFeedRows THEN Len(rows) - MaxFeedRows + 1 ELSE 1, Len(rows))

(* One drain: the new log rows go after the log's, before the details.     *)
Apply(rows, log) ==
  LET details == SubSeq(rows, Len(rows) - TrailingDetails(rows) + 1, Len(rows))
      new == [i \in 1 .. Len(log.lines) |-> LogRow(log.lines[i])]
  IN Newest((IF log.reset THEN <<>> ELSE Logged(rows)) \o new) \o details

=============================================================================
