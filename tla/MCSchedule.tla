----------------------------- MODULE MCSchedule ------------------------------
(* Small instances of ScheduleReconciler.                                  *)
EXTENDS ScheduleReconciler

Plain == [paused |-> FALSE, settings |-> "s1"]

PlainSpecs == {Plain}

(* Pausing and resuming.                                                   *)
PausingSpecs == {Plain, [Plain EXCEPT !.paused = TRUE]}

(* Also a change of the cron expression, to one that may not be valid.     *)
EditedSpecs == PausingSpecs \cup {[Plain EXCEPT !.settings = c] : c \in {"s2", "invalid"}}

=============================================================================
