---------------------------- MODULE MCSlaClock ----------------------------
(* SlaClock over a week that starts on a Friday. *)
EXTENDS SlaClock

CONSTANT Days

\* Of each day: the start of the UTC day, the last half hour of the Indian day and
\* the start of the next one. The first day is a Friday.
MCInstants ==
  {d * DAY + h : d \in 1..Days, h \in {0, DAY - IST_OFFSET - 1, DAY - IST_OFFSET}}

\* Filings on Friday, Saturday and Sunday.
MCLastFiling == 3 * DAY

===========================================================================
