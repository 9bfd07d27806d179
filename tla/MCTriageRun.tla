---------------------------- MODULE MCTriageRun ----------------------------
(* The cronjobs' times (a budget of 800 s, a window of 900 s, a Job deadline   *)
(* of 2100 s) in units of about 100 s; window and deadline are rounded up, for *)
(* a poll's overrun of 15 s is a whole unit here.                              *)
EXTENDS TriageRun

Answer(t, s, i) == [text |-> t, state |-> s, id |-> i]

\* Final answers, a partial one of a task still in work, failures with and
\* without a marker, a JSON-RPC error, a cancelled task without text.
MCAnswers == {
    Answer("finding", "completed", TRUE), Answer("allclear", "completed", TRUE),
    Answer("roster", "completed", TRUE), Answer("garbage", "input-required", TRUE),
    Answer("", "working", TRUE), Answer("finding", "working", TRUE),
    Answer("finding503", "failed", TRUE), Answer("garbage", "failed", TRUE),
    Answer("outage", "failed", TRUE), Answer("", "?", FALSE), Answer("", "canceled", TRUE)}
=============================================================================
