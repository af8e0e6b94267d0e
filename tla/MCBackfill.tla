----------------------------- MODULE MCBackfill -----------------------------
(* Backfill for TLC: two invocations, a browser tab's loop and the scheduler's. *)
EXTENDS Backfill

CONSTANTS tab, cron

TwoInvocations == {tab, cron}
=============================================================================
