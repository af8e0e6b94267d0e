-------------------------- MODULE MCNotifications ---------------------------
(* Notifications for TLC: the scheduled pass and an open dashboard's. *)
EXTENDS Notifications

CONSTANTS cron, page, failing, stalled

Both == {cron, page}
One == {page}
Conditions == {failing, stalled}
Outage == {failing}
=============================================================================
