---------------------------- MODULE MCReminders ----------------------------
(* Reminders on a small instance.                                           *)
EXTENDS Reminders, TLC

CONSTANTS r1, t1, t2
MCReminderIds == {r1}
MCTools == {t1, t2}
============================================================================
