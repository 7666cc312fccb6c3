-------------------------- MODULE MCAutomationRetry --------------------------
(***************************************************************************)
(* Small instances of AutomationRetry.  Different entities meet only in    *)
(* the cron job's list, so the safety of one is checked at a time.         *)
(***************************************************************************)
EXTENDS AutomationRetry

OneEntity == Cardinality(begun) <= 1
=============================================================================
