------------------------------- MODULE MCHourly -------------------------------
(***************************************************************************)
(* The two hourly sweeps, one at a time: they share no table and no lock.  *)
(* Fairness is for the reminders only, whose liveness is checked.          *)
(***************************************************************************)
EXTENDS Reminders, InsightsIngestion

VARIABLE focus  \* which of the two sweeps this behaviour is about

MCInit == focus \in {"reminders", "insights"} /\ RemindersInit /\ InsightsInit

MCNext ==
    /\ UNCHANGED focus
    /\ \/ focus = "reminders" /\ RemindersNext /\ UNCHANGED insightsVars
       \/ focus = "insights" /\ InsightsNext /\ UNCHANGED reminderVars

MCSpec == MCInit /\ [][MCNext]_<<focus, reminderVars, insightsVars>>
            /\ (focus = "reminders" => RemindersFairness)

HourlyTypeOK == RemindersTypeOK /\ InsightsTypeOK
===============================================================================
