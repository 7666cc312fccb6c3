------------------------------ MODULE Reminders ------------------------------
(***************************************************************************)
(* RemindersService: the hourly sweep of every instance of the API that    *)
(* mails the team about approvals and leads that have waited too long.  It *)
(* holds an advisory lock for as long as a transaction is open, and does   *)
(* its work outside of that transaction.                                   *)
(*                                                                         *)
(* Times are kept as ages, in ticks of the clock, up to the age from which *)
(* on nothing tells them apart.  A sweep may begin at any tick.            *)
(***************************************************************************)
EXTENDS Naturals

CONSTANTS
    Instance,
    Approval, Lead,     \* rows of approvals, of leads
    StaleAfter,         \* STALE_AFTER_MS
    Interval,           \* REMINDER_INTERVAL_MS
    MaxLate,            \* bound: ticks that pass during one sweep
    MaxFault,           \* bound: crashes and lost lock connections
    Nobody,
    Never               \* the age of what has not happened

Item == Approval \cup Lead

ASSUME ReminderAssumption ==
    /\ Nobody \notin Instance /\ Never \notin Nat
    /\ Approval \cap Lead = {}
    /\ StaleAfter \in Nat \ {0} /\ Interval \in Nat \ {0}
    /\ MaxLate \in Nat /\ MaxFault \in Nat

VARIABLES
    reminderLock, \* who holds REMINDERS_LOCK_KEY
    waiting,      \* approvals that are PENDING, leads that are NEW
    age,          \* of an item, since createdAt
    reminded,     \* of its lastReminderAt, or Never
    sweep,        \* the sweep of each instance
    mailed,       \* history: of the last mail about an item, or Never
    lagged,       \* history: the ticks its sweep had taken by then
    cut,          \* history: items of sweeps that were cut short
    reminderFaults
reminderVars == <<reminderLock, waiting, age, reminded, sweep, mailed, lagged, cut,
                  reminderFaults>>

\* A sweep: what it does next, the list it is at, the ticks since it took the
\* time, the items it found due and has not marked yet.
SweepRow == [at : {"idle", "select", "mail", "mark"}, list : {"approvals", "leads"},
             late : 0 .. MaxLate, due : SUBSET Item]
IdleSweep == [at |-> "idle", list |-> "approvals", late |-> 0, due |-> {}]

RemindersTypeOK ==
    /\ reminderLock \in Instance \cup {Nobody}
    /\ waiting \subseteq {x \in Item : age[x] # Never}
    /\ age \in [Item -> (0 .. StaleAfter + MaxLate) \cup {Never}]
    /\ reminded \in [Item -> (0 .. Interval + MaxLate) \cup {Never}]
    /\ sweep \in [Instance -> SweepRow]
    /\ mailed \in [Item -> (0 .. Interval + MaxLate) \cup {Never}]
    /\ lagged \in [Item -> 0 .. MaxLate]
    /\ cut \subseteq Item
    /\ reminderFaults \in 0 .. MaxFault

RemindersInit ==
    /\ reminderLock = Nobody
    /\ waiting = {} /\ age = [x \in Item |-> Never]
    /\ reminded = [x \in Item |-> Never]
    /\ sweep = [i \in Instance |-> IdleSweep]
    /\ mailed = [x \in Item |-> Never] /\ lagged = [x \in Item |-> 0]
    /\ cut = {} /\ reminderFaults = 0
-----------------------------------------------------------------------------
\* Time passes for all of them at once.
Older(a, cap) == IF a = Never \/ a = cap THEN a ELSE a + 1

Tick ==
    /\ \A i \in Instance : sweep[i].late < MaxLate
    /\ age' = [x \in Item |-> Older(age[x], StaleAfter + MaxLate)]
    /\ reminded' = [x \in Item |-> Older(reminded[x], Interval + MaxLate)]
    /\ mailed' = [x \in Item |-> Older(mailed[x], Interval + MaxLate)]
    /\ sweep' = [i \in Instance |->
          IF sweep[i].at = "idle" THEN sweep[i] ELSE [sweep[i] EXCEPT !.late = @ + 1]]
    /\ UNCHANGED <<reminderLock, waiting, lagged, cut, reminderFaults>>

\* Items come and are dealt with, and a lead may be made NEW again.
itemVars == <<reminderLock, reminded, sweep, mailed, lagged, cut, reminderFaults>>

Create(x) == /\ age[x] = Never
             /\ age' = [age EXCEPT ![x] = 0]
             /\ waiting' = waiting \cup {x}
             /\ UNCHANGED itemVars

Reopen(x) == /\ x \in Lead \ waiting /\ age[x] # Never
             /\ waiting' = waiting \cup {x}
             /\ UNCHANGED <<age, itemVars>>

Settle(x) == /\ x \in waiting
             /\ waiting' = waiting \ {x}
             /\ UNCHANGED <<age, itemVars>>
-----------------------------------------------------------------------------
\* pg_try_advisory_xact_lock: whoever does not get it does nothing.
Free == reminderLock = Nobody

\* Mutant: a lock of the session, which nothing releases.
ReleasedNot(i) == reminderLock

\* The end of the transaction releases the lock, if it is still held.
Released(i) == IF reminderLock = i THEN Nobody ELSE reminderLock

Sweep(i) ==
    /\ sweep[i].at = "idle" /\ Free
    /\ reminderLock' = i
    /\ sweep' = [sweep EXCEPT ![i].at = "select"]
    /\ UNCHANGED <<waiting, age, reminded, mailed, lagged, cut, reminderFaults>>

(***************************************************************************)
(* shouldRemind, with the time taken when the sweep began.                 *)
(***************************************************************************)

\* Mutant: when it was last reminded is not looked at.
ShouldRemindAlways(x, late) == age[x] # Never /\ age[x] >= StaleAfter + late

ShouldRemind(x, late) ==
    /\ age[x] # Never /\ age[x] >= StaleAfter + late
    /\ reminded[x] # Never => reminded[x] >= Interval + late

\* The sweep goes from the approvals to the leads, and then ends.
Onward(i) ==
    IF sweep[i].list = "approvals"
    THEN /\ sweep' = [sweep EXCEPT ![i] = [at |-> "select", list |-> "leads",
                                           late |-> sweep[i].late, due |-> {}]]
         /\ UNCHANGED reminderLock
    ELSE /\ sweep' = [sweep EXCEPT ![i] = IdleSweep]
         /\ reminderLock' = Released(i)

Listed(i) == IF sweep[i].list = "approvals" THEN Approval ELSE Lead
DueNow(i) == {x \in waiting \cap Listed(i) : ShouldRemind(x, sweep[i].late)}

SelectDue(i) ==
    /\ sweep[i].at = "select"
    /\ IF DueNow(i) = {} THEN Onward(i)
       ELSE /\ sweep' = [sweep EXCEPT ![i].at = "mail", ![i].due = DueNow(i)]
            /\ UNCHANGED reminderLock
    /\ UNCHANGED <<waiting, age, reminded, mailed, lagged, cut, reminderFaults>>

\* Whether the mail of notifyTeam goes out: it has nobody to send it to, or
\* sending fails, and the caller is not told.
Delivered == BOOLEAN

\* One mail about all of them, at a time of its own.
NotifyTeam(i, sent) ==
    /\ sweep[i].at = "mail"
    /\ LET about == IF sent THEN sweep[i].due ELSE {} IN
       /\ mailed' = [x \in Item |-> IF x \in about THEN 0 ELSE mailed[x]]
       /\ lagged' = [x \in Item |-> IF x \in about THEN sweep[i].late ELSE lagged[x]]
    /\ sweep' = [sweep EXCEPT ![i].at = "mark"]
    /\ UNCHANGED <<reminderLock, waiting, age, reminded, cut, reminderFaults>>

\* lastReminderAt becomes the time the sweep began, which is earlier than the
\* mail, of one item after another.
MarkReminded(i, x) ==
    /\ sweep[i].at = "mark" /\ x \in sweep[i].due
    /\ reminded' = [reminded EXCEPT ![x] = sweep[i].late]
    /\ IF sweep[i].due = {x} THEN Onward(i)
       ELSE /\ sweep' = [sweep EXCEPT ![i].due = @ \ {x}]
            /\ UNCHANGED reminderLock
    /\ cut' = IF reminderLock = i /\ \A k \in Instance \ {i} : x \notin sweep[k].due
              THEN cut \ {x} ELSE cut
    /\ UNCHANGED <<waiting, age, mailed, lagged, reminderFaults>>

(***************************************************************************)
(* An instance stops, or a statement fails: its transaction ends.  Or the  *)
(* connection that holds the lock is lost, while the sweep goes on with    *)
(* others.                                                                 *)
(***************************************************************************)
Fault == reminderFaults < MaxFault /\ reminderFaults' = reminderFaults + 1

CutShort(i) ==
    /\ Fault /\ sweep[i].at # "idle"
    /\ cut' = IF sweep[i].at = "mark" THEN cut \cup sweep[i].due ELSE cut
    /\ sweep' = [sweep EXCEPT ![i] = IdleSweep]
    /\ reminderLock' = Released(i)
    /\ UNCHANGED <<waiting, age, reminded, mailed, lagged>>

LoseLock ==
    /\ Fault /\ ~Free
    /\ reminderLock' = Nobody
    /\ cut' = Item
    /\ UNCHANGED <<waiting, age, reminded, sweep, mailed, lagged>>

SweepStep(i) ==
    \/ SelectDue(i)
    \/ \E sent \in Delivered : NotifyTeam(i, sent)
    \/ \E x \in Item : MarkReminded(i, x)

RemindersNext ==
    \/ Tick
    \/ \E x \in Item : Create(x) \/ Reopen(x) \/ Settle(x)
    \/ \E i \in Instance : Sweep(i) \/ SweepStep(i) \/ CutShort(i)
    \/ LoseLock

(***************************************************************************)
(* Time passes, the cron job runs, and a sweep that began goes on.         *)
(***************************************************************************)
RemindersFairness ==
    /\ WF_reminderVars(Tick)
    /\ \A i \in Instance : WF_reminderVars(Sweep(i)) /\ WF_reminderVars(SweepStep(i))

RemindersSpec == RemindersInit /\ [][RemindersNext]_reminderVars /\ RemindersFairness
-----------------------------------------------------------------------------
(***************************************************************************)
(* Two mails about an item come from sweeps that began an interval apart,  *)
(* whatever the instances do.  The mails themselves may be closer: the     *)
(* mark says when the sweep began and not when it mailed, so that the      *)
(* earlier mail's lag is missing, and what the later one lags is added.    *)
(* Not so when the sweep that mailed stopped before it marked the item, or *)
(* lost its lock, so that two were at it and the later mark may be the one *)
(* with the earlier time.                                                  *)
(***************************************************************************)
RemindedOnce ==
    [][\A i \in Instance, x \in Item :
         NotifyTeam(i, TRUE) /\ x \in sweep[i].due /\ x \notin cut /\ mailed[x] # Never
           => mailed[x] + lagged[x] >= Interval + sweep[i].late]_reminderVars

(***************************************************************************)
(* An item that is due for a reminder does not stay due: it is reminded,   *)
(* or dealt with, though sweeps are cut short.                             *)
(***************************************************************************)
DueIsReminded ==
    \A x \in Item : (x \in waiting /\ ShouldRemind(x, 0)) ~> ~(x \in waiting /\ ShouldRemind(x, 0))
=============================================================================
