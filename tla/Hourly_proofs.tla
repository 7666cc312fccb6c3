---------------------------- MODULE Hourly_proofs ----------------------------
(***************************************************************************)
(* Theorems about the two hourly sweeps, for any instances, items, leads,  *)
(* times and bounds.  Reminders: its types, and that two mails about an    *)
(* item come from sweeps that began an interval apart.  InsightsIngestion: *)
(* its types, with the exclusion of the sweeps, and that the ingestion     *)
(* adds a row for an item once in an interval.  Last, what the two make    *)
(* together.                                                               *)
(***************************************************************************)
EXTENDS MCHourly, TLAPS

\* What the provers need to know of the times.
LEMMA Times == /\ StaleAfter \in Nat /\ Interval \in Nat /\ Interval > 0
               /\ MaxLate \in Nat /\ Never \notin Nat /\ Nobody \notin Instance
BY ReminderAssumption

\* The parts of a sweep.
LEMMA SweepParts ==
    ASSUME RemindersTypeOK, NEW i \in Instance
    PROVE  /\ sweep[i].at \in {"idle", "select", "mail", "mark"}
           /\ sweep[i].list \in {"approvals", "leads"}
           /\ sweep[i].late \in 0 .. MaxLate /\ sweep[i].late \in Nat
           /\ sweep[i].due \in SUBSET Item
BY Times DEF RemindersTypeOK, SweepRow

LEMMA IdleIsRow == /\ IdleSweep \in SweepRow /\ IdleSweep.at = "idle"
                   /\ IdleSweep.late = 0 /\ IdleSweep.due = {}
BY Times DEF IdleSweep, SweepRow

\* A sweep that goes from one list to the next, or ends.
LEMMA OnwardParts ==
    ASSUME RemindersTypeOK, NEW i \in Instance, Onward(i)
    PROVE  /\ sweep' \in [Instance -> SweepRow] /\ reminderLock' \in Instance \cup {Nobody}
           /\ \A k \in Instance \ {i} : sweep'[k] = sweep[k]
           /\ \/ /\ sweep'[i].at = "select" /\ sweep'[i].late = sweep[i].late
                 /\ sweep'[i].due = {} /\ reminderLock' = reminderLock
              \/ /\ sweep'[i] = IdleSweep
                 /\ reminderLock' = IF reminderLock = i THEN Nobody ELSE reminderLock
<1> DEFINE row == [at |-> "select", list |-> "leads", late |-> sweep[i].late, due |-> {}]
<1>1. row \in SweepRow /\ row.at = "select" /\ row.late = sweep[i].late /\ row.due = {}
  BY SweepParts DEF SweepRow
<1>2. sweep \in [Instance -> SweepRow] /\ reminderLock \in Instance \cup {Nobody}
  BY DEF RemindersTypeOK
<1>3. CASE sweep[i].list = "approvals"
  <2>1. sweep' = [sweep EXCEPT ![i] = row] /\ reminderLock' = reminderLock
    BY <1>3 DEF Onward
  <2> HIDE DEF row
  <2> QED BY <1>1, <1>2, <2>1
<1>4. CASE sweep[i].list # "approvals"
  <2>1. /\ sweep' = [sweep EXCEPT ![i] = IdleSweep]
        /\ reminderLock' = IF reminderLock = i THEN Nobody ELSE reminderLock
    BY <1>4 DEF Onward, Released
  <2> QED BY <1>2, <2>1, IdleIsRow
<1> QED BY <1>3, <1>4
-----------------------------------------------------------------------------
(***************************************************************************)
(* Types.                                                                  *)
(***************************************************************************)
LEMMA RemindersInitOK == RemindersInit => RemindersTypeOK
<1> SUFFICES ASSUME RemindersInit PROVE RemindersTypeOK
  OBVIOUS
<1>1. sweep \in [Instance -> SweepRow]
  BY IdleIsRow DEF RemindersInit
<1>2. /\ age \in [Item -> (0 .. StaleAfter + MaxLate) \cup {Never}]
      /\ reminded \in [Item -> (0 .. Interval + MaxLate) \cup {Never}]
      /\ mailed \in [Item -> (0 .. Interval + MaxLate) \cup {Never}]
      /\ lagged \in [Item -> 0 .. MaxLate]
      /\ waiting = {} /\ cut = {} /\ reminderLock = Nobody
  BY Times DEF RemindersInit
<1>3. reminderFaults \in 0 .. MaxFault
  BY ReminderAssumption DEF RemindersInit
<1> QED BY <1>1, <1>2, <1>3 DEF RemindersTypeOK

\* Time passes: an age goes up, until nothing tells it from a later one.
LEMMA OlderIs ==
    ASSUME NEW cap \in Nat, NEW a \in (0 .. cap) \cup {Never}
    PROVE  /\ Older(a, cap) \in (0 .. cap) \cup {Never}
           /\ Older(a, cap) = Never <=> a = Never
           /\ a # Never => \/ a = cap /\ Older(a, cap) = cap
                           \/ Older(a, cap) = a + 1
BY Times DEF Older

LEMMA TickParts ==
    ASSUME RemindersTypeOK, Tick
    PROVE  /\ RemindersTypeOK'
           /\ \A i \in Instance : /\ sweep'[i].at = sweep[i].at /\ sweep'[i].due = sweep[i].due
                                  /\ sweep[i].at = "idle" => sweep'[i] = sweep[i]
                                  /\ sweep[i].at # "idle" => sweep'[i].late = sweep[i].late + 1
<1>1. /\ age \in [Item -> (0 .. StaleAfter + MaxLate) \cup {Never}]
      /\ reminded \in [Item -> (0 .. Interval + MaxLate) \cup {Never}]
      /\ mailed \in [Item -> (0 .. Interval + MaxLate) \cup {Never}]
      /\ StaleAfter + MaxLate \in Nat /\ Interval + MaxLate \in Nat
      /\ waiting \subseteq {x \in Item : age[x] # Never}
      /\ sweep \in [Instance -> SweepRow]
  BY Times DEF RemindersTypeOK
<1>2. /\ age' \in [Item -> (0 .. StaleAfter + MaxLate) \cup {Never}]
      /\ reminded' \in [Item -> (0 .. Interval + MaxLate) \cup {Never}]
      /\ mailed' \in [Item -> (0 .. Interval + MaxLate) \cup {Never}]
      /\ \A x \in Item : age[x] # Never => age'[x] # Never
  <2>1. \A x \in Item :
           /\ Older(age[x], StaleAfter + MaxLate) \in (0 .. StaleAfter + MaxLate) \cup {Never}
           /\ Older(age[x], StaleAfter + MaxLate) = Never => age[x] = Never
           /\ Older(reminded[x], Interval + MaxLate) \in (0 .. Interval + MaxLate) \cup {Never}
           /\ Older(mailed[x], Interval + MaxLate) \in (0 .. Interval + MaxLate) \cup {Never}
    BY <1>1, OlderIs
  <2> QED BY <2>1 DEF Tick
<1>3. ASSUME NEW i \in Instance
      PROVE  /\ sweep'[i] \in SweepRow
             /\ sweep'[i].at = sweep[i].at /\ sweep'[i].due = sweep[i].due
             /\ sweep[i].at = "idle" => sweep'[i] = sweep[i]
             /\ sweep[i].at # "idle" => sweep'[i].late = sweep[i].late + 1
  <2> DEFINE n == sweep[i].late + 1
  <2>1. n \in 0 .. MaxLate
    BY SweepParts, Times DEF Tick
  <2>2. sweep[i] \in SweepRow
    BY <1>1
  <2>3. sweep'[i] = IF sweep[i].at = "idle" THEN sweep[i] ELSE [sweep[i] EXCEPT !.late = n]
    BY DEF Tick
  <2>4. n = sweep[i].late + 1
    OBVIOUS
  <2> HIDE DEF n
  <2> QED BY <2>1, <2>2, <2>3, <2>4 DEF SweepRow
<1>4. sweep' \in [Instance -> SweepRow]
  BY <1>3 DEF Tick
<1> QED BY <1>1, <1>2, <1>3, <1>4 DEF Tick, RemindersTypeOK

\* The items change, and nothing that a sweep knows does.
LEMMA ItemsParts ==
    ASSUME RemindersTypeOK, NEW x \in Item, Create(x) \/ Reopen(x) \/ Settle(x)
    PROVE  RemindersTypeOK' /\ UNCHANGED <<reminderLock, reminded, sweep, mailed, lagged, cut>>
<1>1. 0 \in 0 .. StaleAfter + MaxLate
  BY Times
<1>2. UNCHANGED itemVars
  BY DEF Create, Reopen, Settle
<1>3. age' \in [Item -> (0 .. StaleAfter + MaxLate) \cup {Never}]
  BY <1>1 DEF Create, Reopen, Settle, RemindersTypeOK
<1>4. waiting' \subseteq {y \in Item : age'[y] # Never}
  <2>1. /\ age \in [Item -> (0 .. StaleAfter + MaxLate) \cup {Never}]
        /\ waiting \subseteq {y \in Item : age[y] # Never} /\ 0 # Never
    BY Times DEF RemindersTypeOK
  <2>2. CASE Create(x)
    BY <2>1, <2>2 DEF Create
  <2>3. CASE Reopen(x) \/ Settle(x)
    BY <2>1, <2>3 DEF Reopen, Settle
  <2> QED BY <2>2, <2>3
<1> QED BY <1>2, <1>3, <1>4 DEF itemVars, RemindersTypeOK

\* A sweep begins with the lock.
LEMMA SweepBegins ==
    ASSUME RemindersTypeOK, NEW i \in Instance, Sweep(i)
    PROVE  /\ RemindersTypeOK'
           /\ sweep'[i].at = "select" /\ sweep'[i].late = sweep[i].late
           /\ sweep'[i].due = sweep[i].due
           /\ \A k \in Instance \ {i} : sweep'[k] = sweep[k]
<1>1. sweep \in [Instance -> SweepRow]
  BY DEF RemindersTypeOK
<1> DEFINE row == [sweep[i] EXCEPT !.at = "select"]
<1>2. /\ row \in SweepRow /\ row.at = "select"
      /\ row.late = sweep[i].late /\ row.due = sweep[i].due
  BY <1>1 DEF SweepRow
<1>3. sweep' = [sweep EXCEPT ![i] = row]
  BY DEF Sweep
<1> HIDE DEF row
<1>4. /\ sweep' \in [Instance -> SweepRow] /\ sweep'[i] = row
      /\ \A k \in Instance \ {i} : sweep'[k] = sweep[k]
  BY <1>1, <1>2, <1>3
<1> QED BY <1>2, <1>4 DEF Sweep, RemindersTypeOK

\* A sweep selects what is due, or goes on.
LEMMA SelectParts ==
    ASSUME RemindersTypeOK, NEW i \in Instance, SelectDue(i)
    PROVE  /\ RemindersTypeOK'
           /\ \A k \in Instance \ {i} : sweep'[k] = sweep[k]
           /\ UNCHANGED <<waiting, age, reminded, mailed, lagged, cut, reminderFaults>>
           /\ \/ /\ sweep'[i].at = "mail" /\ sweep'[i].due = DueNow(i)
                 /\ sweep'[i].late = sweep[i].late /\ reminderLock' = reminderLock
              \/ Onward(i)
<1>1. sweep \in [Instance -> SweepRow] /\ DueNow(i) \in SUBSET Item
  BY DEF RemindersTypeOK, DueNow, Listed, Item
<1>2. CASE Onward(i)
  <2>1. UNCHANGED <<waiting, age, reminded, mailed, lagged, cut, reminderFaults>>
    BY DEF SelectDue
  <2> QED BY <1>2, <2>1, OnwardParts DEF RemindersTypeOK
<1>3. CASE ~Onward(i)
  <2> DEFINE d == DueNow(i)
             row == [sweep[i] EXCEPT !.at = "mail", !.due = d]
  <2>1. sweep' = [sweep EXCEPT ![i] = row] /\ reminderLock' = reminderLock
    BY <1>3 DEF SelectDue
  <2>2. row \in SweepRow /\ row.at = "mail" /\ row.due = d /\ row.late = sweep[i].late
    <3> HIDE DEF d
    <3>1. d \in SUBSET Item /\ sweep[i] \in SweepRow
      BY <1>1 DEF d
    <3> QED BY <3>1 DEF SweepRow
  <2> HIDE DEF row
  <2>3. /\ sweep' \in [Instance -> SweepRow] /\ sweep'[i] = row
        /\ \A k \in Instance \ {i} : sweep'[k] = sweep[k]
    BY <1>1, <2>1, <2>2
  <2>4. UNCHANGED <<waiting, age, reminded, mailed, lagged, cut, reminderFaults>>
    BY DEF SelectDue
  <2> QED BY <2>1, <2>2, <2>3, <2>4 DEF RemindersTypeOK
<1> QED BY <1>2, <1>3

\* The mail goes out, or not.
LEMMA MailParts ==
    ASSUME RemindersTypeOK, NEW i \in Instance, NEW sent \in Delivered, NotifyTeam(i, sent)
    PROVE  /\ RemindersTypeOK'
           /\ \A k \in Instance \ {i} : sweep'[k] = sweep[k]
           /\ sweep'[i].at = "mark" /\ sweep'[i].due = sweep[i].due
           /\ sweep'[i].late = sweep[i].late /\ sweep[i].at = "mail"
           /\ \A x \in Item : \/ mailed'[x] = mailed[x] /\ lagged'[x] = lagged[x]
                              \/ /\ x \in sweep[i].due
                                 /\ mailed'[x] = 0 /\ lagged'[x] = sweep[i].late
           /\ \A x \in Item \ sweep[i].due :
                 mailed'[x] = mailed[x] /\ lagged'[x] = lagged[x]
           /\ UNCHANGED <<reminderLock, waiting, age, reminded, cut, reminderFaults>>
<1>1. sweep \in [Instance -> SweepRow]
  BY DEF RemindersTypeOK
<1> DEFINE row == [sweep[i] EXCEPT !.at = "mark"]
<1>2. /\ row \in SweepRow /\ row.at = "mark"
      /\ row.late = sweep[i].late /\ row.due = sweep[i].due
  BY <1>1 DEF SweepRow
<1>3. sweep' = [sweep EXCEPT ![i] = row]
  BY DEF NotifyTeam
<1> HIDE DEF row
<1>4. /\ sweep' \in [Instance -> SweepRow] /\ sweep'[i] = row
      /\ \A k \in Instance \ {i} : sweep'[k] = sweep[k]
  BY <1>1, <1>2, <1>3
<1>5. 0 \in 0 .. Interval + MaxLate /\ sweep[i].late \in 0 .. MaxLate
  BY SweepParts, Times
<1>6. /\ mailed' \in [Item -> (0 .. Interval + MaxLate) \cup {Never}]
      /\ lagged' \in [Item -> 0 .. MaxLate]
      /\ \A x \in Item : \/ mailed'[x] = mailed[x] /\ lagged'[x] = lagged[x]
                         \/ /\ x \in sweep[i].due
                            /\ mailed'[x] = 0 /\ lagged'[x] = sweep[i].late
      /\ \A x \in Item \ sweep[i].due :
            mailed'[x] = mailed[x] /\ lagged'[x] = lagged[x]
  BY <1>5 DEF NotifyTeam, RemindersTypeOK
<1>7. /\ UNCHANGED <<reminderLock, waiting, age, reminded, cut, reminderFaults>>
      /\ sweep[i].at = "mail"
  BY DEF NotifyTeam
<1> QED BY <1>2, <1>4, <1>6, <1>7 DEF RemindersTypeOK

\* One item is marked, and the sweep goes on.
LEMMA MarkParts ==
    ASSUME RemindersTypeOK, NEW i \in Instance, NEW x \in Item, MarkReminded(i, x)
    PROVE  /\ RemindersTypeOK'
           /\ \A k \in Instance \ {i} : sweep'[k] = sweep[k]
           /\ sweep[i].at = "mark" /\ x \in sweep[i].due
           /\ reminded'[x] = sweep[i].late
           /\ \A y \in Item \ {x} : reminded'[y] = reminded[y]
           /\ cut' = IF reminderLock = i /\ \A k \in Instance \ {i} : x \notin sweep[k].due
                     THEN cut \ {x} ELSE cut
           /\ UNCHANGED <<waiting, age, mailed, lagged, reminderFaults>>
           /\ \/ /\ sweep'[i].at = "mark" /\ sweep'[i].due = sweep[i].due \ {x}
                 /\ sweep'[i].late = sweep[i].late /\ reminderLock' = reminderLock
              \/ sweep[i].due = {x} /\ Onward(i)
<1>1. sweep \in [Instance -> SweepRow]
  BY DEF RemindersTypeOK
<1>2. sweep[i].late \in 0 .. Interval + MaxLate
  BY SweepParts, Times
<1>3. /\ reminded' \in [Item -> (0 .. Interval + MaxLate) \cup {Never}]
      /\ reminded'[x] = sweep[i].late
      /\ \A y \in Item \ {x} : reminded'[y] = reminded[y]
  BY <1>2 DEF MarkReminded, RemindersTypeOK
<1>4. /\ cut' = IF reminderLock = i /\ \A k \in Instance \ {i} : x \notin sweep[k].due
                THEN cut \ {x} ELSE cut
      /\ UNCHANGED <<waiting, age, mailed, lagged, reminderFaults>>
      /\ sweep[i].at = "mark" /\ x \in sweep[i].due
  BY DEF MarkReminded
<1>5. cut' \subseteq Item
  BY <1>4 DEF RemindersTypeOK
<1>6. /\ sweep' \in [Instance -> SweepRow] /\ reminderLock' \in Instance \cup {Nobody}
      /\ \A k \in Instance \ {i} : sweep'[k] = sweep[k]
      /\ \/ /\ sweep'[i].at = "mark" /\ sweep'[i].due = sweep[i].due \ {x}
            /\ sweep'[i].late = sweep[i].late /\ reminderLock' = reminderLock
         \/ sweep[i].due = {x} /\ Onward(i)
  <2>1. CASE sweep[i].due = {x}
    <3>1. Onward(i)
      BY <2>1 DEF MarkReminded
    <3> QED BY <2>1, <3>1, OnwardParts
  <2>2. CASE sweep[i].due # {x}
    <3> DEFINE d == sweep[i].due \ {x}
               row == [sweep[i] EXCEPT !.due = d]
    <3>1. sweep' = [sweep EXCEPT ![i] = row] /\ reminderLock' = reminderLock
      BY <2>2 DEF MarkReminded
    <3>2. row \in SweepRow /\ row.at = sweep[i].at /\ row.due = d /\ row.late = sweep[i].late
      <4>1. d \in SUBSET Item /\ sweep[i] \in SweepRow
        BY <1>1, SweepParts
      <4> HIDE DEF d
      <4> QED BY <4>1 DEF SweepRow
    <3> HIDE DEF row
    <3> QED BY <1>1, <1>4, <3>1, <3>2 DEF RemindersTypeOK
  <2> QED BY <2>1, <2>2
<1> QED BY <1>3, <1>4, <1>5, <1>6 DEF RemindersTypeOK

\* A sweep ends before its time, or its lock is lost.
LEMMA FaultParts ==
    ASSUME RemindersTypeOK, LoseLock \/ \E i \in Instance : CutShort(i)
    PROVE  RemindersTypeOK'
<1>1. reminderFaults' \in 0 .. MaxFault
  BY ReminderAssumption DEF LoseLock, CutShort, Fault, RemindersTypeOK
<1>2. CASE LoseLock
  BY <1>1, <1>2 DEF LoseLock, RemindersTypeOK
<1>3. ASSUME NEW i \in Instance, CutShort(i) PROVE RemindersTypeOK'
  <2>1. sweep' \in [Instance -> SweepRow]
    BY <1>3, IdleIsRow DEF CutShort, RemindersTypeOK
  <2>2. cut' \subseteq Item
    BY <1>3, SweepParts DEF CutShort, RemindersTypeOK
  <2> QED BY <1>1, <1>3, <2>1, <2>2 DEF CutShort, Released, RemindersTypeOK
<1> QED BY <1>2, <1>3

LEMMA RemindersNextOK == RemindersTypeOK /\ [RemindersNext]_reminderVars => RemindersTypeOK'
<1> SUFFICES ASSUME RemindersTypeOK, [RemindersNext]_reminderVars PROVE RemindersTypeOK'
  OBVIOUS
<1>1. CASE UNCHANGED reminderVars
  BY <1>1 DEF reminderVars, RemindersTypeOK
<1> QED BY <1>1, TickParts, ItemsParts, SweepBegins, SelectParts, MailParts, MarkParts, FaultParts
        DEF RemindersNext, SweepStep

(***************************************************************************)
(* The rows, the sweeps and the times have their types, however many       *)
(* instances run and stop.                                                 *)
(***************************************************************************)
THEOREM RemindersTypeCorrect == RemindersSpec => []RemindersTypeOK
BY RemindersInitOK, RemindersNextOK, PTL DEF RemindersSpec
-----------------------------------------------------------------------------
(***************************************************************************)
(* Once in an interval.  The mail about an item is mailed[x] old, and the  *)
(* sweep that sent it began mailed[x] + lagged[x] ago.  RemindedOnce needs *)
(* that this is an interval before the sweep that has the item in hand     *)
(* began (DueIsOld), which it was when the item was selected, as its mark  *)
(* is no older than the sweep that last mailed about it (MarkedAfterMail), *)
(* except while that sweep has the mark still to make.  A sweep that       *)
(* lost its lock has only excepted items in hand: any other one was        *)
(* marked, since, by a sweep that began later (StrayedIsBehind).           *)
(***************************************************************************)
Began ==
    \A i \in Instance : /\ sweep[i].at = "idle" => sweep[i] = IdleSweep
                        /\ sweep[i].at = "select" => sweep[i].due = {}

HolderIsLatest ==
    \A i \in Instance : sweep[i].at # "idle" /\ reminderLock \in Instance =>
                           sweep[reminderLock].late <= sweep[i].late

MailedBefore ==
    \A x \in Item : reminderLock \in Instance /\ mailed[x] # Never =>
                       sweep[reminderLock].late <= mailed[x] + lagged[x]

StrayedIsBehind ==
    \A i \in Instance : sweep[i].at # "idle" /\ reminderLock # i =>
       \A x \in Item \ cut : /\ x \notin sweep[i].due
                             /\ reminded[x] # Never /\ reminded[x] <= sweep[i].late

MarkedAfterMail ==
    \A x \in Item \ cut : mailed[x] # Never =>
       \/ reminded[x] # Never /\ reminded[x] <= mailed[x] + lagged[x]
       \/ \E i \in Instance : sweep[i].at = "mark" /\ x \in sweep[i].due

DueIsOld ==
    \A i \in Instance : sweep[i].at = "mail" =>
       \A x \in sweep[i].due \ cut :
          mailed[x] # Never => mailed[x] + lagged[x] >= Interval + sweep[i].late

RemindInv == /\ RemindersTypeOK
             /\ Began /\ HolderIsLatest /\ MailedBefore
             /\ StrayedIsBehind /\ MarkedAfterMail /\ DueIsOld

LEMMA RemindInit == RemindersInit => RemindInv
BY RemindersInitOK, IdleIsRow
   DEF RemindersInit, RemindInv, Began, HolderIsLatest, MailedBefore, StrayedIsBehind,
       MarkedAfterMail, DueIsOld

\* The times that are compared.
LEMMA Compared ==
    ASSUME RemindersTypeOK
    PROVE  /\ \A x \in Item : /\ mailed[x] # Never => mailed[x] \in Nat /\ mailed[x] <= Interval + MaxLate
                              /\ lagged[x] \in Nat
                              /\ reminded[x] # Never =>
                                    reminded[x] \in Nat /\ reminded[x] <= Interval + MaxLate
           /\ cut \subseteq Item
BY Times DEF RemindersTypeOK

\* They grow together; the bound on the age is out of reach of a sweep.
LEMMA TickReminds == ASSUME RemindInv, Tick PROVE RemindInv'
<1>1. RemindersTypeOK /\ RemindersTypeOK'
  BY TickParts DEF RemindInv
<1>2. /\ \A i \in Instance : /\ sweep'[i].at = sweep[i].at /\ sweep'[i].due = sweep[i].due
                             /\ sweep[i].at = "idle" => sweep'[i] = sweep[i]
                             /\ sweep[i].at # "idle" => sweep'[i].late = sweep[i].late + 1
      /\ UNCHANGED <<reminderLock, cut, lagged>>
  BY TickParts DEF RemindInv, Tick
<1>3. \A i \in Instance : /\ sweep[i].late \in Nat /\ sweep'[i].late \in Nat
                          /\ sweep'[i].late <= MaxLate
                          /\ sweep'[i].late <= sweep[i].late + 1
  BY <1>1, <1>2, SweepParts, Times DEF RemindersTypeOK, SweepRow
<1>4. ASSUME NEW x \in Item
      PROVE  /\ mailed'[x] = Never <=> mailed[x] = Never
             /\ reminded'[x] = Never <=> reminded[x] = Never
             /\ mailed[x] # Never => \/ mailed[x] = Interval + MaxLate /\ mailed'[x] = mailed[x]
                                     \/ mailed'[x] = mailed[x] + 1
             /\ reminded[x] # Never =>
                   \/ reminded[x] = Interval + MaxLate /\ reminded'[x] = reminded[x]
                   \/ reminded'[x] = reminded[x] + 1
  <2>1. /\ mailed[x] \in (0 .. Interval + MaxLate) \cup {Never}
        /\ reminded[x] \in (0 .. Interval + MaxLate) \cup {Never}
        /\ Interval + MaxLate \in Nat
    BY <1>1, Times DEF RemindersTypeOK
  <2>2. /\ mailed'[x] = Older(mailed[x], Interval + MaxLate)
        /\ reminded'[x] = Older(reminded[x], Interval + MaxLate)
    BY DEF Tick
  <2> QED BY <2>1, <2>2, OlderIs
<1>5. Began'
  BY <1>2 DEF RemindInv, Began
<1>6. HolderIsLatest'
  BY <1>2, <1>3 DEF RemindInv, HolderIsLatest
<1>7. MailedBefore'
  BY <1>1, <1>2, <1>3, <1>4, Compared, Times DEF RemindInv, MailedBefore
<1>8. StrayedIsBehind'
  BY <1>1, <1>2, <1>3, <1>4, Compared, Times DEF RemindInv, StrayedIsBehind
<1>9. MarkedAfterMail'
  <2> SUFFICES ASSUME NEW x \in Item \ cut, mailed[x] # Never
               PROVE  \/ reminded'[x] # Never /\ reminded'[x] <= mailed'[x] + lagged'[x]
                      \/ \E i \in Instance : sweep'[i].at = "mark" /\ x \in sweep'[i].due
    BY <1>2, <1>4 DEF MarkedAfterMail
  <2>1. CASE reminded[x] # Never /\ reminded[x] <= mailed[x] + lagged[x]
    <3>1. /\ mailed[x] \in Nat /\ mailed[x] <= Interval + MaxLate
          /\ reminded[x] \in Nat /\ reminded[x] <= Interval + MaxLate
          /\ Interval + MaxLate \in Nat /\ lagged[x] \in Nat /\ lagged' = lagged
      BY <1>1, <1>2, <2>1, Compared, Times
    <3>2. \/ mailed[x] = Interval + MaxLate /\ mailed'[x] = mailed[x]
          \/ mailed'[x] = mailed[x] + 1
      BY <1>4
    <3>3. \/ reminded[x] = Interval + MaxLate /\ reminded'[x] = reminded[x]
          \/ reminded'[x] = reminded[x] + 1
      BY <1>4, <2>1
    <3>4. reminded'[x] # Never
      BY <1>4, <2>1
    <3>5. reminded'[x] <= Interval + MaxLate
      BY <1>1, <3>4, Times DEF RemindersTypeOK
    <3>6. reminded'[x] <= mailed'[x] + lagged'[x]
      BY <2>1, <3>1, <3>2, <3>3, <3>5
    <3> QED BY <3>4, <3>6
  <2>2. CASE \E i \in Instance : sweep[i].at = "mark" /\ x \in sweep[i].due
    BY <1>2, <2>2
  <2> QED BY <2>1, <2>2 DEF RemindInv, MarkedAfterMail
<1>10. DueIsOld'
  <2> SUFFICES ASSUME NEW i \in Instance, sweep[i].at = "mail",
                      NEW x \in sweep[i].due \ cut, mailed[x] # Never
               PROVE  mailed'[x] + lagged'[x] >= Interval + sweep'[i].late
    BY <1>1, <1>2, <1>4, SweepParts DEF DueIsOld
  <2>1. x \in Item /\ mailed[x] + lagged[x] >= Interval + sweep[i].late
    BY <1>1, SweepParts DEF RemindInv, DueIsOld
  <2> QED BY <1>1, <1>2, <1>3, <1>4, <2>1, Compared, Times
<1> QED BY <1>1, <1>5, <1>6, <1>7, <1>8, <1>9, <1>10 DEF RemindInv

LEMMA ItemsRemind ==
    ASSUME RemindInv, NEW x \in Item, Create(x) \/ Reopen(x) \/ Settle(x)
    PROVE  RemindInv'
BY ItemsParts DEF RemindInv, Began, HolderIsLatest, MailedBefore, StrayedIsBehind,
                  MarkedAfterMail, DueIsOld

\* A sweep that begins has lasted no time, and nobody else had the lock.
LEMMA SweepReminds ==
    ASSUME RemindInv, NEW i \in Instance, Sweep(i)
    PROVE  RemindInv'
<1>1. RemindersTypeOK /\ RemindersTypeOK'
  BY SweepBegins DEF RemindInv
<1>2. /\ sweep'[i].at = "select" /\ sweep'[i].late = 0 /\ sweep'[i].due = {}
      /\ \A k \in Instance \ {i} : sweep'[k] = sweep[k]
      /\ reminderLock = Nobody /\ reminderLock' = i /\ sweep[i].at = "idle"
      /\ UNCHANGED <<reminded, mailed, lagged, cut>>
  BY SweepBegins, IdleIsRow DEF RemindInv, Began, Sweep, Free
<1>3. \A k \in Instance : sweep[k].late \in Nat
  BY <1>1, SweepParts
<1>4. Began' /\ HolderIsLatest' /\ DueIsOld'
  BY <1>2, <1>3 DEF RemindInv, Began, HolderIsLatest, DueIsOld
<1>5. MailedBefore'
  BY <1>1, <1>2, Compared DEF RemindInv, MailedBefore
<1>6. StrayedIsBehind'
  BY <1>2, Times DEF RemindInv, StrayedIsBehind
<1>7. MarkedAfterMail'
  BY <1>2 DEF RemindInv, MarkedAfterMail
<1> QED BY <1>1, <1>4, <1>5, <1>6, <1>7 DEF RemindInv

\* The end of a sweep, or of its first list, changes no row and no item in
\* hand of another.
LEMMA OnwardReminds ==
    ASSUME RemindInv, NEW i \in Instance, sweep[i].at # "idle", Onward(i)
    PROVE  /\ Began' /\ HolderIsLatest'
           /\ UNCHANGED <<mailed, lagged>> => MailedBefore'
           /\ UNCHANGED <<mailed, lagged, cut>> => DueIsOld'
           /\ reminded' = reminded /\ cut' = cut => StrayedIsBehind'
<1>1. RemindersTypeOK
  BY DEF RemindInv
<1>2. /\ \A k \in Instance \ {i} : sweep'[k] = sweep[k]
      /\ \/ /\ sweep'[i].at = "select" /\ sweep'[i].late = sweep[i].late
            /\ sweep'[i].due = {} /\ reminderLock' = reminderLock
         \/ /\ sweep'[i] = IdleSweep
            /\ reminderLock' = IF reminderLock = i THEN Nobody ELSE reminderLock
  BY <1>1, OnwardParts
<1>3. Began'
  BY <1>2, IdleIsRow DEF RemindInv, Began
<1>4. \A k \in Instance : sweep'[k].at # "idle" /\ sweep[k].at # "idle" =>
                              sweep'[k].late = sweep[k].late
  BY <1>2, IdleIsRow
<1>5. \A k \in Instance : /\ sweep'[k].at # "idle" => sweep[k].at # "idle" \/ k = i
                          /\ sweep'[k].at = "mail" => k # i /\ sweep'[k] = sweep[k]
  BY <1>2, IdleIsRow
<1>6. reminderLock' \in Instance =>
         /\ reminderLock' = reminderLock
         /\ sweep'[reminderLock].late = sweep[reminderLock].late
  BY <1>2, Times
<1>7. HolderIsLatest'
  BY <1>4, <1>5, <1>6 DEF RemindInv, HolderIsLatest
<1>8. ASSUME UNCHANGED <<mailed, lagged>> PROVE MailedBefore'
  BY <1>6, <1>8 DEF RemindInv, MailedBefore
<1>9. ASSUME UNCHANGED <<mailed, lagged, cut>> PROVE DueIsOld'
  BY <1>5, <1>9 DEF RemindInv, DueIsOld
<1>10. ASSUME reminded' = reminded, cut' = cut PROVE StrayedIsBehind'
  <2> SUFFICES ASSUME NEW k \in Instance, sweep'[k].at # "idle", reminderLock' # k,
                      NEW x \in Item \ cut
               PROVE  /\ x \notin sweep'[k].due
                      /\ reminded[x] # Never /\ reminded[x] <= sweep'[k].late
    BY <1>10 DEF StrayedIsBehind
  <2>1. sweep[k].at # "idle" /\ reminderLock # k /\ sweep'[k].late = sweep[k].late
    BY <1>2, <1>4, <1>5, <1>10, IdleIsRow
  <2>2. x \notin sweep'[k].due
    BY <1>2, <2>1, IdleIsRow DEF RemindInv, StrayedIsBehind
  <2> QED BY <2>1, <2>2 DEF RemindInv, StrayedIsBehind
<1> QED BY <1>3, <1>7, <1>8, <1>9, <1>10

\* What is due now was reminded, and so mailed about, an interval ago.
LEMMA SelectReminds ==
    ASSUME RemindInv, NEW i \in Instance, SelectDue(i)
    PROVE  RemindInv'
<1>1. RemindersTypeOK /\ RemindersTypeOK'
  BY SelectParts DEF RemindInv
<1>2. /\ \A k \in Instance \ {i} : sweep'[k] = sweep[k]
      /\ UNCHANGED <<reminded, mailed, lagged, cut>>
      /\ sweep[i].at = "select" /\ sweep[i].due = {}
  BY <1>1, SelectParts DEF SelectDue, RemindInv, Began
<1>3. MarkedAfterMail'
  <2>1. \A k \in Instance : sweep[k].at = "mark" => sweep'[k] = sweep[k]
    BY <1>2
  <2> QED BY <1>2, <2>1 DEF RemindInv, MarkedAfterMail
<1>4. CASE Onward(i)
  BY <1>1, <1>2, <1>3, <1>4, OnwardReminds DEF RemindInv
<1>5. CASE ~Onward(i)
  <2>1. /\ sweep'[i].at = "mail" /\ sweep'[i].due = DueNow(i)
        /\ sweep'[i].late = sweep[i].late /\ reminderLock' = reminderLock
    BY <1>1, <1>5, SelectParts
  <2>2. \A x \in DueNow(i) : /\ x \in Item
                             /\ reminded[x] # Never => reminded[x] >= Interval + sweep[i].late
    BY DEF DueNow, ShouldRemind, Listed, Item
  <2>3. sweep[i].late \in Nat
    BY <1>1, SweepParts
  <2>4. \A x \in Item \ cut : reminderLock # i =>
                                /\ x \notin DueNow(i)
                                /\ reminded[x] # Never /\ reminded[x] <= sweep[i].late
    <3> SUFFICES ASSUME NEW x \in Item \ cut, reminderLock # i
                 PROVE  /\ x \notin DueNow(i)
                        /\ reminded[x] # Never /\ reminded[x] <= sweep[i].late
      OBVIOUS
    <3>1. reminded[x] # Never /\ reminded[x] <= sweep[i].late
      BY <1>2 DEF RemindInv, StrayedIsBehind
    <3> QED BY <1>1, <2>2, <2>3, <3>1, Compared, Times
  <2>5. Began' /\ HolderIsLatest' /\ MailedBefore'
    BY <1>2, <2>1 DEF RemindInv, Began, HolderIsLatest, MailedBefore
  <2>6. StrayedIsBehind'
    BY <1>2, <2>1, <2>4 DEF RemindInv, StrayedIsBehind
  <2>7. ASSUME NEW x \in DueNow(i) \ cut, mailed[x] # Never
        PROVE  mailed[x] + lagged[x] >= Interval + sweep[i].late
    <3>1. x \in Item \ cut /\ reminderLock = i
      BY <2>2, <2>4
    <3>2. \A k \in Instance : ~(sweep[k].at = "mark" /\ x \in sweep[k].due)
      BY <1>2, <3>1 DEF RemindInv, StrayedIsBehind
    <3>3. reminded[x] # Never /\ reminded[x] <= mailed[x] + lagged[x]
      BY <2>7, <3>1, <3>2 DEF RemindInv, MarkedAfterMail
    <3> QED BY <1>1, <2>2, <2>3, <2>7, <3>1, <3>3, Compared, Times
  <2>8. DueIsOld'
    <3> SUFFICES ASSUME NEW k \in Instance, sweep'[k].at = "mail",
                        NEW x \in sweep'[k].due \ cut, mailed[x] # Never
                 PROVE  mailed[x] + lagged[x] >= Interval + sweep'[k].late
      BY <1>2 DEF DueIsOld
    <3>1. CASE k = i
      BY <2>1, <2>7, <3>1
    <3>2. CASE k # i
      BY <1>2, <3>2 DEF RemindInv, DueIsOld
    <3> QED BY <3>1, <3>2
  <2> QED BY <1>1, <1>3, <2>5, <2>6, <2>8 DEF RemindInv
<1> QED BY <1>4, <1>5

\* Of two sweeps that have an item in hand one has strayed.
LEMMA MailReminds ==
    ASSUME RemindInv, NEW i \in Instance, NEW sent \in Delivered, NotifyTeam(i, sent)
    PROVE  RemindInv'
<1>1. RemindersTypeOK /\ RemindersTypeOK'
  BY MailParts DEF RemindInv
<1>2. /\ \A k \in Instance \ {i} : sweep'[k] = sweep[k]
      /\ sweep'[i].at = "mark" /\ sweep'[i].due = sweep[i].due
      /\ sweep'[i].late = sweep[i].late /\ sweep[i].at = "mail"
      /\ \A x \in Item : \/ mailed'[x] = mailed[x] /\ lagged'[x] = lagged[x]
                         \/ /\ x \in sweep[i].due
                            /\ mailed'[x] = 0 /\ lagged'[x] = sweep[i].late
      /\ \A x \in Item \ sweep[i].due :
            mailed'[x] = mailed[x] /\ lagged'[x] = lagged[x]
      /\ UNCHANGED <<reminderLock, reminded, cut>>
  BY <1>1, MailParts
<1>3. Began' /\ HolderIsLatest'
  BY <1>2 DEF RemindInv, Began, HolderIsLatest
<1>4. MailedBefore'
  <2>1. \A k \in Instance : sweep'[k].late = sweep[k].late
    BY <1>2
  <2>2. reminderLock \in Instance => sweep[reminderLock].late <= sweep[i].late
    BY <1>2 DEF RemindInv, HolderIsLatest
  <2>3. /\ sweep[i].late \in Nat /\ 0 + sweep[i].late = sweep[i].late
        /\ sweep[i].due \subseteq Item
    BY <1>1, SweepParts
  <2>4. ASSUME NEW x \in Item, reminderLock \in Instance, mailed'[x] # Never
        PROVE  sweep[reminderLock].late <= mailed'[x] + lagged'[x]
    <3>1. CASE mailed'[x] = 0 /\ lagged'[x] = sweep[i].late
      BY <2>2, <2>3, <2>4, <3>1
    <3>2. CASE mailed'[x] = mailed[x] /\ lagged'[x] = lagged[x]
      BY <2>4, <3>2 DEF RemindInv, MailedBefore
    <3> QED BY <1>2, <3>1, <3>2
  <2> QED BY <1>2, <2>1, <2>4 DEF MailedBefore
<1>5. StrayedIsBehind'
  <2>1. \A k \in Instance : /\ sweep'[k].late = sweep[k].late /\ sweep'[k].due = sweep[k].due
                            /\ sweep'[k].at # "idle" => sweep[k].at # "idle"
    BY <1>2
  <2> QED BY <1>2, <2>1 DEF RemindInv, StrayedIsBehind
<1>6. MarkedAfterMail'
  <2> SUFFICES ASSUME NEW x \in Item \ cut, mailed'[x] # Never
               PROVE  \/ reminded[x] # Never /\ reminded[x] <= mailed'[x] + lagged'[x]
                      \/ \E k \in Instance : sweep'[k].at = "mark" /\ x \in sweep'[k].due
    BY <1>2 DEF MarkedAfterMail
  <2>1. CASE x \in sweep[i].due
    BY <1>2, <2>1
  <2>2. CASE x \notin sweep[i].due
    <3>1. mailed'[x] = mailed[x] /\ lagged'[x] = lagged[x]
      BY <1>2, <2>2
    <3>2. \A k \in Instance : sweep[k].at = "mark" => sweep'[k] = sweep[k]
      BY <1>2
    <3> QED BY <3>1, <3>2 DEF RemindInv, MarkedAfterMail
  <2> QED BY <2>1, <2>2
<1>7. DueIsOld'
  <2> SUFFICES ASSUME NEW k \in Instance, sweep'[k].at = "mail",
                      NEW x \in sweep'[k].due \ cut, mailed'[x] # Never
               PROVE  mailed'[x] + lagged'[x] >= Interval + sweep'[k].late
    BY <1>2 DEF DueIsOld
  <2>1. k # i /\ sweep'[k] = sweep[k] /\ x \in Item
    BY <1>1, <1>2, SweepParts
  <2>2. x \notin sweep[i].due
    BY <1>2, <2>1 DEF RemindInv, StrayedIsBehind
  <2> QED BY <1>2, <2>1, <2>2 DEF RemindInv, DueIsOld
<1> QED BY <1>1, <1>3, <1>4, <1>5, <1>6, <1>7 DEF RemindInv

\* The mark is the time the sweep began, which is before its mail.
LEMMA MarkReminds ==
    ASSUME RemindInv, NEW i \in Instance, NEW x \in Item, MarkReminded(i, x)
    PROVE  RemindInv'
<1>1. RemindersTypeOK /\ RemindersTypeOK'
  BY MarkParts DEF RemindInv
<1>2. /\ \A k \in Instance \ {i} : sweep'[k] = sweep[k]
      /\ sweep[i].at = "mark" /\ x \in sweep[i].due
      /\ reminded'[x] = sweep[i].late
      /\ \A y \in Item \ {x} : reminded'[y] = reminded[y]
      /\ cut' = IF reminderLock = i /\ \A k \in Instance \ {i} : x \notin sweep[k].due
                THEN cut \ {x} ELSE cut
      /\ UNCHANGED <<mailed, lagged>>
      /\ \/ /\ sweep'[i].at = "mark" /\ sweep'[i].due = sweep[i].due \ {x}
            /\ sweep'[i].late = sweep[i].late /\ reminderLock' = reminderLock
         \/ sweep[i].due = {x} /\ Onward(i)
  BY <1>1, MarkParts
<1>3. x \in cut' \/ (reminderLock = i /\ \A k \in Instance \ {i} : x \notin sweep[k].due)
  <2>1. \A k \in Instance : x \in sweep[k].due /\ x \notin cut => reminderLock = k
    BY IdleIsRow DEF RemindInv, Began, StrayedIsBehind
  <2>2. CASE reminderLock # i
    BY <1>2, <2>1, <2>2
  <2>3. CASE reminderLock = i
    BY <1>2, <2>1, <2>3
  <2> QED BY <2>2, <2>3
<1>4. \A y \in Item \ cut' : y # x => y \notin cut
  BY <1>2
<1>5. sweep[i].late \in Nat /\ Never \notin Nat
  BY <1>1, SweepParts, Times
<1>6. Began' /\ HolderIsLatest' /\ MailedBefore'
  <2>1. CASE Onward(i)
    BY <1>2, <2>1, OnwardReminds
  <2>2. CASE ~Onward(i)
    BY <1>2, <2>2 DEF RemindInv, Began, HolderIsLatest, MailedBefore
  <2> QED BY <2>1, <2>2
<1>7. /\ \A k \in Instance : sweep'[k].at # "idle" =>
            /\ sweep[k].at # "idle" /\ sweep'[k].late = sweep[k].late
            /\ sweep'[k].due \subseteq sweep[k].due
            /\ reminderLock' # k => reminderLock # k
      /\ \A k \in Instance : sweep'[k].at = "mail" => k # i
  <2>1. CASE Onward(i)
    BY <1>1, <1>2, <2>1, OnwardParts, IdleIsRow
  <2>2. CASE ~Onward(i)
    BY <1>2, <2>2
  <2> QED BY <2>1, <2>2
<1>8. StrayedIsBehind'
  <2> SUFFICES ASSUME NEW k \in Instance, sweep'[k].at # "idle", reminderLock' # k,
                      NEW y \in Item \ cut'
               PROVE  /\ y \notin sweep'[k].due
                      /\ reminded'[y] # Never /\ reminded'[y] <= sweep'[k].late
    BY DEF StrayedIsBehind
  <2>1. /\ sweep[k].at # "idle" /\ sweep'[k].late = sweep[k].late
        /\ sweep'[k].due \subseteq sweep[k].due /\ reminderLock # k
    BY <1>7
  <2>2. CASE y # x
    BY <1>2, <1>4, <2>1, <2>2 DEF RemindInv, StrayedIsBehind
  <2>3. CASE y = x
    <3>1. reminderLock = i /\ k # i /\ x \notin sweep[k].due
      BY <1>3, <2>1, <2>3
    <3>2. sweep[i].late <= sweep[k].late
      BY <2>1, <3>1 DEF RemindInv, HolderIsLatest
    <3> QED BY <1>2, <1>5, <2>1, <2>3, <3>1, <3>2
  <2> QED BY <2>2, <2>3
<1>9. MarkedAfterMail'
  <2> SUFFICES ASSUME NEW y \in Item \ cut', mailed[y] # Never
               PROVE  \/ reminded'[y] # Never /\ reminded'[y] <= mailed[y] + lagged[y]
                      \/ \E k \in Instance : sweep'[k].at = "mark" /\ y \in sweep'[k].due
    BY <1>2 DEF MarkedAfterMail
  <2>1. CASE y = x
    BY <1>2, <1>3, <1>5, <2>1 DEF RemindInv, MailedBefore
  <2>2. CASE y # x
    <3>1. \/ reminded[y] # Never /\ reminded[y] <= mailed[y] + lagged[y]
          \/ \E k \in Instance : sweep[k].at = "mark" /\ y \in sweep[k].due
      BY <1>4, <2>2 DEF RemindInv, MarkedAfterMail
    <3>2. \A k \in Instance : sweep[k].at = "mark" /\ y \in sweep[k].due =>
                                  sweep'[k].at = "mark" /\ y \in sweep'[k].due
      BY <1>2, <2>2
    <3> QED BY <1>2, <2>2, <3>1, <3>2
  <2> QED BY <2>1, <2>2
<1>10. DueIsOld'
  <2> SUFFICES ASSUME NEW k \in Instance, sweep'[k].at = "mail",
                      NEW y \in sweep'[k].due \ cut', mailed[y] # Never
               PROVE  mailed[y] + lagged[y] >= Interval + sweep'[k].late
    BY <1>2 DEF DueIsOld
  <2>1. k # i /\ sweep'[k] = sweep[k] /\ y \in Item
    BY <1>1, <1>2, <1>7, SweepParts
  <2>2. y \notin cut
    BY <1>3, <1>4, <2>1
  <2> QED BY <2>1, <2>2 DEF RemindInv, DueIsOld
<1> QED BY <1>1, <1>6, <1>8, <1>9, <1>10 DEF RemindInv

\* What a sweep that stops had in hand, or all of it, is excepted.
LEMMA FaultReminds ==
    ASSUME RemindInv, LoseLock \/ \E i \in Instance : CutShort(i)
    PROVE  RemindInv'
<1>1. RemindersTypeOK /\ RemindersTypeOK'
  BY FaultParts DEF RemindInv
<1>2. CASE LoseLock
  <2>1. /\ reminderLock' = Nobody /\ cut' = Item
        /\ UNCHANGED <<reminded, sweep, mailed, lagged>>
    BY <1>2 DEF LoseLock
  <2>2. \A k \in Instance : sweep[k].due \ Item = {}
    BY <1>1, SweepParts
  <2>3. Began' /\ HolderIsLatest' /\ MailedBefore' /\ StrayedIsBehind' /\ MarkedAfterMail'
    BY <2>1, Times
       DEF RemindInv, Began, HolderIsLatest, MailedBefore, StrayedIsBehind, MarkedAfterMail
  <2>4. DueIsOld'
    BY <2>1, <2>2 DEF DueIsOld
  <2> QED BY <1>1, <2>3, <2>4 DEF RemindInv
<1>3. ASSUME NEW i \in Instance, CutShort(i) PROVE RemindInv'
  <2>1. /\ sweep[i].at # "idle"
        /\ sweep'[i] = IdleSweep /\ \A k \in Instance \ {i} : sweep'[k] = sweep[k]
        /\ reminderLock' = IF reminderLock = i THEN Nobody ELSE reminderLock
        /\ cut' = IF sweep[i].at = "mark" THEN cut \cup sweep[i].due ELSE cut
        /\ UNCHANGED <<reminded, mailed, lagged>>
    BY <1>1, <1>3 DEF CutShort, Released, RemindersTypeOK
  <2>2. \A k \in Instance : sweep'[k].at # "idle" => k # i /\ sweep'[k] = sweep[k]
    BY <2>1, IdleIsRow
  <2>3. reminderLock' \in Instance => reminderLock' = reminderLock /\ reminderLock # i
    BY <2>1, Times
  <2>4. cut \subseteq cut'
    BY <2>1
  <2>5. Began'
    BY <2>1, <2>2, IdleIsRow DEF RemindInv, Began
  <2>6. HolderIsLatest' /\ MailedBefore'
    BY <2>1, <2>2, <2>3 DEF RemindInv, HolderIsLatest, MailedBefore
  <2>7. StrayedIsBehind'
    BY <2>1, <2>2, <2>4 DEF RemindInv, StrayedIsBehind
  <2>8. MarkedAfterMail'
    <3> SUFFICES ASSUME NEW x \in Item \ cut', mailed[x] # Never
                 PROVE  \/ reminded[x] # Never /\ reminded[x] <= mailed[x] + lagged[x]
                        \/ \E k \in Instance : sweep'[k].at = "mark" /\ x \in sweep'[k].due
      BY <2>1 DEF MarkedAfterMail
    <3>1. ~(sweep[i].at = "mark" /\ x \in sweep[i].due)
      BY <2>1
    <3> QED BY <2>1, <2>4, <3>1 DEF RemindInv, MarkedAfterMail
  <2>9. DueIsOld'
    BY <2>1, <2>2, <2>4 DEF RemindInv, DueIsOld
  <2> QED BY <1>1, <2>5, <2>6, <2>7, <2>8, <2>9 DEF RemindInv
<1> QED BY <1>2, <1>3

LEMMA RemindNext == RemindInv /\ [RemindersNext]_reminderVars => RemindInv'
<1> SUFFICES ASSUME RemindInv, [RemindersNext]_reminderVars PROVE RemindInv'
  OBVIOUS
<1>1. CASE UNCHANGED reminderVars
  BY <1>1 DEF reminderVars, RemindInv, RemindersTypeOK, Began, HolderIsLatest, MailedBefore,
              StrayedIsBehind, MarkedAfterMail, DueIsOld
<1> QED BY <1>1, TickReminds, ItemsRemind, SweepReminds, SelectReminds, MailReminds,
           MarkReminds, FaultReminds
        DEF RemindersNext, SweepStep

(***************************************************************************)
(* Two mails about an item come from sweeps that began an interval apart:  *)
(* they are an interval apart less the time the earlier sweep had taken    *)
(* when it mailed, for any number of instances, items and faults, unless   *)
(* the sweep that mailed stopped before it marked the item, or lost its    *)
(* lock.                                                                   *)
(***************************************************************************)
THEOREM RemindedOnceInAnInterval == RemindersSpec => RemindedOnce
<1>1. RemindInv /\ [RemindersNext]_reminderVars =>
        [\A i \in Instance, x \in Item :
           NotifyTeam(i, TRUE) /\ x \in sweep[i].due /\ x \notin cut /\ mailed[x] # Never
             => mailed[x] + lagged[x] >= Interval + sweep[i].late]_reminderVars
  BY DEF RemindInv, DueIsOld, NotifyTeam
<1> QED BY <1>1, RemindInit, RemindNext, PTL DEF RemindersSpec, RemindedOnce
-----------------------------------------------------------------------------
(***************************************************************************)
(* The ingestion of the insights.                                          *)
(***************************************************************************)
\* The items a sweep has still to fetch are its own, and it has the lock.
LEMMA SweepHasLock ==
    ASSUME InsightsTypeOK, ~lockLost, NEW i \in Server, ingestion[i].at # "idle"
    PROVE  insightsLock = i
BY DEF InsightsTypeOK

\* What a sweep has left when it goes on, or ends.
LEMMA GoesOn ==
    ASSUME InsightsTypeOK, NEW i \in Server, NEW left \in SUBSET Post,
           NEW at \in {"idle", "recent", "fetch"}, Goes(i, left, at)
    PROVE  /\ \A j \in Server \ {i} : ingestion'[j] = ingestion[j]
           /\ ingestion'[i] = [at |-> at, left |-> left] \/ ingestion'[i] = IdleIngestion
BY DEF Goes, InsightsTypeOK

\* Going on, or ending, keeps the types and the lock.
LEMMA GoesIsOK ==
    ASSUME InsightsTypeOK, NEW i \in Server, NEW left \in SUBSET Post,
           NEW at \in {"idle", "recent", "fetch"}, Goes(i, left, at),
           ingestion[i].at # "idle", lockLost' = lockLost
    PROVE  /\ ingestion' \in [Server -> IngestionRow]
           /\ insightsLock' \in Server \cup {NoServer}
           /\ \A j \in Server : ingestion'[j].at # "idle" => lockLost' \/ insightsLock' = j
           /\ \A j \in Server \ {i} : ingestion'[j] = ingestion[j]
           /\ left # {} => ingestion'[i] = [at |-> at, left |-> left]
           /\ left = {} => ingestion'[i] = IdleIngestion
<1>1. [at |-> at, left |-> left] \in IngestionRow /\ IdleIngestion \in IngestionRow
      /\ IdleIngestion.at = "idle"
  BY DEF IngestionRow, IdleIngestion
<1>2. ingestion \in [Server -> IngestionRow]
  BY DEF InsightsTypeOK
<1>3. /\ \A j \in Server \ {i} : ingestion'[j] = ingestion[j]
      /\ left # {} => ingestion'[i] = [at |-> at, left |-> left]
      /\ left = {} => ingestion'[i] = IdleIngestion
      /\ ingestion' \in [Server -> IngestionRow]
  BY <1>1, <1>2 DEF Goes
<1>4. insightsLock' = IF left = {} /\ insightsLock = i THEN NoServer ELSE insightsLock
  BY DEF Goes
<1>5. ASSUME NEW j \in Server, ingestion'[j].at # "idle", ~lockLost
      PROVE  insightsLock' = j
  <2>1. CASE j = i
    BY <1>1, <1>3, <1>4, <1>5, <2>1, SweepHasLock
  <2>2. CASE j # i
    BY <1>3, <1>5, <2>2, SweepHasLock
  <2> QED BY <2>1, <2>2
<1> QED BY <1>3, <1>4, <1>5 DEF InsightsTypeOK

LEMMA AgedIsOK ==
    ASSUME NEW cap \in Nat, NEW ages \in [Post -> (0 .. cap) \cup {NotYet}]
    PROVE  Aged(ages, cap) \in [Post -> (0 .. cap) \cup {NotYet}]
BY InsightsAssumption DEF Aged

-----------------------------------------------------------------------------
LEMMA InitIsOK == InsightsInit => InsightsTypeOK
<1>1. IdleIngestion \in IngestionRow /\ IdleIngestion.at = "idle"
  BY DEF IngestionRow, IdleIngestion
<1> SUFFICES ASSUME InsightsInit PROVE InsightsTypeOK
  OBVIOUS
<1>2. /\ ingestion \in [Server -> IngestionRow]
      /\ \A i \in Server : ingestion[i].at = "idle"
  BY <1>1 DEF InsightsInit
<1>3. losses \in 0 .. MaxLost
  BY InsightsAssumption DEF InsightsInit
<1>5. lockLost \in BOOLEAN /\ insightsLock \in Server \cup {NoServer}
  BY DEF InsightsInit
<1>4. /\ publishedAt \in [Post -> (0 .. Lookback) \cup {NotYet}]
      /\ capturedAt \in [Post -> (0 .. Refresh) \cup {NotYet}]
      /\ ingestedAt \in [Post -> (0 .. Refresh) \cup {NotYet}]
  BY DEF InsightsInit
<1> QED BY <1>2, <1>3, <1>4, <1>5 DEF InsightsTypeOK

LEMMA SweepStepIsOK ==
    ASSUME InsightsTypeOK, NEW i \in Server,
           \/ SelectPublished(i) \/ SkipRecent(i)
           \/ \E c \in Post, collected \in Collected : IngestItem(i, c, collected)
           \/ StopIngestion(i)
    PROVE  InsightsTypeOK'
<1>1. ingestion[i].left \subseteq Post
  BY DEF InsightsTypeOK, IngestionRow
<1>2. CASE SelectPublished(i)
  BY <1>2, GoesIsOK DEF SelectPublished, InsightsTypeOK
<1>3. CASE SkipRecent(i)
  BY <1>1, <1>3, GoesIsOK DEF SkipRecent, InsightsTypeOK
<1>4. ASSUME NEW c \in Post, NEW collected \in Collected, IngestItem(i, c, collected)
      PROVE  InsightsTypeOK'
  <2>1. 0 \in 0 .. Refresh
    BY InsightsAssumption
  <2> QED BY <1>1, <1>4, <2>1, GoesIsOK DEF IngestItem, InsightsTypeOK
<1>5. CASE StopIngestion(i)
  <2>1. losses' \in 0 .. MaxLost
    BY <1>5, InsightsAssumption DEF StopIngestion, Lost, InsightsTypeOK
  <2>2. Goes(i, {}, "idle") /\ ingestion[i].at # "idle" /\ {} \in SUBSET Post
        /\ UNCHANGED <<publishedAt, capturedAt, ingestedAt, lockLost>>
    BY <1>5 DEF StopIngestion
  <2> QED BY <2>1, <2>2, GoesIsOK DEF InsightsTypeOK
<1> QED BY <1>2, <1>3, <1>4, <1>5

LEMMA NextIsOK == InsightsTypeOK /\ [InsightsNext]_insightsVars => InsightsTypeOK'
<1> SUFFICES ASSUME InsightsTypeOK, [InsightsNext]_insightsVars PROVE InsightsTypeOK'
  OBVIOUS
<1>1. CASE Hour
  <2>1. capturedAt' \in [Post -> (0 .. Refresh) \cup {NotYet}]
        /\ ingestedAt' \in [Post -> (0 .. Refresh) \cup {NotYet}]
    BY <1>1, AgedIsOK, InsightsAssumption DEF Hour, InsightsTypeOK
  <2>2. publishedAt' \in [Post -> (0 .. Lookback) \cup {NotYet}]
    BY <1>1, InsightsAssumption DEF Hour, InsightsTypeOK
  <2> QED BY <1>1, <2>1, <2>2 DEF Hour, InsightsTypeOK
<1>2. ASSUME NEW c \in Post,
             \/ \E a \in (0 .. Lookback) \cup {NotYet} : Publish(c, a)
             \/ \E a \in 0 .. Refresh : CreateAnalytics(c, a)
             \/ \E a \in (0 .. Refresh) \cup {NotYet} : UpdateAnalytics(c, a)
      PROVE  InsightsTypeOK'
  BY <1>2 DEF Publish, CreateAnalytics, UpdateAnalytics, InsightsTypeOK
<1>3. ASSUME NEW i \in Server, Ingest(i) PROVE InsightsTypeOK'
  <2>1. [ingestion[i] EXCEPT !.at = "since"] \in IngestionRow
    BY DEF InsightsTypeOK, IngestionRow
  <2>2. \A j \in Server : ingestion[j].at # "idle" => lockLost
    BY <1>3, InsightsAssumption DEF Ingest, LockFree, InsightsTypeOK
  <2> QED BY <1>3, <2>1, <2>2 DEF Ingest, InsightsTypeOK
<1>4. CASE LoseInsightsLock
  BY <1>4, InsightsAssumption DEF LoseInsightsLock, Lost, InsightsTypeOK
<1>5. CASE UNCHANGED insightsVars
  BY <1>5 DEF insightsVars, InsightsTypeOK
<1> QED BY <1>1, <1>2, <1>3, <1>4, <1>5, SweepStepIsOK DEF InsightsNext

(***************************************************************************)
(* The rows have their types, and as long as no connection was lost under  *)
(* a sweep, whoever is in runIngestion holds the lock: the sweeps of all   *)
(* instances exclude one another.                                          *)
(***************************************************************************)
THEOREM InsightsTypeCorrect == InsightsSpec => []InsightsTypeOK
BY InitIsOK, NextIsOK, PTL DEF InsightsSpec
-----------------------------------------------------------------------------
(***************************************************************************)
(* Once in an interval.  IngestedOnce needs that the newest row of an item *)
(* is no older than the last one a sweep added, and that what a sweep has  *)
(* still to fetch was ingested an interval ago: the sweeps of other        *)
(* instances are kept out by the lock, and time only passes.               *)
(***************************************************************************)
NewestIsNewest ==
    \A c \in Post : ingestedAt[c] # NotYet =>
                       capturedAt[c] # NotYet /\ capturedAt[c] <= ingestedAt[c]

LeftIsStale ==
    ~lockLost => \A i \in Server : ingestion[i].at = "fetch" =>
                    \A c \in ingestion[i].left : ingestedAt[c] \in {NotYet, Refresh}

OnceInv == InsightsTypeOK /\ NewestIsNewest /\ LeftIsStale

LEMMA OnceInit == InsightsInit => OnceInv
BY InitIsOK DEF InsightsInit, OnceInv, NewestIsNewest, LeftIsStale, IdleIngestion

\* The ages go up together.
LEMMA HourOnce == ASSUME OnceInv, Hour PROVE NewestIsNewest' /\ LeftIsStale'
<1>1. /\ capturedAt \in [Post -> (0 .. Refresh) \cup {NotYet}]
      /\ ingestedAt \in [Post -> (0 .. Refresh) \cup {NotYet}]
      /\ Refresh \in Nat /\ NotYet \notin Nat
      /\ \A i \in Server : ingestion[i].left \subseteq Post
  BY InsightsAssumption DEF OnceInv, InsightsTypeOK, IngestionRow
<1>2. ASSUME NEW c \in Post
      PROVE  /\ ingestedAt[c] \in {NotYet, Refresh} => ingestedAt'[c] = ingestedAt[c]
             /\ ingestedAt'[c] # NotYet =>
                   capturedAt'[c] # NotYet /\ capturedAt'[c] <= ingestedAt'[c]
  BY <1>1 DEF Hour, Aged, OnceInv, NewestIsNewest
<1>3. NewestIsNewest'
  BY <1>2 DEF NewestIsNewest
<1>4. LeftIsStale'
  BY <1>1, <1>2 DEF Hour, OnceInv, LeftIsStale
<1> QED BY <1>3, <1>4

\* Rows added or edited by hand.
LEMMA ByHandOnce ==
    ASSUME OnceInv, NEW c \in Post,
           \/ \E a \in 0 .. Refresh : CreateAnalytics(c, a)
           \/ \E a \in (0 .. Refresh) \cup {NotYet} : UpdateAnalytics(c, a)
    PROVE  NewestIsNewest' /\ LeftIsStale'
<1>1. /\ capturedAt \in [Post -> (0 .. Refresh) \cup {NotYet}]
      /\ ingestedAt \in [Post -> (0 .. Refresh) \cup {NotYet}]
      /\ Refresh \in Nat /\ NotYet \notin Nat
      /\ \A i \in Server : ingestion[i].left \subseteq Post
  BY InsightsAssumption DEF OnceInv, InsightsTypeOK, IngestionRow
<1>2. NewestIsNewest'
  <2>1. CASE \E a \in 0 .. Refresh : CreateAnalytics(c, a)
    BY <1>1, <2>1 DEF CreateAnalytics, OnceInv, NewestIsNewest
  <2>2. CASE \E a \in (0 .. Refresh) \cup {NotYet} : UpdateAnalytics(c, a)
    BY <1>1, <2>2 DEF UpdateAnalytics, OnceInv, NewestIsNewest
  <2> QED BY <2>1, <2>2
<1>3. LeftIsStale'
  BY <1>1 DEF CreateAnalytics, UpdateAnalytics, OnceInv, LeftIsStale
<1> QED BY <1>2, <1>3

\* An item that is not skipped was ingested an interval ago, if ever.
LEMMA SkipOnce ==
    ASSUME OnceInv, NEW i \in Server, SkipRecent(i)
    PROVE  NewestIsNewest' /\ LeftIsStale'
<1>1. ingestion[i].left \subseteq Post
  BY DEF OnceInv, InsightsTypeOK, IngestionRow
<1>2. ASSUME NEW c \in ingestion[i].left \ RecentlyIngested
      PROVE  ingestedAt[c] \in {NotYet, Refresh}
  <2>1. /\ c \in Post /\ capturedAt[c] \in (0 .. Refresh) \cup {NotYet}
        /\ ingestedAt[c] \in (0 .. Refresh) \cup {NotYet}
    BY <1>1 DEF OnceInv, InsightsTypeOK
  <2>2. capturedAt[c] = NotYet \/ ~(capturedAt[c] < Refresh)
    BY <2>1 DEF RecentlyIngested
  <2> QED BY <2>1, <2>2, InsightsAssumption DEF OnceInv, NewestIsNewest
<1>3. /\ \A j \in Server \ {i} : ingestion'[j] = ingestion[j]
      /\ ingestion'[i] = [at |-> "fetch", left |-> ingestion[i].left \ RecentlyIngested]
         \/ ingestion'[i] = IdleIngestion
      /\ UNCHANGED <<capturedAt, ingestedAt, lockLost>>
  BY <1>1, GoesIsOK DEF SkipRecent, OnceInv
<1>4. LeftIsStale'
  BY <1>2, <1>3 DEF OnceInv, LeftIsStale, IdleIngestion
<1>5. NewestIsNewest'
  BY <1>3 DEF OnceInv, NewestIsNewest
<1> QED BY <1>4, <1>5

\* The item ingested is left to nobody: the others are not at work.
LEMMA IngestOnce ==
    ASSUME OnceInv, NEW i \in Server, NEW c \in Post, NEW collected \in Collected,
           IngestItem(i, c, collected)
    PROVE  NewestIsNewest' /\ LeftIsStale'
<1>1. /\ ingestion[i].left \subseteq Post /\ ingestion[i].at = "fetch"
      /\ capturedAt \in [Post -> (0 .. Refresh) \cup {NotYet}]
      /\ ingestedAt \in [Post -> (0 .. Refresh) \cup {NotYet}]
      /\ Refresh \in Nat /\ NotYet \notin Nat
  BY InsightsAssumption DEF IngestItem, OnceInv, InsightsTypeOK, IngestionRow
<1>2. /\ \A j \in Server \ {i} : ingestion'[j] = ingestion[j]
      /\ ingestion'[i] = [at |-> "fetch", left |-> ingestion[i].left \ {c}]
         \/ ingestion'[i] = IdleIngestion
      /\ UNCHANGED lockLost
  BY <1>1, GoesIsOK DEF IngestItem, OnceInv
<1>3. \A d \in Post \ {c} : ingestedAt'[d] = ingestedAt[d] /\ capturedAt'[d] = capturedAt[d]
  BY <1>1 DEF IngestItem
<1>4. \/ ingestedAt'[c] = ingestedAt[c] /\ capturedAt'[c] = capturedAt[c]
      \/ ingestedAt'[c] = 0 /\ capturedAt'[c] = 0
  BY <1>1 DEF IngestItem
<1>5. NewestIsNewest'
  BY <1>1, <1>3, <1>4 DEF OnceInv, NewestIsNewest
<1>6. ASSUME ~lockLost, NEW j \in Server, ingestion'[j].at = "fetch"
      PROVE  j = i
  BY <1>1, <1>2, <1>6, SweepHasLock DEF OnceInv
<1>7. LeftIsStale'
  <2> SUFFICES ASSUME ~lockLost', ingestion'[i].at = "fetch", NEW d \in ingestion'[i].left
               PROVE  ingestedAt'[d] \in {NotYet, Refresh}
    BY <1>2, <1>6 DEF LeftIsStale
  <2>1. d \in ingestion[i].left \ {c} /\ ~lockLost
    BY <1>2 DEF IdleIngestion
  <2> QED BY <1>1, <1>3, <2>1 DEF OnceInv, LeftIsStale
<1> QED BY <1>5, <1>7

LEMMA OnceNext == OnceInv /\ [InsightsNext]_insightsVars => OnceInv'
<1> SUFFICES ASSUME OnceInv, [InsightsNext]_insightsVars PROVE NewestIsNewest' /\ LeftIsStale'
  BY NextIsOK DEF OnceInv
<1>1. ASSUME NEW c \in Post, \E a \in (0 .. Lookback) \cup {NotYet} : Publish(c, a)
      PROVE  NewestIsNewest' /\ LeftIsStale'
  BY <1>1 DEF Publish, OnceInv, NewestIsNewest, LeftIsStale
<1>2. ASSUME NEW i \in Server, Ingest(i)
      PROVE  NewestIsNewest' /\ LeftIsStale'
  <2>1. /\ \A j \in Server \ {i} : ingestion'[j] = ingestion[j]
        /\ ingestion'[i].at = "since"
        /\ UNCHANGED <<capturedAt, ingestedAt, lockLost>>
    BY <1>2 DEF Ingest, OnceInv, InsightsTypeOK, IngestionRow
  <2> QED BY <2>1 DEF OnceInv, NewestIsNewest, LeftIsStale
<1>3. ASSUME NEW i \in Server, SelectPublished(i) \/ StopIngestion(i)
      PROVE  NewestIsNewest' /\ LeftIsStale'
  <2>1. /\ \A j \in Server \ {i} : ingestion'[j] = ingestion[j]
        /\ ingestion'[i].at # "fetch"
        /\ UNCHANGED <<capturedAt, ingestedAt, lockLost>>
    <3>1. PICK left \in SUBSET Post, at \in {"recent", "idle"} : Goes(i, left, at)
      BY <1>3 DEF SelectPublished, StopIngestion
    <3>2. ingestion[i].at # "idle" /\ UNCHANGED <<capturedAt, ingestedAt, lockLost>>
      BY <1>3 DEF SelectPublished, StopIngestion
    <3>3. /\ \A j \in Server \ {i} : ingestion'[j] = ingestion[j]
          /\ ingestion'[i] = [at |-> at, left |-> left] \/ ingestion'[i] = IdleIngestion
      BY <3>1, GoesOn DEF OnceInv
    <3> QED BY <3>2, <3>3 DEF IdleIngestion
  <2> QED BY <2>1 DEF OnceInv, NewestIsNewest, LeftIsStale
<1>4. CASE LoseInsightsLock
  BY <1>4 DEF LoseInsightsLock, OnceInv, NewestIsNewest, LeftIsStale
<1>5. CASE UNCHANGED insightsVars
  BY <1>5 DEF insightsVars, OnceInv, NewestIsNewest, LeftIsStale
<1> QED BY <1>1, <1>2, <1>3, <1>4, <1>5, HourOnce, ByHandOnce, SkipOnce, IngestOnce
        DEF InsightsNext

(***************************************************************************)
(* The ingestion adds a row of analytics for an item at most once in       *)
(* REFRESH_INTERVAL_HOURS, whatever instances run and stop, while no       *)
(* connection is lost under a sweep and the row stays as it was added.     *)
(***************************************************************************)
THEOREM OnceInAnInterval == InsightsSpec => IngestedOnce
<1>1. OnceInv => \A i \in Server, c \in Post :
         IngestItem(i, c, TRUE) /\ ~lockLost => ingestedAt[c] \in {NotYet, Refresh}
  BY DEF OnceInv, LeftIsStale, IngestItem
<1> QED BY <1>1, OnceInit, OnceNext, PTL DEF InsightsSpec, IngestedOnce
-----------------------------------------------------------------------------

\* A behaviour is about one of the two sweeps; the other stays as it began.
LEMMA HourlyNextIsOK == HourlyTypeOK /\ [MCNext]_<<focus, reminderVars, insightsVars>> => HourlyTypeOK'
<1> SUFFICES ASSUME HourlyTypeOK, [MCNext]_<<focus, reminderVars, insightsVars>>
             PROVE  HourlyTypeOK'
  OBVIOUS
<1>1. [RemindersNext]_reminderVars /\ [InsightsNext]_insightsVars
  BY DEF MCNext
<1> QED BY <1>1, RemindersNextOK, NextIsOK DEF HourlyTypeOK

(***************************************************************************)
(* The hourly sweeps are typed together as they are apart: the two share   *)
(* no table and no lock, and a step of one is not a step of the other.     *)
(***************************************************************************)
THEOREM HourlyAreTyped == MCSpec => []HourlyTypeOK
<1>1. MCInit => HourlyTypeOK
  BY RemindersInitOK, InitIsOK DEF MCInit, HourlyTypeOK
<1> QED BY <1>1, HourlyNextIsOK, PTL DEF MCSpec
==============================================================================
