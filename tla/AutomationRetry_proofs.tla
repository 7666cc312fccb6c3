------------------------ MODULE AutomationRetry_proofs ------------------------
(***************************************************************************)
(* Theorems about AutomationRetry, for any number of clients, items,       *)
(* instances and requests, any batch and any bounds.                       *)
(***************************************************************************)
EXTENDS AutomationRetry, SequenceTheorems, FiniteSetTheorems, TLAPS

\* A worker that is not idle has a record of its own.
LEMMA WorkIsWork ==
    ASSUME RetryTypeOK, NEW w \in Worker, work[w] # Idle
    PROVE  /\ work[w] \in Work
           /\ work[w].pc \in {"check", "create", "save", "mark"}
           /\ work[w].entity \in Entity /\ work[w].log \in LogId \cup {NoLog}
BY DEF RetryTypeOK, Work

\* One whose pc is not "idle" is not idle.
LEMMA BusyIsWork ==
    ASSUME RetryTypeOK, NEW w \in Worker,
           work[w].pc \in {"check", "create", "save", "mark"}
    PROVE  work[w] # Idle /\ work[w] \in Work /\ work[w].entity \in Entity
<1>1. work[w] # Idle
  BY DEF Idle
<1> QED BY <1>1, WorkIsWork

\* What a worker does after its entity is dealt with is work again.
LEMMA AfterIsWork ==
    ASSUME RetryTypeOK, NEW w \in Worker, work[w] # Idle
    PROVE  After(w) \in Work \cup {Idle}
<1>1. work[w] \in Work
  BY WorkIsWork
<1>2. [work[w] EXCEPT !.pc = "mark"] \in Work
  BY <1>1 DEF Work
<1> QED BY <1>2 DEF After

\* The rows of a sequence are the values it takes.
LEMMA RowsOfSeq ==
    ASSUME NEW S, NEW s \in Seq(S)
    PROVE  /\ \A row \in Rows(s) : row \in S
           /\ \A k \in 1 .. Len(s) : s[k] \in Rows(s) /\ s[k] \in S
           /\ \A row \in Rows(s) : \E k \in 1 .. Len(s) : s[k] = row
BY DEF Rows

\* Appending adds one row.
LEMMA RowsOfAppend ==
    ASSUME NEW S, NEW s \in Seq(S), NEW x \in S
    PROVE  Rows(Append(s, x)) = Rows(s) \cup {x}
<1> DEFINE t == Append(s, x)
<1>1. /\ t \in Seq(S) /\ Len(t) = Len(s) + 1 /\ t[Len(s) + 1] = x
      /\ \A k \in 1 .. Len(s) : t[k] = s[k]
      /\ Len(s) \in Nat
  BY AppendProperties
<1> HIDE DEF t
<1>2. Rows(t) \subseteq Rows(s) \cup {x}
  BY <1>1 DEF Rows
<1>3. Rows(s) \cup {x} \subseteq Rows(t)
  BY <1>1 DEF Rows
<1> QED BY <1>2, <1>3 DEF t

\* The tail of a list has no row that the list has not.
LEMMA RowsOfTail ==
    ASSUME NEW S, NEW s \in Seq(S), s # <<>>
    PROVE  /\ Tail(s) \in Seq(S) /\ Rows(Tail(s)) \subseteq Rows(s)
           /\ Head(s) \in S /\ Head(s) \in Rows(s)
<1>1. /\ Tail(s) \in Seq(S) /\ Len(Tail(s)) = Len(s) - 1 /\ Head(s) \in S
      /\ \A k \in 1 .. Len(Tail(s)) : Tail(s)[k] = s[k + 1]
      /\ Len(s) \in Nat \ {0} /\ Head(s) = s[1]
  BY HeadTailProperties, EmptySeq
<1> QED BY <1>1 DEF Rows

\* What a tick takes are rows of the log.
LEMMA NewestAreRows ==
    ASSUME RetryTypeOK
    PROVE  Newest \in Seq(FailedLog) /\ Rows(Newest) \subseteq Rows(failed)
<1>1. Taken \in Nat /\ Taken <= Len(failed) /\ Len(failed) \in Nat
  BY RetryBoundsAssumption DEF Taken, RetryTypeOK
<1>2. \A k \in 1 .. Taken : /\ Len(failed) + 1 - k \in 1 .. Len(failed)
                            /\ failed[Len(failed) + 1 - k] \in FailedLog
                            /\ failed[Len(failed) + 1 - k] \in Rows(failed)
  BY <1>1 DEF RetryTypeOK, Rows
<1>3. Newest \in [1 .. Taken -> FailedLog]
  BY <1>2 DEF Newest
<1>4. Newest \in Seq(FailedLog) /\ Len(Newest) = Taken
  BY <1>1, <1>3, IsASeq
<1>5. \A k \in 1 .. Taken : Newest[k] \in Rows(failed)
  BY <1>2 DEF Newest
<1> QED BY <1>4, <1>5 DEF Rows

\* Marking takes away the row with the worker's id, and no other.
LEMMA MarkedRows ==
    ASSUME RetryTypeOK, IdsAreUnique, NEW w \in Worker
    PROVE  /\ Marked(w) \in Seq(FailedLog)
           /\ Rows(Marked(w)) \subseteq Rows(failed)
           /\ \A row \in Rows(failed) :
                 row.id # work[w].log => row \in Rows(Marked(w))
           /\ \A row \in Rows(Marked(w)) : row.id # work[w].log
           /\ \A j, k \in 1 .. Len(Marked(w)) :
                 Marked(w)[j].id = Marked(w)[k].id => j = k
<1>0. failed \in Seq(FailedLog) /\ Len(failed) \in Nat
  BY DEF RetryTypeOK
<1>1. CASE ~IsFailed(work[w].log)
  BY <1>0, <1>1 DEF Marked, IdsAreUnique, IsFailed
<1>2. CASE IsFailed(work[w].log)
  <2> DEFINE n == Len(failed)
             k == CHOOSE k \in 1 .. Len(failed) : failed[k].id = work[w].log
             f == [j \in 1 .. n - 1 |-> IF j < k THEN failed[j]
                                                 ELSE failed[j + 1]]
  <2>1. \E j \in 1 .. Len(failed) : failed[j].id = work[w].log
    BY <1>2 DEF IsFailed, Rows
  <2>2. k \in 1 .. n /\ failed[k].id = work[w].log
    BY <2>1
  <2>3. Marked(w) = f
    BY <1>2 DEF Marked
  <2>4. n \in Nat \ {0} /\ \A j \in 1 .. n : failed[j] \in FailedLog
    BY <1>0, <2>2
  <2> HIDE DEF k, n
  <2>5. f \in [1 .. n - 1 -> FailedLog]
    BY <2>2, <2>4
  <2>6. f \in Seq(FailedLog) /\ Len(f) = n - 1
    BY <2>4, <2>5, IsASeq
  <2>7. \A j \in 1 .. n - 1 : f[j] = failed[IF j < k THEN j ELSE j + 1]
    OBVIOUS
  <2> HIDE DEF f
  <2>8. ASSUME NEW row \in Rows(f) PROVE row \in Rows(failed)
    <3>1. PICK j \in 1 .. n - 1 : f[j] = row
      BY <2>6 DEF Rows
    <3>2. (IF j < k THEN j ELSE j + 1) \in 1 .. n
      BY <2>2, <2>4
    <3> QED BY <2>7, <3>1, <3>2 DEF Rows, n
  <2>9. ASSUME NEW row \in Rows(failed), row.id # work[w].log
        PROVE  row \in Rows(f)
    <3>1. PICK j \in 1 .. n : failed[j] = row
      BY DEF Rows, n
    <3>2. j # k
      BY <2>2, <2>9, <3>1
    <3>3. CASE j < k
      BY <2>2, <2>4, <2>6, <2>7, <3>1, <3>3 DEF Rows
    <3>4. CASE j > k
      <4>1. j - 1 \in 1 .. n - 1 /\ ~(j - 1 < k) /\ (j - 1) + 1 = j
        BY <2>2, <2>4, <3>4
      <4>2. f[j - 1] = row
        BY <2>7, <3>1, <4>1
      <4> QED BY <2>6, <4>1, <4>2 DEF Rows
    <3> QED BY <2>2, <3>2, <3>3, <3>4
  <2>10. ASSUME NEW i \in 1 .. n - 1, NEW j \in 1 .. n - 1, f[i].id = f[j].id
         PROVE  i = j
    <3> DEFINE at(x) == IF x < k THEN x ELSE x + 1
    <3>1. at(i) \in 1 .. n /\ at(j) \in 1 .. n
      BY <2>2, <2>4
    <3>2. failed[at(i)].id = failed[at(j)].id
      BY <2>7, <2>10
    <3>3. at(i) = at(j)
      BY <3>1, <3>2 DEF IdsAreUnique, n
    <3> QED BY <2>2, <2>4, <3>3
  <2>11. ASSUME NEW row \in Rows(f) PROVE row.id # work[w].log
    <3>1. PICK j \in 1 .. n - 1 : f[j] = row
      BY <2>6 DEF Rows
    <3> DEFINE m == IF j < k THEN j ELSE j + 1
    <3>2. m \in 1 .. n /\ m # k /\ failed[m] = row
      BY <2>2, <2>4, <2>7, <3>1
    <3> QED BY <2>2, <3>2 DEF IdsAreUnique, n
  <2> QED BY <2>3, <2>6, <2>8, <2>9, <2>10, <2>11
<1> QED BY <1>1, <1>2

-----------------------------------------------------------------------------
(***************************************************************************)
(* Types.                                                                  *)
(***************************************************************************)

LEMMA TypeInit == Init => RetryTypeOK
<1> SUFFICES ASSUME Init PROVE RetryTypeOK
  OBVIOUS
<1>1. failed \in Seq(FailedLog) /\ queue \in [Instance -> Seq(FailedLog)]
  BY DEF Init
<1>2. crashes \in 0 .. MaxCrashes
  BY RetryBoundsAssumption DEF Init
<1> QED BY <1>1, <1>2 DEF Init, RetryTypeOK, Entity

\* What an answer of Google leaves is well typed.
LEMMA AnsweredType ==
    ASSUME RetryTypeOK, NEW e \in Entity, NEW outcome \in Outcome,
           Answered(e, outcome)
    PROVE  /\ made' \in [Entity -> 0 .. 2] /\ unlogged' \in [Entity -> Nat]
           /\ unsure' \subseteq Entity
           /\ \A x \in Entity : /\ made[x] > 0 => made'[x] > 0
                                /\ unlogged[x] > 0 => unlogged'[x] > 0
           /\ outcome = "failed" \/ made'[e] > 0
           /\ outcome = "created" \/ unlogged'[e] > 0
<1>1. made[e] \in 0 .. 2 /\ unlogged[e] \in Nat
  BY DEF RetryTypeOK
<1>2. UpToTwo(made[e]) \in 1 .. 2
  BY <1>1 DEF UpToTwo
<1>3. made' = made \/ made' = [made EXCEPT ![e] = UpToTwo(made[e])]
  BY DEF Answered
<1>4. unlogged' = unlogged \/ unlogged' = [unlogged EXCEPT ![e] = unlogged[e] + 1]
  BY DEF Answered
<1> DEFINE u == UpToTwo(made[e])
<1> HIDE DEF u
<1>5. made' \in [Entity -> 0 .. 2] /\ unlogged' \in [Entity -> Nat]
  <2>1. made \in [Entity -> 0 .. 2] /\ u \in 0 .. 2
    BY <1>2 DEF RetryTypeOK, u
  <2>2. [made EXCEPT ![e] = u] \in [Entity -> 0 .. 2]
    BY <2>1
  <2>3. unlogged \in [Entity -> Nat] /\ unlogged[e] + 1 \in Nat
    BY <1>1 DEF RetryTypeOK
  <2>4. [unlogged EXCEPT ![e] = unlogged[e] + 1] \in [Entity -> Nat]
    BY <2>3
  <2> QED BY <1>3, <1>4, <2>1, <2>2, <2>3, <2>4 DEF u
<1>6. ASSUME NEW x \in Entity
      PROVE  /\ made[x] > 0 => made'[x] > 0
             /\ unlogged[x] > 0 => unlogged'[x] > 0
  <2>1. made[x] > 0 => made'[x] > 0
    <3>1. u > 0 /\ made \in [Entity -> 0 .. 2]
      BY <1>2 DEF RetryTypeOK, u
    <3>2. [made EXCEPT ![e] = u][x] = IF x = e THEN u ELSE made[x]
      BY <3>1
    <3> QED BY <1>3, <3>1, <3>2 DEF u
  <2>2. unlogged[x] > 0 => unlogged'[x] > 0
    <3>1. unlogged \in [Entity -> Nat]
      BY DEF RetryTypeOK
    <3>2. [unlogged EXCEPT ![e] = unlogged[e] + 1][x]
            = IF x = e THEN unlogged[e] + 1 ELSE unlogged[x]
      BY <3>1
    <3> QED BY <1>1, <1>4, <3>1, <3>2
  <2> QED BY <2>1, <2>2
<1>7. outcome = "failed" \/ made'[e] > 0
  BY <1>2 DEF Answered, RetryTypeOK
<1>8. outcome = "created" \/ unlogged'[e] > 0
  BY <1>1 DEF Answered, RetryTypeOK
<1>9. unsure' \subseteq Entity
  BY DEF Answered, RetryTypeOK
<1> QED BY <1>5, <1>6, <1>7, <1>8, <1>9

\* The steps of a worker keep the types.
LEMMA WorkType ==
    ASSUME RetryTypeOK, WorkIsApt, NEW w \in Worker, WorkStep(w)
    PROVE  RetryTypeOK'
<1> DEFINE e == work[w].entity
<1>1. CASE CheckClient(w)
  <2>1. work[w] # Idle /\ work[w] \in Work /\ e \in Client
    BY <1>1, BusyIsWork DEF CheckClient, DriveEvent
  <2>2. [work[w] EXCEPT !.pc = "create"] \in Work
    BY <2>1 DEF Work
  <2>3. work' \in [Worker -> Work \cup {Idle}]
    BY <1>1, <2>1, <2>2, AfterIsWork DEF CheckClient, RetryTypeOK
  <2>4. overlapped' \subseteq Client
    BY <1>1, <2>1 DEF CheckClient, RetryTypeOK
  <2> QED BY <1>1, <2>3, <2>4 DEF CheckClient, RetryTypeOK
<1>2. CASE StartReminder(w)
  <2>1. work[w] # Idle /\ e \in Item
    BY <1>2, BusyIsWork DEF StartReminder, DriveEvent, Entity
  <2>2. work' \in [Worker -> Work \cup {Idle}]
    BY <1>2, <2>1, AfterIsWork DEF StartReminder, RetryTypeOK
  <2>3. inserting' \in [Item -> Nat]
    BY <1>2, <2>1 DEF StartReminder, RetryTypeOK
  <2> QED BY <1>2, <2>2, <2>3 DEF StartReminder, RetryTypeOK
<1>3. CASE SaveFolder(w)
  <2>1. work[w] # Idle /\ e \in Client
    BY <1>3, BusyIsWork DEF SaveFolder, WorkIsApt
  <2>2. work' \in [Worker -> Work \cup {Idle}]
    BY <1>3, <2>1, AfterIsWork DEF SaveFolder, RetryTypeOK
  <2> QED BY <1>3, <2>1, <2>2 DEF SaveFolder, RetryTypeOK
<1>4. ASSUME NEW outcome \in Outcome, DriveAnswers(w, outcome)
      PROVE  RetryTypeOK'
  <2>1. work[w] # Idle /\ work[w] \in Work /\ e \in Entity
    BY <1>4, BusyIsWork DEF DriveAnswers
  <2>2. [work[w] EXCEPT !.pc = "save"] \in Work
    BY <2>1 DEF Work
  <2>3. work' \in [Worker -> Work \cup {Idle}]
    BY <1>4, <2>1, <2>2, AfterIsWork DEF DriveAnswers, RetryTypeOK
  <2>4. /\ made' \in [Entity -> 0 .. 2] /\ unlogged' \in [Entity -> Nat]
        /\ unsure' \subseteq Entity
    BY <1>4, <2>1, AnsweredType DEF DriveAnswers
  <2> QED BY <1>4, <2>3, <2>4 DEF DriveAnswers, RetryTypeOK
<1> QED BY <1>1, <1>2, <1>3, <1>4 DEF WorkStep

\* Taking a row in hand keeps the types.
LEMMA TakeType ==
    ASSUME RetryTypeOK, NEW r \in Retrier, NEW row \in FailedLog, Take(r, row)
    PROVE  work' \in [Worker -> Work \cup {Idle}] /\ raced' \subseteq Entity
<1>1. row.entity \in Entity /\ row.id \in LogId
  BY DEF FailedLog
<1>2. [pc |-> "check", entity |-> row.entity, log |-> row.id] \in Work
  BY <1>1 DEF Work
<1> QED BY <1>1, <1>2 DEF Take, RetryTypeOK, Worker

LEMMA TypeStep ==
    ASSUME RetryTypeOK, WorkIsApt, IdsAreUnique, [Next]_vars
    PROVE  RetryTypeOK'
<1>1. ASSUME NEW c \in Client, NEW hasFolder \in BOOLEAN,
             CreateClient(c, hasFolder)
      PROVE  RetryTypeOK'
  <2>1. [pc |-> "check", entity |-> c, log |-> NoLog] \in Work
    BY DEF Work, Entity
  <2>2. work' \in [Worker -> Work \cup {Idle}]
    BY <1>1, <2>1 DEF CreateClient, RetryTypeOK, Worker
  <2> QED BY <1>1, <2>2 DEF CreateClient, RetryTypeOK, Entity
<1>2. ASSUME NEW c \in Client, SetFolder(c)
      PROVE  RetryTypeOK'
  BY <1>2 DEF SetFolder, RetryTypeOK
<1>3. ASSUME NEW i \in Item, ScheduleItem(i)
      PROVE  RetryTypeOK'
  BY <1>3 DEF ScheduleItem, RetryTypeOK, Entity
<1>4. ASSUME NEW i \in Item, NEW outcome \in Outcome,
             CalendarAnswers(i, outcome)
      PROVE  RetryTypeOK'
  <2>1. /\ made' \in [Entity -> 0 .. 2] /\ unlogged' \in [Entity -> Nat]
        /\ unsure' \subseteq Entity
    BY <1>4, AnsweredType DEF CalendarAnswers, Entity
  <2>2. inserting' \in [Item -> Nat]
    BY <1>4 DEF CalendarAnswers, RetryTypeOK
  <2> QED BY <1>4, <2>1, <2>2 DEF CalendarAnswers, RetryTypeOK
<1>5. ASSUME NEW w \in Worker, WorkStep(w)
      PROVE  RetryTypeOK'
  BY <1>5, WorkType
<1>6. ASSUME NEW i \in Instance, CronStart(i)
      PROVE  RetryTypeOK'
  BY <1>6, NewestAreRows DEF CronStart, RetryTypeOK
<1>7. ASSUME NEW i \in Instance, CronTake(i)
      PROVE  RetryTypeOK'
  <2>1. Head(queue[i]) \in FailedLog /\ Tail(queue[i]) \in Seq(FailedLog)
    BY <1>7, RowsOfTail DEF CronTake, RetryTypeOK
  <2>2. queue' \in [Instance -> Seq(FailedLog)]
    BY <1>7, <2>1 DEF CronTake, RetryTypeOK
  <2>3. CASE Take(i, Head(queue[i]))
    BY <2>1, <2>2, <2>3, TakeType DEF Retrier, Take, RetryTypeOK
  <2>4. CASE ~Retryable(Head(queue[i]))
    BY <1>7, <2>2, <2>4 DEF CronTake, RetryTypeOK
  <2> QED BY <1>7, <2>3, <2>4 DEF CronTake
<1>8. ASSUME NEW q \in Request, RetryRequest(q)
      PROVE  RetryTypeOK'
  <2>1. PICK row \in Rows(failed) : Take(q, row)
    BY <1>8 DEF RetryRequest
  <2>2. row \in FailedLog
    BY RowsOfSeq DEF RetryTypeOK
  <2> QED BY <1>8, <2>1, <2>2, TakeType DEF Retrier, Take, RetryTypeOK,
                                          RetryRequest
<1>9. ASSUME NEW w \in Worker, Mark(w)
      PROVE  RetryTypeOK'
  BY <1>9, MarkedRows DEF Mark, RetryTypeOK
<1>10. ASSUME NEW e \in Entity, LogFailure(e)
       PROVE  RetryTypeOK'
  <2> DEFINE id == CHOOSE id \in Unused : TRUE
  <2>1. id \in LogId
    BY <1>10 DEF LogFailure, Unused
  <2>2. [id |-> id, entity |-> e] \in FailedLog
    BY <2>1 DEF FailedLog
  <2>3. failed' \in Seq(FailedLog)
    BY <1>10, <2>2, AppendProperties DEF LogFailure, RetryTypeOK
  <2>4. unlogged' \in [Entity -> Nat]
    BY <1>10 DEF LogFailure, RetryTypeOK
  <2> QED BY <1>10, <2>3, <2>4 DEF LogFailure, RetryTypeOK
<1>11. ASSUME NEW e \in Entity, Lose(e)
       PROVE  RetryTypeOK'
  <2>1. unlogged[e] > 0 => [unlogged EXCEPT ![e] = @ - 1] \in [Entity -> Nat]
    BY DEF RetryTypeOK
  <2>2. e \in Item /\ inserting[e] > 0
          => [inserting EXCEPT ![e] = @ - 1] \in [Item -> Nat]
    BY DEF RetryTypeOK
  <2>3. crashes' \in 0 .. MaxCrashes
    BY <1>11, RetryBoundsAssumption DEF Lose, RetryTypeOK
  <2> QED BY <1>11, <2>1, <2>2, <2>3 DEF Lose, RetryTypeOK
<1>12. ASSUME NEW w \in Worker, Crash(w)
       PROVE  RetryTypeOK'
  <2>1. work[w].entity \in Entity
    BY <1>12, WorkIsWork DEF Crash
  <2>2. queue' \in [Instance -> Seq(FailedLog)]
    BY <1>12 DEF Crash, RetryTypeOK
  <2>3. crashes' \in 0 .. MaxCrashes
    BY <1>12, RetryBoundsAssumption DEF Crash, RetryTypeOK
  <2> QED BY <1>12, <2>1, <2>2, <2>3 DEF Crash, RetryTypeOK
<1>13. CASE UNCHANGED vars
  BY <1>13 DEF vars, RetryTypeOK
<1> QED BY <1>1, <1>2, <1>3, <1>4, <1>5, <1>6, <1>7, <1>8, <1>9, <1>10, <1>11,
           <1>12, <1>13 DEF Next, CronStep, Worker, Retrier

-----------------------------------------------------------------------------
(***************************************************************************)
(* The invariant.                                                          *)
(***************************************************************************)

LEMMA InvInit == Init => RetryInv
<1> SUFFICES ASSUME Init PROVE RetryInv
  OBVIOUS
<1>1. \A w \in Worker : work[w] = Idle
  BY DEF Init
<1>2. Rows(failed) = {} /\ Len(failed) = 0
  BY DEF Init, Rows
<1>3. WorkIsApt
  BY <1>1 DEF WorkIsApt, Worker, Idle
<1>4. IdsAreUnique /\ QueuesAgree /\ HoldersAgree
  BY <1>2 DEF IdsAreUnique, QueuesAgree, HoldersAgree
<1>5. Kept
  BY DEF Kept, Init
<1> QED BY <1>3, <1>4, <1>5 DEF RetryInv

\* If the log, the lists, and what worker w works on stay, and nothing that
\* was done or in progress is undone, the invariant stays, provided w's own
\* entity is done or in progress afterwards.
LEMMA WorkMoves ==
    ASSUME RetryTypeOK, RetryInv, NEW w \in Worker, NEW e \in Entity,
           work[w] # Idle, work[w].entity = e,
           NEW r \in Work \cup {Idle}, work' = [work EXCEPT ![w] = r],
           r = Idle \/ (r.entity = e /\ r.log = work[w].log),
           r.pc \in {"create", "save"} => e \in Client,
           w \in Client => r.pc # "mark",
           UNCHANGED <<failed, queue, begun, stopped>>,
           linked \subseteq linked',
           \A x \in Entity : made[x] > 0 => made'[x] > 0,
           \A x \in Entity : unlogged[x] > 0 => unlogged'[x] > 0,
           \A x \in Item : inserting[x] > 0 => inserting'[x] > 0,
           Done(e)' \/ InProgress(e)'
    PROVE  RetryInv'
<1>1. work'[w] = r /\ \A v \in Worker \ {w} : work'[v] = work[v]
  BY DEF RetryTypeOK
<1>2. WorkIsApt'
  <2>1. w \in Client => e = w
    BY DEF RetryInv, WorkIsApt
  <2>2. \A v \in Client : work'[v] # Idle => work'[v].pc # "mark"
                                             /\ work'[v].entity = v
    BY <1>1, <2>1 DEF RetryInv, WorkIsApt, Worker
  <2>3. \A v \in Worker : work'[v].pc \in {"create", "save"}
                            => work'[v].entity \in Client
    BY <1>1 DEF RetryInv, WorkIsApt, Idle
  <2> QED BY <2>2, <2>3 DEF WorkIsApt
<1>3. IdsAreUnique' /\ QueuesAgree'
  BY DEF RetryInv, IdsAreUnique, QueuesAgree
<1>4. HoldersAgree'
  BY <1>1 DEF RetryInv, HoldersAgree, Worker, Rows
<1>5. ASSUME NEW x \in begun' \ stopped', x # e
      PROVE  Done(x)' \/ InProgress(x)' \/ HasLastingRow(x)'
  <2>0. x \in Entity
    BY DEF RetryTypeOK
  <2>1. CASE Done(x)
    BY <2>0, <2>1 DEF Done
  <2>2. CASE InProgress(x)
    <3>1. CASE unlogged[x] > 0
      BY <2>0, <3>1 DEF InProgress
    <3>2. CASE x \in Item /\ inserting[x] > 0
      BY <3>2 DEF InProgress
    <3>3. ASSUME NEW v \in Worker, work[v].pc \in {"check", "create", "save"},
                 work[v].entity = x
          PROVE  InProgress(x)'
      BY <1>1, <1>5, <3>3 DEF InProgress
    <3> QED BY <2>2, <3>1, <3>2, <3>3 DEF InProgress
  <2>3. ASSUME NEW row \in Rows(failed), row.entity = x,
               ~AboutToBeMarked(row.id)
        PROVE  HasLastingRow(x)'
    <3>1. row \in Rows(failed')
      OBVIOUS
    <3>2. ASSUME NEW v \in Retrier, work'[v].pc = "mark",
                 work'[v].log = row.id
          PROVE  FALSE
      <4>1. CASE v = w
        <5>1. r # Idle /\ work[w].log = row.id
          BY <1>1, <3>2, <4>1 DEF Idle
        <5> QED BY <1>5, <2>3, <4>1, <5>1 DEF RetryInv, HoldersAgree
      <4>2. CASE v # w
        BY <1>1, <2>3, <3>2, <4>2 DEF AboutToBeMarked, Worker
      <4> QED BY <4>1, <4>2
    <3> QED BY <2>3, <3>1, <3>2 DEF HasLastingRow, AboutToBeMarked
  <2>4. x \in begun \ stopped
    OBVIOUS
  <2> QED BY <2>1, <2>2, <2>3, <2>4 DEF RetryInv, Kept, HasLastingRow
<1>6. Kept'
  BY <1>5 DEF Kept
<1> QED BY <1>2, <1>3, <1>4, <1>6 DEF RetryInv

\* The steps of a worker keep the invariant.
LEMMA WorkInv ==
    ASSUME RetryTypeOK, RetryInv, NEW w \in Worker, WorkStep(w)
    PROVE  RetryInv'
<1>0. PICK e \in Entity : e = work[w].entity /\ work[w] # Idle
  BY BusyIsWork DEF WorkStep, CheckClient, StartReminder, SaveFolder,
                    DriveAnswers
<1>1. /\ After(w) \in Work \cup {Idle}
      /\ After(w) = Idle \/ (/\ After(w).entity = e
                             /\ After(w).log = work[w].log)
      /\ After(w).pc \notin {"create", "save"}
      /\ w \in Client => After(w).pc # "mark"
  <2>1. work[w] \in Work
    BY <1>0, WorkIsWork
  <2>2. LET m == [work[w] EXCEPT !.pc = "mark"]
        IN  m.pc = "mark" /\ m.entity = e /\ m.log = work[w].log
    BY <1>0, <2>1 DEF Work
  <2> QED BY <1>0, <2>2, AfterIsWork DEF After, Idle
<1>2. CASE CheckClient(w)
  <2>1. work[w] # Idle /\ work[w] \in Work /\ e \in Entity /\ e \in Client
    BY <1>0, <1>2, BusyIsWork DEF CheckClient, DriveEvent
  <2>2. CASE NeedsFolder(e)
    <3> DEFINE r == [work[w] EXCEPT !.pc = "create"]
    <3>1. r \in Work /\ r.pc = "create" /\ r.entity = e /\ r.log = work[w].log
      BY <1>0, <2>1 DEF Work
    <3>2. work' = [work EXCEPT ![w] = r] /\ work'[w] = r
      BY <1>0, <1>2, <2>1, <2>2 DEF CheckClient, RetryTypeOK
    <3>3. InProgress(e)'
      BY <1>0, <3>1, <3>2 DEF InProgress
    <3> HIDE DEF r
    <3> QED BY <1>0, <1>2, <2>1, <3>1, <3>2, <3>3, WorkMoves DEF CheckClient
  <2>3. CASE ~NeedsFolder(e)
    <3>1. work' = [work EXCEPT ![w] = After(w)]
      BY <1>0, <1>2, <2>3 DEF CheckClient
    <3>2. Done(e)'
      BY <1>0, <1>2, <2>1, <2>3 DEF CheckClient, NeedsFolder, Done
    <3> QED BY <1>0, <1>1, <1>2, <2>1, <3>1, <3>2, WorkMoves DEF CheckClient
  <2> QED BY <2>2, <2>3
<1>3. CASE StartReminder(w)
  <2>1. work[w] # Idle /\ e \in Entity /\ e \in Item
    BY <1>0, <1>3, BusyIsWork DEF StartReminder, DriveEvent, Entity
  <2>2. /\ inserting'[e] > 0
        /\ \A x \in Item : inserting[x] > 0 => inserting'[x] > 0
    BY <1>0, <1>3, <2>1 DEF StartReminder, RetryTypeOK
  <2>3. InProgress(e)'
    BY <2>1, <2>2 DEF InProgress
  <2> QED BY <1>0, <1>1, <1>3, <2>1, <2>2, <2>3,
             WorkMoves DEF StartReminder
<1>4. CASE SaveFolder(w)
  <2>1. work[w] # Idle /\ e \in Entity /\ e \in Client
    BY <1>0, <1>4, BusyIsWork DEF SaveFolder, RetryInv, WorkIsApt
  <2>2. Done(e)' /\ linked \subseteq linked'
    BY <1>0, <1>4, <2>1 DEF SaveFolder, Done
  <2> QED BY <1>0, <1>1, <1>4, <2>1, <2>2, WorkMoves DEF SaveFolder
<1>5. ASSUME NEW outcome \in Outcome, DriveAnswers(w, outcome)
      PROVE  RetryInv'
  <2>1. work[w] # Idle /\ work[w] \in Work /\ e \in Entity /\ e \in Client
    BY <1>0, <1>5, BusyIsWork DEF DriveAnswers, RetryInv, WorkIsApt
  <2>2. /\ \A x \in Entity : made[x] > 0 => made'[x] > 0
        /\ \A x \in Entity : unlogged[x] > 0 => unlogged'[x] > 0
        /\ outcome = "created" \/ unlogged'[e] > 0
    BY <1>0, <1>5, <2>1, AnsweredType DEF DriveAnswers
  <2>3. CASE outcome = "created"
    <3> DEFINE r == [work[w] EXCEPT !.pc = "save"]
    <3>1. r \in Work /\ r.pc = "save" /\ r.entity = e /\ r.log = work[w].log
      BY <1>0, <2>1 DEF Work
    <3>2. work' = [work EXCEPT ![w] = r] /\ work'[w] = r
      BY <1>5, <2>1, <2>3 DEF DriveAnswers, RetryTypeOK
    <3>3. InProgress(e)'
      BY <1>0, <3>1, <3>2 DEF InProgress
    <3> HIDE DEF r
    <3> QED BY <1>0, <1>5, <2>1, <2>2, <3>1, <3>2, <3>3, WorkMoves DEF DriveAnswers
  <2>4. CASE outcome # "created"
    <3>1. work' = [work EXCEPT ![w] = After(w)]
      BY <1>5, <2>4 DEF DriveAnswers
    <3>2. InProgress(e)'
      BY <2>2, <2>4 DEF InProgress
    <3> QED BY <1>0, <1>1, <1>5, <2>1, <2>2, <3>1, <3>2, WorkMoves DEF DriveAnswers
  <2> QED BY <2>3, <2>4
<1> QED BY <1>2, <1>3, <1>4, <1>5 DEF WorkStep

\* A row taken in hand belongs to the entity worked on from then on.
LEMMA TakeInv ==
    ASSUME RetryTypeOK, RetryInv, NEW r \in Retrier, NEW row \in FailedLog,
           work[r] = Idle, Take(r, row),
           \A other \in Rows(failed) :
               other.id = row.id => other.entity = row.entity,
           QueuesAgree'
    PROVE  RetryInv'
<1> DEFINE x == [pc |-> "check", entity |-> row.entity, log |-> row.id]
<1>1. r \in Worker /\ r \notin Client
  BY SlotsAssumption DEF Worker
<1>2. work'[r] = x /\ \A v \in Worker \ {r} : work'[v] = work[v]
  BY <1>1 DEF Take, RetryTypeOK
<1>3. UNCHANGED <<failed, begun, stopped, linked, made, unlogged, inserting>>
  BY DEF Take
<1>4. WorkIsApt'
  BY <1>1, <1>2 DEF RetryInv, WorkIsApt, Worker
<1>5. IdsAreUnique'
  BY <1>3 DEF RetryInv, IdsAreUnique
<1>6. HoldersAgree'
  <2> SUFFICES ASSUME NEW v \in Retrier, NEW o \in Rows(failed),
                      work'[v] # Idle, work'[v].log = o.id
               PROVE  work'[v].entity = o.entity
    BY <1>3 DEF HoldersAgree
  <2>1. CASE v = r
    BY <1>2, <2>1
  <2>2. CASE v # r
    BY <1>2, <2>2 DEF RetryInv, HoldersAgree, Worker
  <2> QED BY <2>1, <2>2
<1>7. Kept'
  <2> SUFFICES ASSUME NEW e \in begun \ stopped
               PROVE  Done(e)' \/ InProgress(e)' \/ HasLastingRow(e)'
    BY <1>3 DEF Kept
  <2>1. CASE Done(e)
    BY <1>3, <2>1 DEF Done
  <2>2. CASE InProgress(e)
    <3>1. ASSUME NEW v \in Worker, work[v].pc \in {"check", "create", "save"},
                 work[v].entity = e
          PROVE  InProgress(e)'
      <4>1. v # r
        BY <3>1 DEF Idle
      <4> QED BY <1>2, <3>1, <4>1 DEF InProgress
    <3> QED BY <1>3, <2>2, <3>1 DEF InProgress
  <2>3. CASE HasLastingRow(e)
    <3>1. PICK o \in Rows(failed) : o.entity = e /\ ~AboutToBeMarked(o.id)
      BY <2>3 DEF HasLastingRow
    <3>2. ~AboutToBeMarked(o.id)'
      BY <1>2, <3>1 DEF AboutToBeMarked, Worker
    <3> QED BY <1>3, <3>1, <3>2 DEF HasLastingRow
  <2> QED BY <2>1, <2>2, <2>3 DEF RetryInv, Kept
<1> QED BY <1>4, <1>5, <1>6, <1>7, QueuesAgree' DEF RetryInv

\* A step that changes no log, list or work keeps the invariant, provided it
\* keeps what it knows of the entities.
LEMMA EntityMoves ==
    ASSUME RetryTypeOK, RetryInv,
           UNCHANGED <<failed, queue, work>>,
           \A e \in begun' \ stopped' :
               \/ Done(e)' \/ InProgress(e)'
               \/ e \in begun \ stopped /\ ~Done(e) /\ ~InProgress(e)
    PROVE  RetryInv'
<1>1. WorkIsApt' /\ IdsAreUnique' /\ QueuesAgree' /\ HoldersAgree'
  BY DEF RetryInv, WorkIsApt, IdsAreUnique, QueuesAgree, HoldersAgree
<1>2. \A e \in begun' \ stopped' : HasLastingRow(e) => HasLastingRow(e)'
  BY DEF HasLastingRow, AboutToBeMarked
<1>3. Kept'
  BY <1>2 DEF RetryInv, Kept
<1> QED BY <1>1, <1>3 DEF RetryInv

\* A list that holds no row but those it held before, or rows of the log,
\* agrees with the log.
LEMMA ListsAgree ==
    ASSUME RetryTypeOK, RetryInv, NEW i \in Instance, NEW q \in Seq(FailedLog),
           queue' = [queue EXCEPT ![i] = q], UNCHANGED failed,
           Rows(q) \subseteq Rows(queue[i]) \/ Rows(q) \subseteq Rows(failed)
    PROVE  QueuesAgree'
<1> SUFFICES ASSUME NEW j \in Instance, NEW x \in Rows(queue'[j]),
                    NEW row \in Rows(failed), x.id = row.id
             PROVE  x.entity = row.entity
  BY DEF QueuesAgree
<1>1. CASE x \in Rows(queue[j])
  BY <1>1 DEF RetryInv, QueuesAgree
<1>2. CASE x \in Rows(failed)
  <2>1. PICK k \in 1 .. Len(failed) : failed[k] = x
    BY <1>2 DEF Rows
  <2>2. PICK m \in 1 .. Len(failed) : failed[m] = row
    BY DEF Rows
  <2> QED BY <2>1, <2>2 DEF RetryInv, IdsAreUnique
<1>3. x \in Rows(queue[j]) \/ x \in Rows(failed)
  BY DEF RetryTypeOK
<1> QED BY <1>1, <1>2, <1>3

\* A new client has its folder, or a worker.
LEMMA CreateInv ==
    ASSUME RetryTypeOK, RetryInv, NEW c \in Client, NEW hasFolder \in BOOLEAN,
           CreateClient(c, hasFolder)
    PROVE  RetryInv'
<1> DEFINE x == [pc |-> "check", entity |-> c, log |-> NoLog]
<1>0. c \in Worker /\ c \in Entity /\ c \notin Retrier
  BY SlotsAssumption DEF Worker, Entity
<1>1. \A v \in Worker \ {c} : work'[v] = work[v]
  BY DEF CreateClient, RetryTypeOK
<1>2. work' = work \/ work'[c] = x
  BY <1>0 DEF CreateClient, RetryTypeOK
<1>3. WorkIsApt'
  BY <1>0, <1>1, <1>2 DEF RetryInv, WorkIsApt, Worker
<1>4. IdsAreUnique' /\ QueuesAgree'
  BY DEF CreateClient, RetryInv, IdsAreUnique, QueuesAgree
<1>5. HoldersAgree'
  <2>1. \A v \in Retrier : work'[v] = work[v]
    BY <1>0, <1>1 DEF Worker
  <2> QED BY <2>1 DEF CreateClient, RetryInv, HoldersAgree
<1>6. ASSUME NEW e \in begun' \ stopped', e # c
      PROVE  Done(e)' \/ InProgress(e)' \/ HasLastingRow(e)'
  <2>1. e \in begun \ stopped
    BY <1>6 DEF CreateClient
  <2>2. Done(e) => Done(e)'
    BY DEF CreateClient, Done
  <2>3. InProgress(e) => InProgress(e)'
    <3> SUFFICES ASSUME NEW v \in Worker,
                        work[v].pc \in {"check", "create", "save"},
                        work[v].entity = e
                 PROVE  work'[v] = work[v]
      BY DEF CreateClient, InProgress
    <3>1. v # c
      BY <1>6 DEF RetryInv, WorkIsApt, Idle
    <3> QED BY <1>1, <3>1
  <2>4. HasLastingRow(e) => HasLastingRow(e)'
    BY <1>0, <1>1 DEF CreateClient, HasLastingRow, AboutToBeMarked, Worker
  <2> QED BY <2>1, <2>2, <2>3, <2>4 DEF RetryInv, Kept
<1>7. Done(c)' \/ InProgress(c)'
  <2>1. CASE hasFolder
    BY <2>1 DEF CreateClient, Done
  <2>2. CASE ~hasFolder
    <3>1. work'[c] = x
      BY <1>0, <2>2 DEF CreateClient, RetryTypeOK
    <3> QED BY <1>0, <3>1 DEF InProgress
  <2> QED BY <2>1, <2>2
<1>8. Kept'
  BY <1>6, <1>7 DEF Kept
<1> QED BY <1>3, <1>4, <1>5, <1>8 DEF RetryInv

\* A mark takes away no row that keeps an entity.
LEMMA MarkInv ==
    ASSUME RetryTypeOK, RetryInv, NEW w \in Retrier, Mark(w)
    PROVE  RetryInv'
<1>0. w \in Worker /\ w \notin Client /\ work[w] # Idle
  BY SlotsAssumption DEF Worker, Mark, Idle
<1>1. work'[w] = Idle /\ \A v \in Worker \ {w} : work'[v] = work[v]
  BY <1>0 DEF Mark, RetryTypeOK
<1>2. /\ Rows(failed') \subseteq Rows(failed)
      /\ \A row \in Rows(failed) :
            row.id # work[w].log => row \in Rows(failed')
      /\ IdsAreUnique'
  BY <1>0, MarkedRows DEF Mark, RetryInv, IdsAreUnique
<1>3. WorkIsApt'
  BY <1>1 DEF RetryInv, WorkIsApt, Worker, Idle
<1>4. QueuesAgree' /\ HoldersAgree'
  BY <1>1, <1>2 DEF Mark, RetryInv, QueuesAgree, HoldersAgree, Worker
<1>5. ASSUME NEW e \in begun \ stopped
      PROVE  Done(e)' \/ InProgress(e)' \/ HasLastingRow(e)'
  <2>1. CASE Done(e)
    BY <2>1 DEF Mark, Done
  <2>2. CASE InProgress(e)
    <3>1. ASSUME NEW v \in Worker, work[v].pc \in {"check", "create", "save"},
                 work[v].entity = e
          PROVE  InProgress(e)'
      <4>1. v # w
        BY <3>1 DEF Mark
      <4> QED BY <1>1, <3>1, <4>1 DEF InProgress
    <3> QED BY <2>2, <3>1 DEF Mark, InProgress
  <2>3. CASE HasLastingRow(e)
    <3>1. PICK o \in Rows(failed) : o.entity = e /\ ~AboutToBeMarked(o.id)
      BY <2>3 DEF HasLastingRow
    <3>2. o.id # work[w].log
      BY <3>1 DEF AboutToBeMarked, Mark
    <3>3. ~AboutToBeMarked(o.id)'
      BY <1>1, <3>1 DEF AboutToBeMarked, Worker, Idle
    <3> QED BY <1>2, <3>1, <3>2, <3>3 DEF HasLastingRow
  <2> QED BY <2>1, <2>2, <2>3 DEF RetryInv, Kept
<1>6. Kept'
  BY <1>5 DEF Kept, Mark
<1> QED BY <1>2, <1>3, <1>4, <1>6 DEF RetryInv

\* The row of a new failure has an id of its own, that no worker or list has.
LEMMA LogInv ==
    ASSUME RetryTypeOK, RetryInv, NEW x \in Entity, LogFailure(x)
    PROVE  RetryInv'
<1>0. PICK id \in Unused : failed' = Append(failed, [id |-> id, entity |-> x])
  BY DEF LogFailure
<1> DEFINE new == [id |-> id, entity |-> x]
<1>1. new \in FailedLog /\ new.id = id /\ new.entity = x
  BY <1>0 DEF FailedLog, Unused
<1>2. failed' = Append(failed, new)
  BY <1>0
<1> HIDE DEF new
<1>3. Rows(failed') = Rows(failed) \cup {new}
  BY <1>1, <1>2, RowsOfAppend DEF RetryTypeOK
<1>4. /\ \A row \in Rows(failed) : row.id # id
      /\ \A i \in Instance : \A q \in Rows(queue[i]) : q.id # id
      /\ \A v \in Retrier : work[v] # Idle => work[v].log # id
  BY <1>0 DEF Unused, IsFailed, Held
<1>5. WorkIsApt'
  BY DEF LogFailure, RetryInv, WorkIsApt
<1>6. IdsAreUnique'
  <2>1. /\ Len(failed') = Len(failed) + 1 /\ failed'[Len(failed) + 1] = new
        /\ \A k \in 1 .. Len(failed) : /\ failed'[k] = failed[k]
                                       /\ failed[k] \in Rows(failed)
        /\ Len(failed) \in Nat
    <3>1. failed \in Seq(FailedLog) /\ Len(failed) \in Nat
      BY DEF RetryTypeOK
    <3>2. \A k \in 1 .. Len(failed) : failed[k] \in Rows(failed)
      BY DEF Rows
    <3> QED BY <1>1, <1>2, <3>1, <3>2, AppendProperties
  <2> SUFFICES ASSUME NEW j \in 1 .. Len(failed'), NEW k \in 1 .. Len(failed'),
                      failed'[j].id = failed'[k].id
               PROVE  j = k
    BY DEF IdsAreUnique
  <2>2. CASE j <= Len(failed) /\ k <= Len(failed)
    BY <2>1, <2>2 DEF RetryInv, IdsAreUnique
  <2>3. CASE j = Len(failed) + 1 /\ k <= Len(failed)
    BY <1>1, <1>4, <2>1, <2>3
  <2>4. CASE j <= Len(failed) /\ k = Len(failed) + 1
    BY <1>1, <1>4, <2>1, <2>4
  <2> QED BY <2>1, <2>2, <2>3, <2>4
<1>7. QueuesAgree' /\ HoldersAgree'
  BY <1>1, <1>3, <1>4 DEF LogFailure, RetryInv, QueuesAgree, HoldersAgree
<1>8. ASSUME NEW e \in begun \ stopped
      PROVE  Done(e)' \/ InProgress(e)' \/ HasLastingRow(e)'
  <2>1. CASE e = x
    <3>1. ~AboutToBeMarked(id)'
      BY <1>4 DEF LogFailure, AboutToBeMarked, Idle
    <3> QED BY <1>1, <1>3, <2>1, <3>1 DEF HasLastingRow
  <2>2. CASE e # x
    <3>0. e \in Entity
      BY DEF RetryTypeOK
    <3>1. Done(e) => Done(e)'
      BY DEF LogFailure, Done
    <3>2. InProgress(e) => InProgress(e)'
      <4>1. unlogged'[e] = unlogged[e]
        BY <2>2, <3>0 DEF LogFailure, RetryTypeOK
      <4> QED BY <4>1 DEF LogFailure, InProgress
    <3>3. HasLastingRow(e) => HasLastingRow(e)'
      BY <1>3 DEF LogFailure, HasLastingRow, AboutToBeMarked
    <3> QED BY <3>1, <3>2, <3>3 DEF RetryInv, Kept
  <2> QED BY <2>1, <2>2
<1>9. Kept'
  BY <1>8 DEF LogFailure, Kept
<1> QED BY <1>5, <1>6, <1>7, <1>9 DEF RetryInv

\* A crash takes away what the worker was doing, and its entity is stopped.
LEMMA CrashInv ==
    ASSUME RetryTypeOK, RetryInv, NEW w \in Worker, Crash(w)
    PROVE  RetryInv'
<1>1. work'[w] = Idle /\ \A v \in Worker \ {w} : work'[v] = work[v]
  BY DEF Crash, RetryTypeOK
<1>2. \A i \in Instance : Rows(queue'[i]) \subseteq Rows(queue[i])
  BY DEF Crash, RetryTypeOK, Rows
<1>3. WorkIsApt'
  BY <1>1 DEF RetryInv, WorkIsApt, Worker, Idle
<1>4. IdsAreUnique' /\ QueuesAgree' /\ HoldersAgree'
  <2>1. failed' = failed
    BY DEF Crash
  <2>2. IdsAreUnique'
    BY <2>1 DEF RetryInv, IdsAreUnique
  <2>3. QueuesAgree'
    BY <1>2, <2>1 DEF RetryInv, QueuesAgree
  <2>4. HoldersAgree'
    BY <1>1, <2>1 DEF RetryInv, HoldersAgree, Worker
  <2> QED BY <2>2, <2>3, <2>4
<1>5. ASSUME NEW e \in begun' \ stopped'
      PROVE  Done(e)' \/ InProgress(e)' \/ HasLastingRow(e)'
  <2>1. e \in begun \ stopped /\ e # work[w].entity
    BY DEF Crash
  <2>2. Done(e) => Done(e)'
    BY DEF Crash, Done
  <2>3. InProgress(e) => InProgress(e)'
    BY <1>1, <2>1 DEF Crash, InProgress
  <2>4. HasLastingRow(e) => HasLastingRow(e)'
    BY <1>1 DEF Crash, HasLastingRow, AboutToBeMarked, Worker, Idle
  <2> QED BY <2>1, <2>2, <2>3, <2>4 DEF RetryInv, Kept
<1>6. Kept'
  BY <1>5 DEF Kept
<1> QED BY <1>3, <1>4, <1>6 DEF RetryInv

LEMMA InvStep ==
    ASSUME RetryTypeOK, RetryInv, [Next]_vars
    PROVE  RetryInv'
<1>1. ASSUME NEW c \in Client, NEW hasFolder \in BOOLEAN,
             CreateClient(c, hasFolder)
      PROVE  RetryInv'
  BY <1>1, CreateInv
<1>2. ASSUME NEW c \in Client, SetFolder(c)
      PROVE  RetryInv'
  <2>1. \A e : Done(e) => Done(e)'
    BY <1>2 DEF SetFolder, Done
  <2>2. \A e : InProgress(e) => InProgress(e)'
    BY <1>2 DEF SetFolder, InProgress
  <2>3. UNCHANGED <<failed, queue, work, begun, stopped>>
    BY <1>2 DEF SetFolder
  <2> QED BY <2>1, <2>2, <2>3, EntityMoves
<1>3. ASSUME NEW i \in Item, ScheduleItem(i)
      PROVE  RetryInv'
  <2>1. inserting'[i] > 0 /\ \A x \in Item : inserting[x] > 0 => inserting'[x] > 0
    BY <1>3 DEF ScheduleItem, RetryTypeOK
  <2>2. \A e : Done(e) => Done(e)'
    BY <1>3 DEF ScheduleItem, Done
  <2>3. /\ InProgress(i)'
        /\ \A e : InProgress(e) => InProgress(e)'
    BY <1>3, <2>1 DEF ScheduleItem, InProgress
  <2>4. /\ UNCHANGED <<failed, queue, work, stopped>>
        /\ begun' = begun \cup {i}
    BY <1>3 DEF ScheduleItem
  <2> QED BY <2>2, <2>3, <2>4, EntityMoves
<1>4. ASSUME NEW i \in Item, NEW outcome \in Outcome,
             CalendarAnswers(i, outcome)
      PROVE  RetryInv'
  <2>1. i \in Entity /\ i \notin Client /\ Answered(i, outcome)
    BY <1>4, SlotsAssumption DEF CalendarAnswers, Entity
  <2>2. /\ \A x \in Entity : /\ made[x] > 0 => made'[x] > 0
                             /\ unlogged[x] > 0 => unlogged'[x] > 0
        /\ outcome = "failed" \/ made'[i] > 0
        /\ outcome = "created" \/ unlogged'[i] > 0
    BY <2>1, AnsweredType
  <2>3. /\ UNCHANGED <<failed, queue, work, begun, stopped, linked>>
        /\ \A x \in Item \ {i} : inserting'[x] = inserting[x]
    BY <1>4 DEF CalendarAnswers, RetryTypeOK
  <2>4. Done(i)' \/ InProgress(i)'
    BY <2>1, <2>2 DEF Done, InProgress
  <2>5. ASSUME NEW e \in Entity, e # i
        PROVE  /\ Done(e) => Done(e)'
               /\ InProgress(e) => InProgress(e)'
    BY <2>2, <2>3, <2>5 DEF Done, InProgress
  <2>6. begun' \subseteq Entity
    BY <2>3 DEF RetryTypeOK
  <2> QED BY <2>3, <2>4, <2>5, <2>6, EntityMoves
<1>5. ASSUME NEW w \in Worker, WorkStep(w)
      PROVE  RetryInv'
  BY <1>5, WorkInv
<1>6. ASSUME NEW i \in Instance, CronStart(i)
      PROVE  RetryInv'
  <2>1. QueuesAgree'
    BY <1>6, NewestAreRows, ListsAgree DEF CronStart
  <2>2. WorkIsApt' /\ IdsAreUnique' /\ HoldersAgree'
    BY <1>6 DEF CronStart, RetryInv, WorkIsApt, IdsAreUnique, HoldersAgree
  <2>3. Kept'
    BY <1>6 DEF CronStart, RetryInv, Kept, Done, InProgress, HasLastingRow,
                AboutToBeMarked
  <2> QED BY <2>1, <2>2, <2>3 DEF RetryInv
<1>7. ASSUME NEW i \in Instance, CronTake(i)
      PROVE  RetryInv'
  <2> DEFINE row == Head(queue[i])
  <2>1. /\ row \in FailedLog /\ row \in Rows(queue[i])
        /\ Tail(queue[i]) \in Seq(FailedLog)
        /\ Rows(Tail(queue[i])) \subseteq Rows(queue[i])
    BY <1>7, RowsOfTail DEF CronTake, RetryTypeOK
  <2>2. QueuesAgree'
    <3>1. queue' = [queue EXCEPT ![i] = Tail(queue[i])] /\ failed' = failed
      BY <1>7 DEF CronTake, Take
    <3> QED BY <2>1, <3>1, ListsAgree
  <2>3. \A o \in Rows(failed) : o.id = row.id => o.entity = row.entity
    BY <2>1 DEF RetryInv, QueuesAgree
  <2>4. CASE Take(i, row)
    <3>1. work[i] = Idle /\ i \in Retrier
      BY <1>7 DEF CronTake, Retrier
    <3> HIDE DEF row
    <3> QED BY <2>1, <2>2, <2>3, <2>4, <3>1, TakeInv
  <2>5. CASE ~Retryable(row)
    <3>1. UNCHANGED <<begun, linked, made, failed, unlogged, inserting, work,
                      stopped>>
      BY <1>7, <2>5 DEF CronTake
    <3>2. WorkIsApt' /\ IdsAreUnique' /\ HoldersAgree'
      BY <3>1 DEF RetryInv, WorkIsApt, IdsAreUnique, HoldersAgree
    <3>3. Kept'
      BY <3>1 DEF RetryInv, Kept, Done, InProgress, HasLastingRow,
                  AboutToBeMarked
    <3> QED BY <2>2, <3>2, <3>3 DEF RetryInv
  <2> QED BY <1>7, <2>4, <2>5 DEF CronTake
<1>8. ASSUME NEW q \in Request, RetryRequest(q)
      PROVE  RetryInv'
  <2>1. PICK row \in Rows(failed) : Take(q, row)
    BY <1>8 DEF RetryRequest
  <2>2. row \in FailedLog
    BY RowsOfSeq DEF RetryTypeOK
  <2>3. work[q] = Idle /\ q \in Retrier
    BY <1>8 DEF RetryRequest, Retrier
  <2>4. \A o \in Rows(failed) : o.id = row.id => o.entity = row.entity
    BY DEF RetryInv, IdsAreUnique, Rows
  <2>5. QueuesAgree'
    BY <1>8, <2>1 DEF RetryRequest, Take, RetryInv, QueuesAgree
  <2> QED BY <2>1, <2>2, <2>3, <2>4, <2>5, TakeInv
<1>9. ASSUME NEW w \in Retrier, Mark(w)
      PROVE  RetryInv'
  BY <1>9, MarkInv
<1>10. ASSUME NEW e \in Entity, LogFailure(e)
       PROVE  RetryInv'
  BY <1>10, LogInv
<1>11. ASSUME NEW x \in Entity, Lose(x)
       PROVE  RetryInv'
  <2>1. /\ UNCHANGED <<failed, queue, work, begun, made, linked>>
        /\ stopped' = stopped \cup {x}
    BY <1>11 DEF Lose
  <2>2. ASSUME NEW e \in Entity, e # x
        PROVE  /\ Done(e) => Done(e)'
               /\ InProgress(e) => InProgress(e)'
    <3>1. /\ unlogged'[e] = unlogged[e]
          /\ e \in Item => inserting'[e] = inserting[e]
      BY <1>11, <2>2 DEF Lose, RetryTypeOK
    <3> QED BY <2>1, <3>1 DEF Done, InProgress
  <2>3. begun' \subseteq Entity
    BY <2>1 DEF RetryTypeOK
  <2> QED BY <2>1, <2>2, <2>3, EntityMoves
<1>12. ASSUME NEW w \in Worker, Crash(w)
       PROVE  RetryInv'
  BY <1>12, CrashInv
<1>13. CASE UNCHANGED vars
  <2>1. UNCHANGED <<failed, queue, work, begun, stopped, linked, made,
                    unlogged, inserting>>
    BY <1>13 DEF vars
  <2>2. \A e : (Done(e) => Done(e)') /\ (InProgress(e) => InProgress(e)')
    BY <2>1 DEF Done, InProgress
  <2> QED BY <2>1, <2>2, EntityMoves
<1> QED BY <1>1, <1>2, <1>3, <1>4, <1>5, <1>6, <1>7, <1>8, <1>9, <1>10, <1>11,
           <1>12, <1>13 DEF Next, CronStep, Worker, Retrier

-----------------------------------------------------------------------------
(***************************************************************************)
(* The theorems.                                                           *)
(***************************************************************************)

LEMMA Inductive == Spec => [](RetryTypeOK /\ RetryInv)
<1>1. Init => RetryTypeOK /\ RetryInv
  BY TypeInit, InvInit
<1>2. RetryTypeOK /\ RetryInv /\ [Next]_vars => (RetryTypeOK /\ RetryInv)'
  BY TypeStep, InvStep DEF RetryInv
<1> QED BY <1>1, <1>2, PTL DEF Spec

\* Every state of the retries is well typed: no retry works on an entity of
\* the wrong kind, however the rows are taken and marked.
THEOREM RetryTypeCorrect == Spec => []RetryTypeOK
BY Inductive, PTL

\* The rows, the lists of the ticks and the workers agree on the entity of an
\* id, and what a mark is about to take away does not keep an entity alone.
THEOREM RetryInvariant == Spec => []RetryInv
BY Inductive, PTL

\* A client without a folder and an item without a reminder are worked on or
\* have a FAILED row, unless a crash lost the work or the row: for any number
\* of ticks and requests at once, though each marks its row whatever came.
THEOREM NoFailureForgotten == Spec => []NothingForgotten
<1>1. RetryInv => NothingForgotten
  BY DEF RetryInv, Kept, HasLastingRow, NothingForgotten
<1> QED BY Inductive, <1>1, PTL

-----------------------------------------------------------------------------
(***************************************************************************)
(* Once and for all.  What an entity is waiting for is in one place: in a  *)
(* call or an insert in flight, with the worker of a new client, or in one *)
(* row that no mark is about to take away, which a retry may hold.         *)
(***************************************************************************)

Calls(e) == unlogged[e] + (IF e \in Client
                           THEN IF work[e] = Idle THEN 0 ELSE 1
                           ELSE inserting[e])

LiveRows(e) == {row \in Rows(failed) :
                   row.entity = e /\ ~AboutToBeMarked(row.id)}

\* Nothing is known of an entity that has not begun.
Unborn(e) == e \notin begun => Calls(e) = 0 /\ LiveRows(e) = {} /\ made[e] = 0

InOnePlace(e) ==
    /\ Calls(e) <= 1
    /\ Calls(e) = 1 => LiveRows(e) = {}
    /\ \A r, s \in LiveRows(e) : r = s

\* A row is FAILED for as long as a retry holds it.
RowsStay(e) == \A w \in Retrier : work[w] # Idle /\ work[w].entity = e
                                     => IsFailed(work[w].log)

\* Once an item has its reminder, nothing is left to make another.
OneReminder(i) == made[i] > 0 => /\ made[i] = 1 /\ Calls(i) = 0
                                 /\ LiveRows(i) = {}

Cared(e) == /\ Unborn(e) /\ InOnePlace(e) /\ RowsStay(e)
            /\ e \in Item \ unsure => OneReminder(e)

\* Two retries of one row have raced.
Exclusive == \A v, w \in Retrier :
    v # w /\ work[v] # Idle /\ work[w] # Idle /\ work[v].log = work[w].log
      => work[v].entity \in raced

Provisions(w, c) == work[w].pc \in {"create", "save"} /\ work[w].entity = c

OneProvisioner == \A c \in Client \ overlapped : \A v, w \in Worker :
    Provisions(v, c) /\ Provisions(w, c) => v = w

\* While a tree is being made there is none, and one that was made is linked
\* or about to be.
OneTree(c) ==
    /\ \A w \in Worker : work[w].pc = "create" /\ work[w].entity = c
                            => made[c] = 0
    /\ made[c] > 0 => \/ c \in linked
                      \/ \E w \in Worker : /\ work[w].pc = "save"
                                           /\ work[w].entity = c
    /\ made[c] <= 1

\* A client has no worker of its own before it is created.
NotYet == \A c \in Client \ begun : work[c] = Idle

OnceInv ==
    /\ Exclusive /\ OneProvisioner /\ NotYet
    /\ \A e \in Entity \ (raced \cup stopped) : Cared(e)
    /\ \A c \in Client \ (stopped \cup unsure \cup overlapped) : OneTree(c)

-----------------------------------------------------------------------------
\* The counts of an entity's calls.
LEMMA CallsType ==
    ASSUME RetryTypeOK, NEW e \in Entity
    PROVE  /\ Calls(e) \in Nat /\ unlogged[e] \in Nat /\ made[e] \in 0 .. 2
           /\ unlogged[e] <= Calls(e)
           /\ e \in Item => /\ inserting[e] \in Nat
                            /\ Calls(e) = unlogged[e] + inserting[e]
           /\ e \in Client => Calls(e) = unlogged[e]
                                         + (IF work[e] = Idle THEN 0 ELSE 1)
BY SlotsAssumption DEF Calls, RetryTypeOK, Entity

\* The row that a retry works on is a live one.
LEMMA HeldIsLive ==
    ASSUME RetryTypeOK, RetryInv, Exclusive, NEW w \in Retrier,
           work[w].pc \in {"check", "create", "save"},
           NEW e, e = work[w].entity, e \notin raced, RowsStay(e)
    PROVE  \E row \in LiveRows(e) : row.id = work[w].log
<1>1. work[w] # Idle
  BY DEF Idle
<1>2. PICK row \in Rows(failed) : row.id = work[w].log
  BY <1>1 DEF RowsStay, IsFailed
<1>3. row.entity = e
  BY <1>1, <1>2 DEF RetryInv, HoldersAgree
<1>4. ASSUME NEW v \in Retrier, work[v].pc = "mark", work[v].log = row.id
      PROVE  FALSE
  <2>1. v # w /\ work[v] # Idle
    BY <1>4 DEF Idle
  <2> QED BY <1>1, <1>2, <1>4, <2>1 DEF Exclusive
<1> QED BY <1>2, <1>3, <1>4 DEF LiveRows, AboutToBeMarked

\* An entity for which nothing new is to do stays cared for.
LEMMA CareKept ==
    ASSUME NEW e, Cared(e), Calls(e) \in Nat, Calls(e)' \in Nat,
           Calls(e)' <= Calls(e), LiveRows(e)' \subseteq LiveRows(e),
           e \in begun => e \in begun', e \in unsure => e \in unsure',
           \/ made'[e] = made[e]
           \/ e \notin Item /\ e \in begun,
           RowsStay(e)'
    PROVE  Cared(e)'
<1>1. Unborn(e)'
  BY DEF Cared, Unborn
<1>2. InOnePlace(e)'
  BY DEF Cared, InOnePlace
<1>3. e \in Item \ unsure' => OneReminder(e)'
  BY DEF Cared, OneReminder
<1> QED BY <1>1, <1>2, <1>3 DEF Cared

\* One whose last row is being marked, or that had none, may have a call.
LEMMA CareMoved ==
    ASSUME NEW e, Calls(e)' \in {0, 1}, LiveRows(e)' = {}, e \in begun',
           e \in Item \ unsure' =>
              \/ made'[e] = 0
              \/ made'[e] = 1 /\ Calls(e)' = 0,
           RowsStay(e)'
    PROVE  Cared(e)'
BY DEF Cared, Unborn, InOnePlace, OneReminder

\* What happens to a worker of another entity does not matter to e.
LEMMA OthersCared ==
    ASSUME RetryTypeOK, RetryInv, NEW e \in Entity, NEW w \in Worker, Cared(e),
           \A v \in Worker \ {w} : work'[v] = work[v],
           work[w] # Idle, work[w].entity # e,
           work'[w] = Idle \/ work'[w].entity # e,
           Rows(failed') \subseteq Rows(failed),
           \A row \in Rows(failed) : row.entity = e => row \in Rows(failed'),
           unlogged'[e] = unlogged[e],
           e \in Item => inserting'[e] = inserting[e],
           made'[e] = made[e], begun' = begun, e \in unsure => e \in unsure'
    PROVE  Cared(e)'
<1>1. e \in Client => work'[e] = work[e]
  BY DEF RetryInv, WorkIsApt, Worker
<1>2. Calls(e)' = Calls(e) /\ Calls(e) \in Nat
  BY <1>1, CallsType DEF Calls, Entity
<1>3. ASSUME NEW row \in LiveRows(e)'
      PROVE  row \in LiveRows(e)
  <2>1. row \in Rows(failed) /\ row.entity = e /\ ~AboutToBeMarked(row.id)'
    BY <1>3 DEF LiveRows
  <2>2. ASSUME NEW v \in Retrier, work[v].pc = "mark", work[v].log = row.id
        PROVE  FALSE
    <3>1. v # w
      BY <2>1, <2>2 DEF RetryInv, HoldersAgree
    <3>2. work'[v] = work[v]
      BY <3>1 DEF Worker
    <3> QED BY <2>1, <2>2, <3>2 DEF AboutToBeMarked
  <2> QED BY <2>1, <2>2 DEF LiveRows, AboutToBeMarked
<1>4. RowsStay(e)'
  <2> SUFFICES ASSUME NEW v \in Retrier, work'[v] # Idle, work'[v].entity = e
               PROVE  \E row \in Rows(failed') : row.id = work'[v].log
    BY DEF RowsStay, IsFailed
  <2>1. v # w /\ work'[v] = work[v]
    BY DEF Worker
  <2>2. PICK row \in Rows(failed) : row.id = work[v].log
    BY <2>1 DEF Cared, RowsStay, IsFailed
  <2>3. row.entity = e
    BY <2>1, <2>2 DEF RetryInv, HoldersAgree
  <2> QED BY <2>1, <2>2, <2>3
<1> QED BY <1>2, <1>3, <1>4, CareKept

\* A step that leaves workers and log alone, and e's calls, leaves e as it was.
LEMMA CareLeft ==
    ASSUME RetryTypeOK, NEW e \in Entity, Cared(e),
           UNCHANGED <<failed, work>>,
           unlogged'[e] = unlogged[e],
           e \in Item => inserting'[e] = inserting[e],
           made'[e] = made[e], e \in begun => e \in begun',
           e \in unsure => e \in unsure'
    PROVE  Cared(e)'
<1>1. Calls(e)' = Calls(e) /\ Calls(e) \in Nat
  BY CallsType DEF Calls, Entity
<1>2. LiveRows(e)' = LiveRows(e) /\ RowsStay(e)'
  BY DEF LiveRows, AboutToBeMarked, Cared, RowsStay, IsFailed
<1> QED BY <1>1, <1>2, CareKept

\* The tree of a client whom no step concerns.
LEMMA TreeKept ==
    ASSUME NEW c, OneTree(c), made'[c] = made[c],
           c \in linked => c \in linked',
           \A w \in Worker : work'[w].pc = "create" /\ work'[w].entity = c
                => work[w].pc = "create" /\ work[w].entity = c,
           \A w \in Worker : work[w].pc = "save" /\ work[w].entity = c
                => \/ c \in linked'
                   \/ work'[w].pc = "save" /\ work'[w].entity = c
    PROVE  OneTree(c)'
BY DEF OneTree

\* No step but CheckClient makes a provisioner.
LEMMA ProvisionersKept ==
    ASSUME OneProvisioner, overlapped \subseteq overlapped',
           \A w \in Worker, c \in Client : Provisions(w, c)' => Provisions(w, c)
    PROVE  OneProvisioner'
BY DEF OneProvisioner

\* No step but Take puts a row in a retry's hands.
LEMMA ExclusiveKept ==
    ASSUME Exclusive, raced \subseteq raced',
           \A v \in Retrier :
              work'[v] # Idle => /\ work[v] # Idle
                                 /\ work'[v].log = work[v].log
                                 /\ work'[v].entity = work[v].entity
    PROVE  Exclusive'
BY DEF Exclusive

\* No step but CreateClient gives a client a worker of its own.
LEMMA NotYetKept ==
    ASSUME NotYet, begun \subseteq begun',
           \A c \in Client : work'[c] # Idle => work[c] # Idle
    PROVE  NotYet'
BY DEF NotYet

\* What a worker goes on to is about the same entity and row.
LEMMA AfterKeeps ==
    ASSUME RetryTypeOK, NEW w \in Worker, work[w] # Idle
    PROVE  /\ w \in Client => After(w) = Idle
           /\ w \notin Client => /\ After(w) # Idle /\ After(w).pc = "mark"
                                 /\ After(w).entity = work[w].entity
                                 /\ After(w).log = work[w].log
           /\ After(w).pc \notin {"check", "create", "save"}
<1>1. work[w] \in Work
  BY WorkIsWork
<1> DEFINE m == [work[w] EXCEPT !.pc = "mark"]
<1>2. m.pc = "mark" /\ m.entity = work[w].entity /\ m.log = work[w].log
  BY <1>1 DEF Work
<1>3. m # Idle
  BY <1>2 DEF Idle
<1> HIDE DEF m
<1>4. After(w) = IF w \in Client THEN Idle ELSE m
  BY DEF After, m
<1> QED BY <1>2, <1>3, <1>4 DEF Idle

\* A worker that has dealt with its entity leaves no live row of it: a retry
\* is about to mark the one there was, and a new client had none.
LEMMA HandedOver ==
    ASSUME RetryTypeOK, RetryInv, Exclusive, NEW w \in Worker,
           work[w].pc \in {"check", "create", "save"},
           NEW e, e = work[w].entity, e \notin raced, Cared(e),
           work' = [work EXCEPT ![w] = After(w)], failed' = failed
    PROVE  /\ LiveRows(e)' = {} /\ RowsStay(e)' /\ e \in begun
           /\ unlogged[e] = 0
           /\ e \in Item => inserting[e] = 0
           /\ e \in Client => work'[e] = Idle
           /\ e \in Item \ unsure => made[e] = 0
<1>1. work[w] # Idle /\ e \in Entity
  BY BusyIsWork
<1>2. work'[w] = After(w) /\ \A v \in Worker \ {w} : work'[v] = work[v]
  BY DEF RetryTypeOK
<1>3. RowsStay(e)'
  <2>1. \A v \in Retrier : work'[v] # Idle => /\ work[v] # Idle
                                              /\ work'[v].log = work[v].log
                                              /\ work'[v].entity = work[v].entity
    BY <1>1, <1>2, AfterKeeps DEF Worker
  <2> QED BY <2>1 DEF Cared, RowsStay, IsFailed
<1>4. ASSUME NEW row \in LiveRows(e)'
      PROVE  row \in LiveRows(e) /\ (w \in Retrier => row.id # work[w].log)
  <2>1. row \in Rows(failed) /\ row.entity = e /\ ~AboutToBeMarked(row.id)'
    BY <1>4 DEF LiveRows
  <2>2. ASSUME NEW v \in Retrier, work[v].pc = "mark", work[v].log = row.id
        PROVE  FALSE
    <3>1. v # w
      BY <2>2
    <3>2. work'[v] = work[v]
      BY <1>2, <3>1 DEF Worker
    <3> QED BY <2>1, <2>2, <3>2 DEF AboutToBeMarked
  <2>3. w \in Retrier => row.id # work[w].log
    BY <1>1, <1>2, <2>1, AfterKeeps, SlotsAssumption DEF AboutToBeMarked
  <2> QED BY <2>1, <2>2, <2>3 DEF LiveRows, AboutToBeMarked
<1>5. CASE w \in Client
  <2>1. e = w /\ e \notin Item
    BY <1>1, <1>5, SlotsAssumption DEF RetryInv, WorkIsApt
  <2>2. Calls(e) = 1 /\ unlogged[e] = 0
    BY <1>1, <1>5, <2>1, CallsType DEF Cared, InOnePlace
  <2>3. LiveRows(e) = {} /\ e \in begun
    BY <2>2 DEF Cared, InOnePlace, Unborn
  <2> QED BY <1>1, <1>2, <1>3, <1>4, <1>5, <2>1, <2>2, <2>3, AfterKeeps
<1>6. CASE w \in Retrier
  <2>1. PICK row \in LiveRows(e) : row.id = work[w].log
    BY <1>6, HeldIsLive DEF Cared
  <2>2. Calls(e) = 0 /\ e \in begun
    BY <1>1, <2>1, CallsType DEF Cared, InOnePlace, Unborn
  <2>3. LiveRows(e)' = {}
    BY <1>4, <1>6, <2>1 DEF Cared, InOnePlace
  <2>4. e \in Item \ unsure => made[e] = 0
    <3>1. made[e] \in 0 .. 2
      BY <1>1, CallsType
    <3> QED BY <2>1, <3>1 DEF Cared, OneReminder
  <2>5. e \in Client => work'[e] = Idle
    <3>1. ASSUME e \in Client PROVE work[e] = Idle
      BY <1>1, <2>2, <3>1, CallsType
    <3>2. e \in Client => e # w
      BY <1>6, SlotsAssumption
    <3> QED BY <1>2, <3>1, <3>2 DEF Worker
  <2>6. unlogged[e] = 0 /\ (e \in Item => inserting[e] = 0)
    BY <1>1, <2>2, CallsType
  <2> QED BY <1>3, <2>2, <2>3, <2>4, <2>5, <2>6
<1> QED BY <1>5, <1>6 DEF Worker

\* A worker that goes on with its entity, a client's.
LEMMA Carries ==
    ASSUME RetryTypeOK, RetryInv, Exclusive, NEW w \in Worker,
           work[w].pc \in {"check", "create", "save"},
           NEW e, e = work[w].entity, e \notin raced, e \in Client, Cared(e),
           NEW r \in Work, work' = [work EXCEPT ![w] = r],
           r.pc # "mark", r.entity = e, r.log = work[w].log,
           UNCHANGED <<failed, begun, unlogged>>,
           unsure \subseteq unsure'
    PROVE  Cared(e)'
<1>1. work[w] # Idle /\ e \in Entity /\ r # Idle
  BY BusyIsWork DEF Idle, Work
<1>2. work'[w] = r /\ \A v \in Worker \ {w} : work'[v] = work[v]
  BY DEF RetryTypeOK
<1>3. RowsStay(e)'
  BY <1>1, <1>2 DEF Cared, RowsStay, IsFailed, Worker
<1>4. Calls(e)' = Calls(e) /\ Calls(e) \in Nat
  BY <1>1, <1>2, CallsType DEF Calls, Worker
<1>5. LiveRows(e)' \subseteq LiveRows(e)
  <2> SUFFICES ASSUME NEW v \in Retrier, work[v].pc = "mark"
               PROVE  work'[v] = work[v]
    BY DEF LiveRows, AboutToBeMarked
  <2> QED BY <1>2 DEF Worker
<1>6. e \in begun /\ e \notin Item
  <2>1. CASE w \in Client
    BY <1>1, <2>1, CallsType, SlotsAssumption
       DEF RetryInv, WorkIsApt, Cared, Unborn
  <2>2. CASE w \in Retrier
    BY <2>2, HeldIsLive, SlotsAssumption DEF Cared, Unborn
  <2> QED BY <2>1, <2>2 DEF Worker
<1> QED BY <1>3, <1>4, <1>5, <1>6, CareKept

-----------------------------------------------------------------------------
\* Only CheckClient lets a worker begin to provision.
LEMMA CheckOnce ==
    ASSUME RetryTypeOK, RetryInv, OnceInv, NEW w \in Worker, CheckClient(w)
    PROVE  OnceInv'
<1> DEFINE c == work[w].entity
           r == [work[w] EXCEPT !.pc = "create"]
<1>0. /\ work[w] # Idle /\ work[w] \in Work /\ c \in Client /\ c \in Entity
      /\ work[w].pc = "check"
  BY BusyIsWork DEF CheckClient, DriveEvent
<1>1. UNCHANGED <<begun, linked, made, failed, unlogged, inserting, stopped,
                  unsure, raced>>
  BY DEF CheckClient
<1>2. /\ r \in Work /\ r.pc = "create" /\ r.entity = c /\ r.log = work[w].log
      /\ r # Idle
  BY <1>0 DEF Work, Idle
<1>3. \/ work' = [work EXCEPT ![w] = r] /\ c \notin linked
      \/ work' = [work EXCEPT ![w] = After(w)] /\ overlapped' = overlapped
  BY DEF CheckClient, NeedsFolder
<1>4. overlapped \subseteq overlapped'
  BY DEF CheckClient
<1>5. \A v \in Worker \ {w} : work'[v] = work[v]
  BY <1>3 DEF RetryTypeOK
<1>6. Exclusive'
  <2>1. \A v \in Retrier :
           work'[v] # Idle => /\ work[v] # Idle
                              /\ work'[v].log = work[v].log
                              /\ work'[v].entity = work[v].entity
    <3>1. work'[w] = r \/ work'[w] = After(w)
      BY <1>3 DEF RetryTypeOK
    <3> HIDE DEF r
    <3> QED BY <1>0, <1>2, <1>5, <3>1, AfterKeeps DEF Worker
  <2> QED BY <1>1, <2>1, ExclusiveKept DEF OnceInv
<1>10. NotYet'
  BY <1>0, <1>1, <1>5, NotYetKept DEF OnceInv, Worker
<1>7. ASSUME NEW e \in Entity \ (raced' \cup stopped')
      PROVE  Cared(e)'
  <2>0. Cared(e) /\ e \notin raced
    BY <1>1 DEF OnceInv
  <2>1. CASE e # c
    <3>1. work'[w] = Idle \/ work'[w].entity # e
      <4>1. work'[w] = r \/ work'[w] = After(w)
        BY <1>3 DEF RetryTypeOK
      <4> HIDE DEF r
      <4> QED BY <1>0, <1>2, <2>1, <4>1, AfterKeeps
    <3> QED BY <1>0, <1>1, <1>5, <2>0, <2>1, <3>1, OthersCared
  <2>2. CASE e = c /\ work' = [work EXCEPT ![w] = r]
    <3> HIDE DEF r
    <3> QED BY <1>0, <1>1, <1>2, <2>0, <2>2, Carries DEF OnceInv
  <2>3. CASE e = c /\ work' = [work EXCEPT ![w] = After(w)]
    <3>1. /\ LiveRows(e)' = {} /\ RowsStay(e)' /\ e \in begun
          /\ unlogged[e] = 0 /\ work'[e] = Idle
      BY <1>0, <1>1, <2>0, <2>3, HandedOver DEF OnceInv
    <3>2. Calls(e)' = 0
      BY <1>0, <1>1, <2>3, <3>1 DEF Calls
    <3> QED BY <1>0, <1>1, <2>3, <3>1, <3>2, CareMoved, SlotsAssumption
  <2> QED BY <1>3, <2>1, <2>2, <2>3
<1>8. CASE work' = [work EXCEPT ![w] = After(w)] /\ overlapped' = overlapped
  <2>1. work'[w] = After(w)
    BY <1>8 DEF RetryTypeOK
  <2>2. OneProvisioner'
    <3>1. \A v \in Worker, x \in Client : Provisions(v, x)' => Provisions(v, x)
      BY <1>0, <1>5, <2>1, AfterKeeps DEF Provisions
    <3> QED BY <1>8, <3>1, ProvisionersKept DEF OnceInv
  <2>3. ASSUME NEW x \in Client \ (stopped' \cup unsure' \cup overlapped')
        PROVE  OneTree(x)'
    <3>1. OneTree(x)
      BY <1>1, <1>8 DEF OnceInv
    <3> QED BY <1>0, <1>1, <1>5, <2>1, <3>1, AfterKeeps, TreeKept
  <2> QED BY <1>6, <1>7, <1>10, <2>2, <2>3 DEF OnceInv
<1>9. CASE work' = [work EXCEPT ![w] = r] /\ c \notin linked
  <2>1. work'[w] = r
    BY <1>9 DEF RetryTypeOK
  <2> HIDE DEF r
  <2>2. c \notin overlapped'
          => \A v \in Worker \ {w} : ~Provisions(v, c)
    BY <1>9 DEF CheckClient, NeedsFolder, Provisions
  <2>3. OneProvisioner'
    <3> SUFFICES ASSUME NEW x \in Client \ overlapped', NEW u \in Worker,
                        NEW v \in Worker, Provisions(u, x)', Provisions(v, x)'
                 PROVE  u = v
      BY DEF OneProvisioner
    <3>1. \A y \in Worker \ {w} : Provisions(y, x)' => Provisions(y, x)
      BY <1>5 DEF Provisions
    <3>2. CASE x = c
      BY <2>2, <3>1, <3>2
    <3>3. CASE x # c
      <4>1. ~Provisions(w, x)'
        BY <1>2, <2>1, <3>3 DEF Provisions
      <4> QED BY <1>4, <3>1, <4>1 DEF OnceInv, OneProvisioner
    <3> QED BY <3>2, <3>3
  <2>4. ASSUME NEW x \in Client \ (stopped' \cup unsure' \cup overlapped')
        PROVE  OneTree(x)'
    <3>1. OneTree(x)
      BY <1>1, <1>4 DEF OnceInv
    <3>2. CASE x # c
      BY <1>0, <1>1, <1>2, <1>5, <2>1, <3>1, <3>2, TreeKept
    <3>3. CASE x = c
      <4>1. ~\E v \in Worker : work[v].pc = "save" /\ work[v].entity = c
        BY <1>0, <2>2, <3>3 DEF Provisions
      <4>2. made[c] = 0
        BY <1>0, <1>9, <3>1, <3>3, <4>1, CallsType DEF OneTree
      <4> QED BY <1>1, <3>3, <4>2 DEF OneTree
    <3> QED BY <3>2, <3>3
  <2> QED BY <1>6, <1>7, <1>10, <2>3, <2>4 DEF OnceInv
<1> QED BY <1>3, <1>8, <1>9

\* A worker that deals with its entity, and is not provisioning afterwards.
LEMMA DealtWith ==
    ASSUME RetryTypeOK, RetryInv, OnceInv, NEW w \in Worker,
           work[w].pc \in {"check", "create", "save"},
           work' = [work EXCEPT ![w] = After(w)],
           UNCHANGED <<begun, failed, stopped, raced, overlapped>>,
           unsure \subseteq unsure', linked \subseteq linked',
           \A e \in Entity : e # work[w].entity =>
              /\ unlogged'[e] = unlogged[e] /\ made'[e] = made[e]
              /\ e \in Item => inserting'[e] = inserting[e],
           work[w].entity \notin unsure'
              => made'[work[w].entity] = made[work[w].entity],
           work[w].pc = "save" => work[w].entity \in linked',
           work[w].entity \in Client => unlogged'[work[w].entity]
              \in {unlogged[work[w].entity], unlogged[work[w].entity] + 1},
           work[w].entity \in Item =>
              /\ unlogged'[work[w].entity] = unlogged[work[w].entity]
              /\ inserting'[work[w].entity] = inserting[work[w].entity] + 1
    PROVE  OnceInv'
<1>0. work[w] # Idle /\ work[w].entity \in Entity
  BY BusyIsWork
<1>1. work'[w] = After(w) /\ \A v \in Worker \ {w} : work'[v] = work[v]
  BY DEF RetryTypeOK
<1>2. Exclusive'
  <2>1. \A v \in Retrier :
           work'[v] # Idle => /\ work[v] # Idle
                              /\ work'[v].log = work[v].log
                              /\ work'[v].entity = work[v].entity
    BY <1>0, <1>1, AfterKeeps DEF Worker
  <2> QED BY <2>1, ExclusiveKept DEF OnceInv
<1>3. OneProvisioner'
  <2>1. \A v \in Worker, x \in Client : Provisions(v, x)' => Provisions(v, x)
    BY <1>0, <1>1, AfterKeeps DEF Provisions
  <2> QED BY <2>1, ProvisionersKept DEF OnceInv
<1>4. ASSUME NEW x \in Client \ (stopped' \cup unsure' \cup overlapped')
      PROVE  OneTree(x)'
  <2>1. OneTree(x) /\ x \in Entity
    BY DEF OnceInv, Entity
  <2>2. made'[x] = made[x]
    BY <2>1
  <2>3. \A v \in Worker : work'[v].pc = "create" /\ work'[v].entity = x
                => work[v].pc = "create" /\ work[v].entity = x
    BY <1>0, <1>1, AfterKeeps
  <2>4. \A v \in Worker : work[v].pc = "save" /\ work[v].entity = x
                => \/ x \in linked'
                   \/ work'[v].pc = "save" /\ work'[v].entity = x
    BY <1>1
  <2> QED BY <2>1, <2>2, <2>3, <2>4, TreeKept
<1>5. ASSUME NEW e \in Entity \ (raced' \cup stopped')
      PROVE  Cared(e)'
  <2>0. Cared(e) /\ e \notin raced
    BY DEF OnceInv
  <2>1. CASE e # work[w].entity
    <3>1. work'[w] = Idle \/ work'[w].entity # e
      BY <1>0, <1>1, <2>1, AfterKeeps
    <3>2. Rows(failed') = Rows(failed)
      OBVIOUS
    <3> QED BY <1>0, <1>1, <2>0, <2>1, <3>1, <3>2, OthersCared
  <2>2. CASE e = work[w].entity
    <3>1. /\ LiveRows(e)' = {} /\ RowsStay(e)' /\ e \in begun
          /\ unlogged[e] = 0
          /\ e \in Item => inserting[e] = 0
          /\ e \in Client => work'[e] = Idle
          /\ e \in Item \ unsure => made[e] = 0
      BY <2>0, <2>2, HandedOver DEF OnceInv
    <3>2. CASE e \in Client
      <4>1. Calls(e)' \in {0, 1} /\ e \notin Item
        BY <2>2, <3>1, <3>2, SlotsAssumption DEF Calls
      <4> QED BY <3>1, <4>1, CareMoved
    <3>3. CASE e \in Item
      <4>1. Calls(e)' = 1
        BY <2>2, <3>1, <3>3, SlotsAssumption DEF Calls
      <4>2. e \in Item \ unsure' => made'[e] = 0
        BY <2>2, <3>1
      <4> QED BY <3>1, <4>1, <4>2, CareMoved
    <3> QED BY <3>2, <3>3 DEF Entity
  <2> QED BY <2>1, <2>2
<1>6. NotYet'
  BY <1>0, <1>1, NotYetKept DEF OnceInv, Worker
<1> QED BY <1>2, <1>3, <1>4, <1>5, <1>6 DEF OnceInv

\* A tree that was made, with its worker about to link it.
LEMMA CreatedOnce ==
    ASSUME RetryTypeOK, RetryInv, OnceInv, NEW w \in Worker,
           DriveAnswers(w, "created")
    PROVE  OnceInv'
<1> DEFINE c == work[w].entity
           r == [work[w] EXCEPT !.pc = "save"]
<1>0. /\ work[w] # Idle /\ work[w] \in Work /\ c \in Client /\ c \in Entity
      /\ work[w].pc = "create"
  BY BusyIsWork DEF DriveAnswers, RetryInv, WorkIsApt
<1>1. UNCHANGED <<begun, linked, failed, unlogged, inserting, stopped,
                  unsure, raced, overlapped>>
  BY DEF DriveAnswers, Answered
<1>2. /\ r \in Work /\ r.pc = "save" /\ r.entity = c /\ r.log = work[w].log
      /\ r # Idle
  BY <1>0 DEF Work, Idle
<1>3. work' = [work EXCEPT ![w] = r]
  BY DEF DriveAnswers
<1>4. work'[w] = r /\ \A v \in Worker \ {w} : work'[v] = work[v]
  BY <1>3 DEF RetryTypeOK
<1>5. made' = [made EXCEPT ![c] = UpToTwo(@)]
  BY DEF DriveAnswers, Answered
<1>6. \A x \in Entity : x # c => made'[x] = made[x]
  BY <1>5 DEF RetryTypeOK
<1> HIDE DEF r
<1>7. Exclusive'
  <2>1. \A v \in Retrier :
           work'[v] # Idle => /\ work[v] # Idle
                              /\ work'[v].log = work[v].log
                              /\ work'[v].entity = work[v].entity
    BY <1>0, <1>2, <1>4 DEF Worker
  <2> QED BY <1>1, <2>1, ExclusiveKept DEF OnceInv
<1>8. OneProvisioner'
  <2>1. \A v \in Worker, x \in Client : Provisions(v, x)' => Provisions(v, x)
    BY <1>0, <1>2, <1>4 DEF Provisions
  <2> QED BY <1>1, <2>1, ProvisionersKept DEF OnceInv
<1>9. ASSUME NEW x \in Client \ (stopped' \cup unsure' \cup overlapped')
      PROVE  OneTree(x)'
  <2>1. OneTree(x) /\ x \notin overlapped /\ x \in Entity
    BY <1>1 DEF OnceInv, Entity
  <2>2. CASE x # c
    BY <1>0, <1>1, <1>2, <1>4, <1>6, <2>1, <2>2, TreeKept
  <2>3. CASE x = c
    <3>1. made[c] = 0
      BY <1>0, <2>1, <2>3 DEF OneTree
    <3>2. made'[c] = 1
      BY <1>0, <1>5, <3>1 DEF RetryTypeOK, UpToTwo
    <3>3. \A v \in Worker : ~(work'[v].pc = "create" /\ work'[v].entity = c)
      <4>1. ASSUME NEW v \in Worker, work'[v].pc = "create",
                   work'[v].entity = c
            PROVE  FALSE
        <5>1. v # w /\ work'[v] = work[v]
          BY <1>2, <1>4, <4>1
        <5>2. Provisions(v, c) /\ Provisions(w, c)
          BY <1>0, <4>1, <5>1 DEF Provisions
        <5> QED BY <2>1, <2>3, <5>1, <5>2 DEF OnceInv, OneProvisioner
      <4> QED BY <4>1
    <3> QED BY <1>2, <1>4, <2>3, <3>2, <3>3 DEF OneTree
  <2> QED BY <2>2, <2>3
<1>10. ASSUME NEW e \in Entity \ (raced' \cup stopped')
       PROVE  Cared(e)'
  <2>0. Cared(e) /\ e \notin raced
    BY <1>1 DEF OnceInv
  <2>1. CASE e # c
    BY <1>0, <1>1, <1>2, <1>4, <1>6, <2>0, <2>1, OthersCared
  <2>2. CASE e = c
    BY <1>0, <1>1, <1>2, <1>3, <2>0, <2>2, Carries DEF OnceInv
  <2> QED BY <2>1, <2>2
<1>11. NotYet'
  BY <1>0, <1>1, <1>4, NotYetKept DEF OnceInv, Worker
<1> QED BY <1>7, <1>8, <1>9, <1>10, <1>11 DEF OnceInv

\* The steps of a worker keep the invariant.
LEMMA WorkOnce ==
    ASSUME RetryTypeOK, RetryInv, OnceInv, NEW w \in Worker, WorkStep(w)
    PROVE  OnceInv'
<1>1. CASE CheckClient(w)
  BY <1>1, CheckOnce
<1>2. CASE StartReminder(w)
  <2>1. /\ work[w].entity \in Item /\ work[w].entity \notin Client
        /\ work[w].pc = "check"
    BY <1>2, BusyIsWork DEF StartReminder, DriveEvent, Entity
  <2>2. /\ work' = [work EXCEPT ![w] = After(w)]
        /\ UNCHANGED <<begun, linked, made, failed, unlogged, stopped, unsure,
                       raced, overlapped>>
    BY <1>2 DEF StartReminder
  <2>3. /\ inserting'[work[w].entity] = inserting[work[w].entity] + 1
        /\ \A e \in Item : e # work[w].entity => inserting'[e] = inserting[e]
    BY <1>2, <2>1 DEF StartReminder, RetryTypeOK
  <2> QED BY <2>1, <2>2, <2>3, DealtWith
<1>3. CASE SaveFolder(w)
  <2>1. /\ work[w].entity \in Client /\ work[w].entity \notin Item
        /\ work[w].pc = "save"
    BY <1>3, BusyIsWork, SlotsAssumption DEF SaveFolder, RetryInv, WorkIsApt
  <2>2. /\ work' = [work EXCEPT ![w] = After(w)]
        /\ linked' = linked \cup {work[w].entity}
        /\ UNCHANGED <<begun, made, failed, unlogged, inserting, stopped,
                       unsure, raced, overlapped>>
    BY <1>3 DEF SaveFolder
  <2> QED BY <2>1, <2>2, DealtWith
<1>4. ASSUME NEW outcome \in Outcome, DriveAnswers(w, outcome)
      PROVE  OnceInv'
  <2>1. /\ work[w].entity \in Client /\ work[w].entity \notin Item
        /\ work[w].pc = "create" /\ work[w].entity \in Entity
    BY <1>4, BusyIsWork, SlotsAssumption
       DEF DriveAnswers, RetryInv, WorkIsApt
  <2>2. CASE outcome = "created"
    BY <1>4, <2>2, CreatedOnce
  <2>3. CASE outcome # "created"
    <3>1. /\ work' = [work EXCEPT ![w] = After(w)]
          /\ UNCHANGED <<begun, linked, failed, inserting, stopped, raced,
                         overlapped>>
      BY <1>4, <2>3 DEF DriveAnswers
    <3>2. unlogged' = [unlogged EXCEPT ![work[w].entity] = @ + 1]
      BY <1>4, <2>3 DEF DriveAnswers, Answered
    <3>3. /\ unsure \subseteq unsure'
          /\ work[w].entity \notin unsure' => made' = made
      BY <1>4, <2>3, OutcomeAssumption DEF DriveAnswers, Answered
    <3>4. /\ unlogged'[work[w].entity] = unlogged[work[w].entity] + 1
          /\ \A e \in Entity : e # work[w].entity
                => unlogged'[e] = unlogged[e]
      BY <2>1, <3>2 DEF RetryTypeOK
    <3>5. \A e \in Entity : e # work[w].entity => made'[e] = made[e]
      BY <1>4, <2>1 DEF DriveAnswers, Answered, RetryTypeOK
    <3> QED BY <2>1, <3>1, <3>3, <3>4, <3>5, DealtWith
  <2> QED BY <2>2, <2>3
<1> QED BY <1>1, <1>2, <1>3, <1>4 DEF WorkStep

\* A row taken in hand stays, and its entity with it, unless it was taken by
\* another retry already.
LEMMA TakeOnce ==
    ASSUME RetryTypeOK, RetryInv, OnceInv, NEW r \in Retrier, work[r] = Idle,
           NEW row \in FailedLog, Take(r, row), IsFailed(row.id),
           \A o \in Rows(failed) : o.id = row.id => o.entity = row.entity
    PROVE  OnceInv'
<1> DEFINE x == [pc |-> "check", entity |-> row.entity, log |-> row.id]
<1>0. r \in Worker /\ r \notin Client
  BY SlotsAssumption DEF Worker
<1>1. work'[r] = x /\ \A v \in Worker \ {r} : work'[v] = work[v]
  BY <1>0 DEF Take, RetryTypeOK
<1>2. /\ UNCHANGED <<begun, linked, made, failed, unlogged, inserting, stopped,
                     unsure, overlapped>>
      /\ raced \subseteq raced'
      /\ Held(row.id) => row.entity \in raced'
  BY DEF Take
<1>3. x # Idle /\ x.pc = "check" /\ x.entity = row.entity /\ x.log = row.id
  BY DEF Idle
<1> HIDE DEF x
<1>4. Exclusive'
  <2> SUFFICES ASSUME NEW v \in Retrier, NEW w \in Retrier, v # w,
                      work'[v] # Idle, work'[w] # Idle,
                      work'[v].log = work'[w].log
               PROVE  work'[v].entity \in raced'
    BY DEF Exclusive
  <2>1. PICK o \in Rows(failed) : o.id = row.id
    BY DEF IsFailed
  <2>2. CASE v = r
    <3>1. work'[w] = work[w]
      BY <1>1, <2>2 DEF Worker
    <3>2. Held(row.id)
      BY <1>1, <1>3, <2>2, <3>1 DEF Held
    <3> QED BY <1>1, <1>2, <1>3, <2>2, <3>2
  <2>3. CASE w = r
    <3>1. work'[v] = work[v]
      BY <1>1, <2>3 DEF Worker
    <3>2. Held(row.id)
      BY <1>1, <1>3, <2>3, <3>1 DEF Held
    <3>3. work[v].entity = row.entity
      BY <1>1, <1>3, <2>1, <2>3, <3>1 DEF RetryInv, HoldersAgree
    <3> QED BY <1>2, <3>1, <3>2, <3>3
  <2>4. CASE v # r /\ w # r
    BY <1>1, <1>2, <2>4 DEF OnceInv, Exclusive, Worker
  <2> QED BY <2>2, <2>3, <2>4
<1>5. OneProvisioner'
  <2>1. \A v \in Worker, c \in Client : Provisions(v, c)' => Provisions(v, c)
    BY <1>1, <1>3 DEF Provisions
  <2> QED BY <1>2, <2>1, ProvisionersKept DEF OnceInv
<1>6. ASSUME NEW c \in Client \ (stopped' \cup unsure' \cup overlapped')
      PROVE  OneTree(c)'
  <2>1. OneTree(c)
    BY <1>2 DEF OnceInv
  <2>2. work[r].pc # "save"
    BY DEF Idle
  <2> QED BY <1>1, <1>2, <1>3, <2>1, <2>2, TreeKept
<1>7. ASSUME NEW e \in Entity \ (raced' \cup stopped')
      PROVE  Cared(e)'
  <2>0. Cared(e)
    BY <1>2 DEF OnceInv
  <2>1. Calls(e)' = Calls(e) /\ Calls(e) \in Nat
    <3>1. e \in Client => work'[e] = work[e]
      BY <1>0, <1>1 DEF Worker
    <3> QED BY <1>2, <3>1, CallsType DEF Calls
  <2>2. LiveRows(e)' \subseteq LiveRows(e)
    <3> SUFFICES ASSUME NEW v \in Retrier, work[v].pc = "mark"
                 PROVE  work'[v] = work[v]
      BY <1>2 DEF LiveRows, AboutToBeMarked
    <3> QED BY <1>1 DEF Worker, Idle
  <2>3. RowsStay(e)'
    BY <1>1, <1>2, <1>3, <2>0 DEF Cared, RowsStay, IsFailed, Worker
  <2> QED BY <1>2, <2>0, <2>1, <2>2, <2>3, CareKept
<1>8. NotYet'
  BY <1>0, <1>1, <1>2, NotYetKept DEF OnceInv, Worker
<1> QED BY <1>4, <1>5, <1>6, <1>7, <1>8 DEF OnceInv

\* A step of no worker that takes and marks no row.
LEMMA QuietOnce ==
    ASSUME RetryTypeOK, OnceInv, UNCHANGED <<work, raced, overlapped>>,
           \A e \in Entity \ (raced' \cup stopped') : Cared(e)'
              \/ /\ UNCHANGED <<failed, begun>>
                 /\ unlogged'[e] = unlogged[e] /\ made'[e] = made[e]
                 /\ e \in Item => inserting'[e] = inserting[e],
           stopped \subseteq stopped', unsure \subseteq unsure',
           linked \subseteq linked', begun \subseteq begun',
           \A c \in Client : made'[c] = made[c]
    PROVE  OnceInv'
<1>1. Exclusive' /\ OneProvisioner' /\ NotYet'
  BY DEF OnceInv, Exclusive, OneProvisioner, Provisions, NotYet
<1>2. ASSUME NEW c \in Client \ (stopped' \cup unsure' \cup overlapped')
      PROVE  OneTree(c)'
  <2>1. OneTree(c)
    BY DEF OnceInv
  <2> QED BY <2>1, TreeKept
<1>3. ASSUME NEW e \in Entity \ (raced' \cup stopped')
      PROVE  Cared(e)'
  <2>1. Cared(e)
    BY DEF OnceInv
  <2> QED BY <2>1, CareLeft
<1> QED BY <1>1, <1>2, <1>3 DEF OnceInv

\* A new client has one call to come, that of its own worker.
LEMMA CreateOnce ==
    ASSUME RetryTypeOK, RetryInv, OnceInv, NEW c \in Client,
           NEW hasFolder \in BOOLEAN, CreateClient(c, hasFolder)
    PROVE  OnceInv'
<1> DEFINE x == [pc |-> "check", entity |-> c, log |-> NoLog]
<1>0. c \in Worker /\ c \in Entity /\ c \notin Retrier /\ c \notin Item
  BY SlotsAssumption DEF Worker, Entity
<1>1. \A v \in Worker \ {c} : work'[v] = work[v]
  BY DEF CreateClient, RetryTypeOK
<1>2. work'[c] = work[c] \/ (work'[c] = x /\ x # Idle /\ x.pc = "check")
  BY <1>0 DEF CreateClient, RetryTypeOK, Idle
<1> HIDE DEF x
<1>3. /\ UNCHANGED <<made, failed, unlogged, inserting, stopped, unsure, raced,
                     overlapped>>
      /\ begun' = begun \cup {c} /\ linked \subseteq linked' /\ c \notin begun
  BY DEF CreateClient
<1>4. \A v \in Retrier : work'[v] = work[v]
  BY <1>0, <1>1 DEF Worker
<1>5. Exclusive'
  BY <1>3, <1>4 DEF OnceInv, Exclusive
<1>6. OneProvisioner'
  <2>1. \A v \in Worker, d \in Client : Provisions(v, d)' => Provisions(v, d)
    BY <1>1, <1>2 DEF Provisions
  <2> QED BY <1>3, <2>1, ProvisionersKept DEF OnceInv
<1>7. ASSUME NEW e \in Entity \ (raced' \cup stopped')
      PROVE  Cared(e)'
  <2>0. Cared(e)
    BY <1>3 DEF OnceInv
  <2>1. LiveRows(e)' = LiveRows(e) /\ RowsStay(e)'
    BY <1>3, <1>4, <2>0
       DEF LiveRows, AboutToBeMarked, Cared, RowsStay, IsFailed
  <2>2. CASE e # c
    <3>1. Calls(e)' = Calls(e) /\ Calls(e) \in Nat
      BY <1>1, <1>3, <2>2, CallsType DEF Calls, Worker
    <3> QED BY <1>3, <2>0, <2>1, <3>1, CareKept
  <2>3. CASE e = c
    <3>1. Calls(c) = 0 /\ LiveRows(c) = {}
      BY <1>3, <2>0, <2>3 DEF Cared, Unborn
    <3>2. unlogged[c] = 0
      BY <1>0, <3>1, CallsType
    <3>3. Calls(c)' \in {0, 1}
      BY <1>3, <3>2 DEF Calls
    <3> QED BY <1>0, <1>3, <2>1, <2>3, <3>1, <3>3, CareMoved
  <2> QED BY <2>2, <2>3
<1>8. ASSUME NEW d \in Client \ (stopped' \cup unsure' \cup overlapped')
      PROVE  OneTree(d)'
  <2>1. OneTree(d)
    BY <1>3 DEF OnceInv
  <2>2. work[c].pc # "save"
    BY <1>3 DEF OnceInv, NotYet, Idle
  <2> QED BY <1>1, <1>2, <1>3, <2>1, <2>2, TreeKept
<1>9. NotYet'
  BY <1>1, <1>3 DEF OnceInv, NotYet, Worker
<1> QED BY <1>5, <1>6, <1>7, <1>8, <1>9 DEF OnceInv

\* An item is scheduled once, and then its reminder is being inserted.
LEMMA ScheduleOnce ==
    ASSUME RetryTypeOK, OnceInv, NEW i \in Item, ScheduleItem(i)
    PROVE  OnceInv'
<1>1. /\ UNCHANGED <<linked, made, failed, unlogged, work, stopped, unsure,
                     overlapped, raced>>
      /\ begun' = begun \cup {i} /\ i \notin begun
  BY DEF ScheduleItem
<1>2. /\ inserting'[i] = inserting[i] + 1
      /\ \A e \in Item : e # i => inserting'[e] = inserting[e]
  BY DEF ScheduleItem, RetryTypeOK
<1>3. ASSUME NEW e \in Entity \ (raced' \cup stopped')
      PROVE  Cared(e)'
  <2>0. Cared(e)
    BY <1>1 DEF OnceInv
  <2>1. CASE e # i
    BY <1>1, <1>2, <2>0, <2>1, CareLeft
  <2>2. CASE e = i
    <3>1. Calls(e) = 0 /\ LiveRows(e) = {} /\ made[e] = 0
      BY <1>1, <2>0, <2>2 DEF Cared, Unborn
    <3>2. LiveRows(e)' = {} /\ RowsStay(e)'
      BY <1>1, <2>0, <3>1
         DEF LiveRows, AboutToBeMarked, Cared, RowsStay, IsFailed
    <3>3. unlogged[e] = 0 /\ inserting[e] = 0
      BY <2>2, <3>1, CallsType DEF Entity
    <3>4. Calls(e)' = 1
      BY <1>1, <1>2, <2>2, <3>3, SlotsAssumption DEF Calls
    <3> QED BY <1>1, <2>2, <3>1, <3>2, <3>4, CareMoved
  <2> QED BY <2>1, <2>2
<1> QED BY <1>1, <1>3, QuietOnce

\* An insert that ends leaves the reminder, or a row to insert.
LEMMA CalendarOnce ==
    ASSUME RetryTypeOK, OnceInv, NEW i \in Item, NEW outcome \in Outcome,
           CalendarAnswers(i, outcome)
    PROVE  OnceInv'
<1>0. i \in Entity /\ i \notin Client /\ inserting[i] > 0
  BY SlotsAssumption DEF CalendarAnswers, Entity
<1>1. /\ UNCHANGED <<linked, begun, failed, work, stopped, overlapped, raced>>
      /\ unsure \subseteq unsure'
  BY DEF CalendarAnswers, Answered
<1>2. /\ inserting'[i] = inserting[i] - 1
      /\ \A e \in Item : e # i => inserting'[e] = inserting[e]
  BY DEF CalendarAnswers, RetryTypeOK
<1>3. /\ \A e \in Entity : e # i => made'[e] = made[e]
                                    /\ unlogged'[e] = unlogged[e]
      /\ \/ /\ outcome = "created" /\ unlogged'[i] = unlogged[i]
            /\ made'[i] = UpToTwo(made[i])
         \/ /\ unlogged'[i] = unlogged[i] + 1
            /\ i \in unsure' \/ made'[i] = made[i]
  BY <1>0, OutcomeAssumption DEF CalendarAnswers, Answered, RetryTypeOK
<1>4. ASSUME NEW e \in Entity \ (raced' \cup stopped')
      PROVE  Cared(e)'
  <2>0. Cared(e)
    BY <1>1 DEF OnceInv
  <2>1. CASE e # i
    BY <1>1, <1>2, <1>3, <2>0, <2>1, CareLeft
  <2>2. CASE e = i
    <3>1. Calls(i) = 1 /\ unlogged[i] = 0 /\ inserting[i] = 1
      BY <1>0, <2>0, <2>2, CallsType DEF Cared, InOnePlace
    <3>2. LiveRows(i) = {} /\ i \in begun
      BY <2>0, <2>2, <3>1 DEF Cared, InOnePlace, Unborn
    <3>3. LiveRows(i)' = {} /\ RowsStay(i)'
      BY <1>1, <2>0, <2>2, <3>2
         DEF LiveRows, AboutToBeMarked, Cared, RowsStay, IsFailed
    <3>4. i \notin unsure => made[i] = 0
      <4>1. made[i] \in 0 .. 2
        BY <1>0, CallsType
      <4> QED BY <2>0, <2>2, <3>1, <4>1 DEF Cared, OneReminder
    <3>5. CASE outcome = "created" /\ unlogged'[i] = unlogged[i]
               /\ made'[i] = UpToTwo(made[i])
      <4>1. Calls(i)' = 0
        BY <1>0, <1>2, <3>1, <3>5 DEF Calls
      <4>2. i \notin unsure' => made'[i] = 1
        BY <1>1, <3>4, <3>5 DEF UpToTwo
      <4> QED BY <1>1, <2>2, <3>2, <3>3, <4>1, <4>2, CareMoved
    <3>6. CASE unlogged'[i] = unlogged[i] + 1
               /\ (i \in unsure' \/ made'[i] = made[i])
      <4>1. Calls(i)' = 1
        BY <1>0, <1>2, <3>1, <3>6 DEF Calls
      <4>2. i \notin unsure' => made'[i] = 0
        BY <1>1, <3>4, <3>6
      <4> QED BY <1>1, <2>2, <3>2, <3>3, <4>1, <4>2, CareMoved
    <3> QED BY <1>3, <3>5, <3>6
  <2> QED BY <2>1, <2>2
<1>5. \A c \in Client : made'[c] = made[c]
  BY <1>0, <1>3 DEF Entity
<1> QED BY <1>1, <1>4, <1>5, QuietOnce

\* The row of a failure takes the place of the insert.
LEMMA LogOnce ==
    ASSUME RetryTypeOK, RetryInv, OnceInv, NEW x \in Entity, LogFailure(x)
    PROVE  OnceInv'
<1>0. PICK id \in Unused : failed' = Append(failed, [id |-> id, entity |-> x])
  BY DEF LogFailure
<1> DEFINE new == [id |-> id, entity |-> x]
<1>1. new \in FailedLog /\ new.id = id /\ new.entity = x
  BY <1>0 DEF FailedLog, Unused
<1>2. failed' = Append(failed, new)
  BY <1>0
<1> HIDE DEF new
<1>3. Rows(failed') = Rows(failed) \cup {new}
  BY <1>1, <1>2, RowsOfAppend DEF RetryTypeOK
<1>4. UNCHANGED <<begun, linked, made, inserting, work, stopped, unsure,
                  overlapped, raced>>
  BY DEF LogFailure
<1>5. /\ unlogged[x] > 0 /\ unlogged'[x] = unlogged[x] - 1
      /\ \A e \in Entity : e # x => unlogged'[e] = unlogged[e]
  BY DEF LogFailure, RetryTypeOK
<1>6. ASSUME NEW e \in Entity \ (raced' \cup stopped')
      PROVE  Cared(e)'
  <2>0. Cared(e)
    BY <1>4 DEF OnceInv
  <2>1. RowsStay(e)'
    BY <1>3, <1>4, <2>0 DEF Cared, RowsStay, IsFailed
  <2>2. CASE e # x
    <3>1. Calls(e)' = Calls(e) /\ Calls(e) \in Nat
      BY <1>4, <1>5, <2>2, CallsType DEF Calls
    <3>2. LiveRows(e)' \subseteq LiveRows(e)
      BY <1>1, <1>3, <1>4, <2>2 DEF LiveRows, AboutToBeMarked
    <3> QED BY <1>4, <2>0, <2>1, <3>1, <3>2, CareKept
  <2>3. CASE e = x
    <3>1. Calls(x) = 1 /\ unlogged[x] = 1
      BY <1>5, <2>0, <2>3, CallsType DEF Cared, InOnePlace
    <3>2. LiveRows(x) = {} /\ x \in begun
      BY <2>0, <2>3, <3>1 DEF Cared, InOnePlace, Unborn
    <3>3. LiveRows(x)' \subseteq {new}
      BY <1>3, <1>4, <3>2 DEF LiveRows, AboutToBeMarked
    <3>4. Calls(x)' = 0
      BY <1>4, <1>5, <3>1, CallsType DEF Calls, Entity
    <3>5. x \in Item \ unsure => made[x] = 0
      <4>1. made[x] \in 0 .. 2
        BY CallsType
      <4> QED BY <2>0, <2>3, <3>1, <4>1 DEF Cared, OneReminder
    <3>6. Unborn(x)' /\ InOnePlace(x)'
      BY <1>4, <3>2, <3>3, <3>4 DEF Unborn, InOnePlace
    <3>7. x \in Item \ unsure' => OneReminder(x)'
      BY <1>4, <3>5 DEF OneReminder
    <3> QED BY <2>1, <2>3, <3>6, <3>7 DEF Cared
  <2> QED BY <2>2, <2>3
<1> QED BY <1>4, <1>6, QuietOnce

\* A mark takes away the row that its retry held, no live one.
LEMMA MarkOnce ==
    ASSUME RetryTypeOK, RetryInv, OnceInv, NEW w \in Retrier, Mark(w)
    PROVE  OnceInv'
<1>0. w \in Worker /\ w \notin Client /\ work[w] # Idle /\ work[w].pc = "mark"
  BY SlotsAssumption DEF Worker, Mark, Idle
<1>1. work'[w] = Idle /\ \A v \in Worker \ {w} : work'[v] = work[v]
  BY <1>0 DEF Mark, RetryTypeOK
<1>2. /\ Rows(failed') \subseteq Rows(failed)
      /\ \A row \in Rows(failed) :
            row.id # work[w].log => row \in Rows(failed')
      /\ \A row \in Rows(failed') : row.id # work[w].log
  BY <1>0, MarkedRows DEF Mark, RetryInv
<1>3. UNCHANGED <<begun, linked, made, unlogged, inserting, stopped, unsure,
                  overlapped, raced>>
  BY DEF Mark
<1>4. Exclusive'
  <2>1. \A v \in Retrier :
           work'[v] # Idle => /\ work[v] # Idle
                              /\ work'[v].log = work[v].log
                              /\ work'[v].entity = work[v].entity
    BY <1>1 DEF Worker
  <2> QED BY <1>3, <2>1, ExclusiveKept DEF OnceInv
<1>5. OneProvisioner'
  <2>1. \A v \in Worker, c \in Client : Provisions(v, c)' => Provisions(v, c)
    BY <1>1 DEF Provisions, Idle
  <2> QED BY <1>3, <2>1, ProvisionersKept DEF OnceInv
<1>6. NotYet'
  BY <1>1, <1>3, NotYetKept DEF OnceInv, Worker
<1>7. ASSUME NEW c \in Client \ (stopped' \cup unsure' \cup overlapped')
      PROVE  OneTree(c)'
  <2>1. OneTree(c)
    BY <1>3 DEF OnceInv
  <2>2. work'[w].pc \notin {"create", "save"}
    BY <1>1 DEF Idle
  <2> QED BY <1>0, <1>1, <1>3, <2>1, <2>2, TreeKept
<1>8. ASSUME NEW e \in Entity \ (raced' \cup stopped')
      PROVE  Cared(e)'
  <2>0. Cared(e) /\ e \notin raced
    BY <1>3 DEF OnceInv
  <2>1. CASE e # work[w].entity
    <3>1. \A row \in Rows(failed) : row.entity = e => row \in Rows(failed')
      BY <1>0, <1>2, <2>1 DEF RetryInv, HoldersAgree
    <3> QED BY <1>0, <1>1, <1>2, <1>3, <2>0, <2>1, <3>1, OthersCared
  <2>2. CASE e = work[w].entity
    <3>1. Calls(e)' = Calls(e) /\ Calls(e) \in Nat
      <4>1. e \in Client => work'[e] = work[e]
        BY <1>0, <1>1 DEF Worker
      <4> QED BY <1>3, <4>1, CallsType DEF Calls
    <3>2. LiveRows(e)' \subseteq LiveRows(e)
      <4> SUFFICES ASSUME NEW row \in Rows(failed'), NEW v \in Retrier,
                          work[v].pc = "mark", work[v].log = row.id
                   PROVE  work'[v] = work[v]
        BY <1>2 DEF LiveRows, AboutToBeMarked
      <4> QED BY <1>1, <1>2 DEF Worker
    <3>3. RowsStay(e)'
      <4> SUFFICES ASSUME NEW v \in Retrier, work'[v] # Idle,
                          work'[v].entity = e
                   PROVE  \E row \in Rows(failed') : row.id = work'[v].log
        BY DEF RowsStay, IsFailed
      <4>1. v # w /\ work'[v] = work[v]
        BY <1>1 DEF Worker
      <4>2. PICK row \in Rows(failed) : row.id = work[v].log
        BY <2>0, <4>1 DEF Cared, RowsStay, IsFailed
      <4>3. work[v].log # work[w].log
        BY <1>0, <2>0, <4>1 DEF OnceInv, Exclusive
      <4> QED BY <1>2, <4>1, <4>2, <4>3
    <3> QED BY <1>3, <2>0, <3>1, <3>2, <3>3, CareKept
  <2> QED BY <2>1, <2>2
<1> QED BY <1>4, <1>5, <1>6, <1>7, <1>8 DEF OnceInv

\* A crash of a worker stops its entity, and changes nothing for the others.
LEMMA CrashOnce ==
    ASSUME RetryTypeOK, RetryInv, OnceInv, NEW w \in Worker, Crash(w)
    PROVE  OnceInv'
<1>1. /\ work[w] # Idle /\ work'[w] = Idle
      /\ \A v \in Worker \ {w} : work'[v] = work[v]
  BY DEF Crash, RetryTypeOK
<1>2. /\ UNCHANGED <<begun, linked, made, failed, unlogged, inserting, unsure,
                     overlapped, raced>>
      /\ stopped' = stopped \cup {work[w].entity}
  BY DEF Crash
<1>3. Exclusive'
  <2>1. \A v \in Retrier :
           work'[v] # Idle => /\ work[v] # Idle
                              /\ work'[v].log = work[v].log
                              /\ work'[v].entity = work[v].entity
    BY <1>1 DEF Worker
  <2> QED BY <1>2, <2>1, ExclusiveKept DEF OnceInv
<1>4. OneProvisioner'
  <2>1. \A v \in Worker, c \in Client : Provisions(v, c)' => Provisions(v, c)
    BY <1>1 DEF Provisions, Idle
  <2> QED BY <1>2, <2>1, ProvisionersKept DEF OnceInv
<1>5. NotYet'
  BY <1>1, <1>2, NotYetKept DEF OnceInv, Worker
<1>6. ASSUME NEW c \in Client \ (stopped' \cup unsure' \cup overlapped')
      PROVE  OneTree(c)'
  <2>1. OneTree(c) /\ work[w].entity # c
    BY <1>2 DEF OnceInv
  <2>2. work'[w].pc \notin {"create", "save"}
    BY <1>1 DEF Idle
  <2> QED BY <1>1, <1>2, <2>1, <2>2, TreeKept
<1>7. ASSUME NEW e \in Entity \ (raced' \cup stopped')
      PROVE  Cared(e)'
  <2>1. Cared(e) /\ e # work[w].entity
    BY <1>2 DEF OnceInv
  <2>2. Rows(failed') = Rows(failed)
    BY <1>2
  <2> QED BY <1>1, <1>2, <2>1, <2>2, OthersCared
<1> QED BY <1>3, <1>4, <1>5, <1>6, <1>7 DEF OnceInv

\* The initial state, and every step.
LEMMA OnceInit == Init => OnceInv
<1> SUFFICES ASSUME Init PROVE OnceInv
  OBVIOUS
<1>1. \A w \in Worker : work[w] = Idle /\ work[w].pc = "idle"
  BY DEF Init, Idle
<1>2. Rows(failed) = {}
  BY DEF Init, Rows
<1>3. Exclusive /\ OneProvisioner /\ NotYet
  BY <1>1 DEF Exclusive, OneProvisioner, Provisions, NotYet, Worker, Retrier
<1>4. ASSUME NEW e \in Entity
      PROVE  Cared(e)
  <2>1. Calls(e) = 0
    BY <1>1 DEF Calls, Init, Entity, Worker
  <2>2. LiveRows(e) = {} /\ made[e] = 0 /\ RowsStay(e)
    BY <1>1, <1>2 DEF LiveRows, Init, RowsStay, Worker
  <2> QED BY <2>1, <2>2 DEF Cared, Unborn, InOnePlace, OneReminder
<1>5. ASSUME NEW c \in Client
      PROVE  OneTree(c)
  BY <1>1 DEF OneTree, Init, Entity
<1> QED BY <1>3, <1>4, <1>5 DEF OnceInv

LEMMA OnceStep ==
    ASSUME RetryTypeOK, RetryInv, OnceInv, [Next]_vars
    PROVE  OnceInv'
<1>1. ASSUME NEW c \in Client, NEW hasFolder \in BOOLEAN,
             CreateClient(c, hasFolder)
      PROVE  OnceInv'
  BY <1>1, CreateOnce
<1>2. ASSUME NEW c \in Client, SetFolder(c)
      PROVE  OnceInv'
  BY <1>2, QuietOnce DEF SetFolder
<1>3. ASSUME NEW i \in Item, ScheduleItem(i)
      PROVE  OnceInv'
  BY <1>3, ScheduleOnce
<1>4. ASSUME NEW i \in Item, NEW outcome \in Outcome,
             CalendarAnswers(i, outcome)
      PROVE  OnceInv'
  BY <1>4, CalendarOnce
<1>5. ASSUME NEW w \in Worker, WorkStep(w)
      PROVE  OnceInv'
  BY <1>5, WorkOnce
<1>6. ASSUME NEW i \in Instance, CronStart(i)
      PROVE  OnceInv'
  BY <1>6, QuietOnce DEF CronStart
<1>7. ASSUME NEW i \in Instance, CronTake(i)
      PROVE  OnceInv'
  <2> DEFINE row == Head(queue[i])
  <2>1. row \in FailedLog /\ row \in Rows(queue[i])
    BY <1>7, RowsOfTail DEF CronTake, RetryTypeOK
  <2>2. \A o \in Rows(failed) : o.id = row.id => o.entity = row.entity
    BY <2>1 DEF RetryInv, QueuesAgree
  <2>3. i \in Retrier /\ work[i] = Idle
    BY <1>7 DEF CronTake, Retrier
  <2>4. CASE Retryable(row)
    <3>1. Take(i, row) /\ IsFailed(row.id)
      BY <1>7, <2>4 DEF CronTake, Retryable
    <3> HIDE DEF row
    <3> QED BY <2>1, <2>2, <2>3, <3>1, TakeOnce
  <2>5. CASE ~Retryable(row)
    BY <1>7, <2>5, QuietOnce DEF CronTake
  <2> QED BY <2>4, <2>5
<1>8. ASSUME NEW q \in Request, RetryRequest(q)
      PROVE  OnceInv'
  <2>1. PICK row \in Rows(failed) : Take(q, row)
    BY <1>8 DEF RetryRequest
  <2>2. row \in FailedLog /\ IsFailed(row.id)
    BY RowsOfSeq DEF RetryTypeOK, IsFailed
  <2>3. work[q] = Idle /\ q \in Retrier
    BY <1>8 DEF RetryRequest, Retrier
  <2>4. \A o \in Rows(failed) : o.id = row.id => o.entity = row.entity
    BY DEF RetryInv, IdsAreUnique, Rows
  <2> QED BY <2>1, <2>2, <2>3, <2>4, TakeOnce
<1>9. ASSUME NEW w \in Retrier, Mark(w)
      PROVE  OnceInv'
  BY <1>9, MarkOnce
<1>10. ASSUME NEW e \in Entity, LogFailure(e)
       PROVE  OnceInv'
  BY <1>10, LogOnce
<1>11. ASSUME NEW x \in Entity, Lose(x)
       PROVE  OnceInv'
  <2>1. /\ UNCHANGED <<work, raced, overlapped, failed, begun, unsure, linked,
                       made>>
        /\ stopped' = stopped \cup {x}
    BY <1>11 DEF Lose
  <2>2. ASSUME NEW e \in Entity, e # x
        PROVE  /\ unlogged'[e] = unlogged[e]
               /\ e \in Item => inserting'[e] = inserting[e]
    BY <1>11, <2>2 DEF Lose, RetryTypeOK
  <2> QED BY <2>1, <2>2, QuietOnce
<1>12. ASSUME NEW w \in Worker, Crash(w)
       PROVE  OnceInv'
  BY <1>12, CrashOnce
<1>13. CASE UNCHANGED vars
  BY <1>13, QuietOnce DEF vars
<1> QED BY <1>1, <1>2, <1>3, <1>4, <1>5, <1>6, <1>7, <1>8, <1>9, <1>10, <1>11,
           <1>12, <1>13 DEF Next, CronStep, Worker, Retrier

LEMMA OnceInductive == Spec => []OnceInv
<1>1. Init => OnceInv
  BY OnceInit
<1>2. RetryTypeOK /\ RetryInv /\ OnceInv /\ [Next]_vars => OnceInv'
  BY OnceStep
<1> QED BY <1>1, <1>2, Inductive, PTL DEF Spec

\* A client gets one folder tree, unless two workers provisioned it at the
\* same time, one crashed or an answer was lost; an item gets one reminder,
\* unless two retries held its row: for any ticks, requests and failures.
THEOREM NothingMadeTwice == Spec => []MadeOnce
<1>1. RetryTypeOK /\ OnceInv => MadeOnce
  <2> SUFFICES ASSUME RetryTypeOK, OnceInv,
                      NEW e \in Entity \ (stopped \cup unsure \cup overlapped),
                      e \in Client \/ e \notin raced
               PROVE  made[e] <= 1
    BY DEF MadeOnce
  <2>1. CASE e \in Client
    BY <2>1 DEF OnceInv, OneTree
  <2>2. CASE e \in Item /\ e \notin raced
    <3>1. OneReminder(e)
      BY <2>2 DEF OnceInv, Cared
    <3> QED BY <3>1, CallsType DEF OneReminder
  <2> QED BY <2>1, <2>2 DEF Entity
<1> QED BY <1>1, Inductive, OnceInductive, PTL

\* Failures do not multiply: unless two retries of a row raced or one stopped
\* before its mark, an entity has one FAILED row that no mark is about to take
\* away, however often it is retried and fails again.
THEOREM FailuresDoNotMultiply == Spec => []OneFailureEach
<1>1. OnceInv => OneFailureEach
  <2> SUFFICES ASSUME OnceInv, NEW e \in Entity \ (raced \cup stopped)
               PROVE  Cardinality(LiveRows(e)) <= 1
    BY DEF OneFailureEach, LiveRows, AboutToBeMarked
  <2>1. \A r, s \in LiveRows(e) : r = s
    BY DEF OnceInv, Cared, InOnePlace
  <2>2. CASE LiveRows(e) = {}
    <3>1. Cardinality({}) = 0
      BY FS_EmptySet
    <3>2. Cardinality(LiveRows(e)) = 0
      BY <2>2, <3>1, Zenon
    <3> QED BY <3>2
  <2>3. CASE LiveRows(e) # {}
    <3>1. PICK r \in LiveRows(e) : LiveRows(e) = {r}
      BY <2>1, <2>3
    <3>2. Cardinality({r}) = 1
      BY FS_Singleton
    <3>3. Cardinality(LiveRows(e)) = 1
      BY <3>1, <3>2, Zenon
    <3> QED BY <3>3
  <2> QED BY <2>2, <2>3
<1> QED BY <1>1, OnceInductive, PTL
=============================================================================
