--------------------------- MODULE AutomationRetry ---------------------------
(***************************************************************************)
(* What the API does at Google in the background, and the retry of what    *)
(* failed: the folder tree of a new client in Drive, the reminder of a     *)
(* scheduled item in Calendar, the FAILED rows they leave in the           *)
(* automation log, and the retries of those rows, by a cron job in every   *)
(* instance and by POST /automation/logs/:id/retry.                        *)
(*                                                                         *)
(* No lock is taken anywhere: what keeps two runs apart is that the log is *)
(* read again before the retry, and the client before the folders.         *)
(***************************************************************************)
EXTENDS Naturals, Sequences, FiniteSets

CONSTANTS
    Client,      \* clients, who get a folder tree
    Item,        \* content items, which get a reminder
    Instance,    \* API instances, each with its cron job
    Request,     \* slots for retry requests in flight
    LogId,       \* rows of the automation log; an id is used again once the
                 \* row is SUCCEEDED and nobody holds it: a bound on the rows
    NoLog,
    Batch,       \* the rows a tick of the cron job retries, 5 in the code
    Outcome,     \* what a call to Google may do, among those below
    MaxPending,  \* bound: calls or inserts in flight for one entity
    MaxCrashes   \* bound: crashes that lose work in flight

Entity  == Client \cup Item
Retrier == Instance \cup Request
Worker  == Client \cup Retrier   \* a client: its automation after creation

(***************************************************************************)
(* created: made, and the caller learns it.  failed: not made.  lost: made,*)
(* but the caller sees an error, or its URL cannot be saved.               *)
(***************************************************************************)
ASSUME OutcomeAssumption == Outcome \subseteq {"created", "failed", "lost"}
ASSUME SlotsAssumption ==
    /\ Client \cap Item = {} /\ Client \cap Retrier = {}
    /\ Instance \cap Request = {} /\ NoLog \notin LogId
ASSUME RetryBoundsAssumption ==
    Batch \in Nat \ {0} /\ MaxPending \in Nat \ {0} /\ MaxCrashes \in Nat

VARIABLES
    begun,      \* clients that were created, items that were scheduled
    linked,     \* clients whose driveFolderUrl is set
    made,       \* Google: folder trees of a client, reminders of an item
    failed,     \* automation_logs: the FAILED rows, oldest first
    unlogged,   \* FAILED rows being inserted; nobody awaits them
    inserting,  \* reminders being inserted; nobody awaits them
    work,       \* what a worker is doing
    queue,      \* rows a tick of the cron job still has to retry
    stopped,    \* history: entities whose work or row a crash lost
    unsure,     \* history: entities of whom an answer of Google was lost
    overlapped, \* history: clients provisioned by two workers at once
    raced,      \* history: entities a row of which was retried twice at once
    crashes     \* crashes so far

vars == <<begun, linked, made, failed, unlogged, inserting, work, queue,
          stopped, unsure, overlapped, raced, crashes>>

Idle == [pc |-> "idle"]
FailedLog == [id : LogId, entity : Entity]
Work == [pc : {"check", "create", "save", "mark"}, entity : Entity,
         log : LogId \cup {NoLog}]

RetryTypeOK ==
    /\ begun \subseteq Entity /\ linked \subseteq Client
    /\ made \in [Entity -> 0 .. 2]
    /\ failed \in Seq(FailedLog)
    /\ unlogged \in [Entity -> Nat]
    /\ inserting \in [Item -> Nat]
    /\ work \in [Worker -> Work \cup {Idle}]
    /\ queue \in [Instance -> Seq(FailedLog)]
    /\ stopped \subseteq Entity /\ unsure \subseteq Entity
    /\ overlapped \subseteq Client /\ raced \subseteq Entity
    /\ crashes \in 0 .. MaxCrashes

Init ==
    /\ begun = {} /\ linked = {}
    /\ made = [e \in Entity |-> 0]
    /\ failed = <<>>
    /\ unlogged = [e \in Entity |-> 0]
    /\ inserting = [i \in Item |-> 0]
    /\ work = [w \in Worker |-> Idle]
    /\ queue = [i \in Instance |-> <<>>]
    /\ stopped = {} /\ unsure = {} /\ overlapped = {} /\ raced = {}
    /\ crashes = 0

UpToTwo(n) == IF n < 2 THEN n + 1 ELSE 2
Rows(s) == {s[k] : k \in 1 .. Len(s)}
IsFailed(id) == \E row \in Rows(failed) : row.id = id
Held(id) == \E w \in Retrier : work[w] # Idle /\ work[w].log = id
-----------------------------------------------------------------------------
(***************************************************************************)
(* The beginnings: ClientsService.create, LeadsService.convertToClient and *)
(* ContentService.schedule, each item once.                                *)
(***************************************************************************)
CreateClient(c, hasFolder) ==
    /\ c \notin begun
    /\ begun' = begun \cup {c}
    /\ IF hasFolder
       THEN linked' = linked \cup {c} /\ UNCHANGED work
       ELSE /\ work' = [work EXCEPT ![c] = [pc |-> "check", entity |-> c,
                                            log |-> NoLog]]
            /\ UNCHANGED linked
    /\ UNCHANGED <<made, failed, unlogged, inserting, queue, stopped, unsure,
                   overlapped, raced, crashes>>

ScheduleItem(i) ==
    /\ i \notin begun
    /\ begun' = begun \cup {i}
    /\ inserting' = [inserting EXCEPT ![i] = @ + 1]
    /\ UNCHANGED <<linked, made, failed, unlogged, work, queue, stopped,
                   unsure, overlapped, raced, crashes>>

\* ClientsService.update with a driveFolderUrl.
SetFolder(c) ==
    /\ c \in begun \ linked
    /\ linked' = linked \cup {c}
    /\ UNCHANGED <<begun, made, failed, unlogged, inserting, work, queue,
                   stopped, unsure, overlapped, raced, crashes>>
-----------------------------------------------------------------------------
(***************************************************************************)
(* The retries.                                                            *)
(***************************************************************************)

Taken == IF Len(failed) < Batch THEN Len(failed) ELSE Batch

\* Mutant: off by one.
NewestLess == [k \in 1 .. Taken - 1 |-> failed[Len(failed) + 1 - k]]

\* findAll('FAILED'), newest first, cut to the batch.
Newest == [k \in 1 .. Taken |-> failed[Len(failed) + 1 - k]]

\* retryFailedAutomations: the tick reads its list.
CronStart(i) ==
    /\ work[i] = Idle /\ queue[i] = <<>>
    /\ failed # <<>>
    /\ queue' = [queue EXCEPT ![i] = Newest]
    /\ UNCHANGED <<begun, linked, made, failed, unlogged, inserting, work,
                   stopped, unsure, overlapped, raced, crashes>>

\* Mutant: the row is retried whatever became of it.
RetryableAny(row) == TRUE

\* AutomationRetryService.retry reads the row again: it must be FAILED.
Retryable(row) == IsFailed(row.id)

Take(r, row) ==
    /\ work' = [work EXCEPT ![r] = [pc |-> "check", entity |-> row.entity,
                                    log |-> row.id]]
    /\ raced' = IF Held(row.id) THEN raced \cup {row.entity} ELSE raced
    /\ UNCHANGED <<begun, linked, made, failed, unlogged, inserting, stopped,
                   unsure, overlapped, crashes>>

\* The next row of the list; one that is not FAILED any more is refused.
CronTake(i) ==
    /\ work[i] = Idle /\ queue[i] # <<>>
    /\ queue' = [queue EXCEPT ![i] = Tail(@)]
    /\ IF Retryable(Head(queue[i]))
       THEN Take(i, Head(queue[i]))
       ELSE UNCHANGED <<begun, linked, made, failed, unlogged, inserting, work,
                        stopped, unsure, overlapped, raced, crashes>>

RetryRequest(q) ==
    /\ work[q] = Idle
    /\ \E row \in Rows(failed) : Take(q, row)
    /\ UNCHANGED queue

\* What a worker goes on to: a retry marks its row, the automation of a new
\* client is over.
After(w) == IF w \in Client THEN Idle ELSE [work[w] EXCEPT !.pc = "mark"]

\* Mutant: the client is not looked at again.
NeedsFolderAlways(c) == TRUE

\* Mutant: the first case of the switch takes every event.
DriveEventAlways(e) == TRUE

\* The switch on the event's name.
DriveEvent(e) == e \in Client

\* retryDriveProvisioning and provisionDriveFolder read the client.
NeedsFolder(c) == c \notin linked

CheckClient(w) ==
    /\ work[w].pc = "check" /\ DriveEvent(work[w].entity)
    /\ LET c == work[w].entity IN
       IF NeedsFolder(c)
       THEN /\ work' = [work EXCEPT ![w].pc = "create"]
            /\ overlapped' =
                 IF \E v \in Worker \ {w} : /\ work[v].pc \in {"create", "save"}
                                            /\ work[v].entity = c
                 THEN overlapped \cup {c} ELSE overlapped
       ELSE work' = [work EXCEPT ![w] = After(w)] /\ UNCHANGED overlapped
    /\ UNCHANGED <<begun, linked, made, failed, unlogged, inserting, queue,
                   stopped, unsure, raced, crashes>>

\* retryCalendarReminder: the insert is started, and not awaited.
StartReminder(w) ==
    /\ work[w].pc = "check" /\ ~DriveEvent(work[w].entity)
    /\ inserting[work[w].entity] < MaxPending
    /\ inserting' = [inserting EXCEPT ![work[w].entity] = @ + 1]
    /\ work' = [work EXCEPT ![w] = After(w)]
    /\ UNCHANGED <<begun, linked, made, failed, unlogged, queue, stopped,
                   unsure, overlapped, raced, crashes>>

\* Mutant: a failure is not logged.
AnsweredSilently(e, outcome) ==
    /\ made' = IF outcome = "failed" THEN made
                                     ELSE [made EXCEPT ![e] = UpToTwo(@)]
    /\ unsure' = IF outcome = "lost" THEN unsure \cup {e} ELSE unsure
    /\ UNCHANGED unlogged

\* What a call to Google leaves behind: the thing itself, and on an error a
\* FAILED row to insert.
Answered(e, outcome) ==
    /\ made' = IF outcome = "failed" THEN made
                                     ELSE [made EXCEPT ![e] = UpToTwo(@)]
    /\ outcome # "created" => unlogged[e] < MaxPending
    /\ unlogged' = IF outcome = "created" THEN unlogged
                                          ELSE [unlogged EXCEPT ![e] = @ + 1]
    /\ unsure' = IF outcome = "lost" THEN unsure \cup {e} ELSE unsure

\* DriveService.provisionClientFolder; its subfolders are best effort.
DriveAnswers(w, outcome) ==
    /\ work[w].pc = "create"
    /\ Answered(work[w].entity, outcome)
    /\ work' = [work EXCEPT ![w] = IF outcome = "created"
                                   THEN [@ EXCEPT !.pc = "save"] ELSE After(w)]
    /\ UNCHANGED <<begun, linked, failed, inserting, queue, stopped,
                   overlapped, raced, crashes>>

\* updateDriveFolder.
SaveFolder(w) ==
    /\ work[w].pc = "save"
    /\ linked' = linked \cup {work[w].entity}
    /\ work' = [work EXCEPT ![w] = After(w)]
    /\ UNCHANGED <<begun, made, failed, unlogged, inserting, queue, stopped,
                   unsure, overlapped, raced, crashes>>

\* CalendarService.createPublishReminder, and what follows it.
CalendarAnswers(i, outcome) ==
    /\ inserting[i] > 0
    /\ Answered(i, outcome)
    /\ inserting' = [inserting EXCEPT ![i] = @ - 1]
    /\ UNCHANGED <<begun, linked, failed, work, queue, stopped, overlapped,
                   raced, crashes>>

\* The insert of AutomationService.logEvent, for an automation that failed.
Unused == {id \in LogId : /\ ~IsFailed(id) /\ ~Held(id)
                          /\ \A i \in Instance : \A row \in Rows(queue[i]) :
                                row.id # id}
LogFailure(e) ==
    /\ unlogged[e] > 0 /\ Unused # {}
    /\ unlogged' = [unlogged EXCEPT ![e] = @ - 1]
    /\ failed' = Append(failed, [id |-> CHOOSE id \in Unused : TRUE,
                                 entity |-> e])
    /\ UNCHANGED <<begun, linked, made, inserting, work, queue, stopped,
                   unsure, overlapped, raced, crashes>>

\* Mutant: every row of the entity is marked.
MarkedAll(w) == SelectSeq(failed, LAMBDA row : row.entity # work[w].entity)

\* The FAILED rows without the one that worker w holds, if it is there still.
Marked(w) ==
    IF IsFailed(work[w].log)
    THEN LET k == CHOOSE k \in 1 .. Len(failed) : failed[k].id = work[w].log
         IN  [j \in 1 .. Len(failed) - 1 |->
                IF j < k THEN failed[j] ELSE failed[j + 1]]
    ELSE failed

\* markSucceeded, whatever the retry came to.
Mark(w) ==
    /\ work[w].pc = "mark"
    /\ failed' = Marked(w)
    /\ work' = [work EXCEPT ![w] = Idle]
    /\ UNCHANGED <<begun, linked, made, unlogged, inserting, queue, stopped,
                   unsure, overlapped, raced, crashes>>

(***************************************************************************)
(* A process stops: a worker's, or one with a call or an insert in flight  *)
(* that nobody awaits.                                                     *)
(***************************************************************************)
Crash(w) ==
    /\ work[w] # Idle /\ crashes < MaxCrashes
    /\ crashes' = crashes + 1
    /\ stopped' = stopped \cup {work[w].entity}
    /\ work' = [work EXCEPT ![w] = Idle]
    /\ queue' = IF w \in Instance THEN [queue EXCEPT ![w] = <<>>] ELSE queue
    /\ UNCHANGED <<begun, linked, made, failed, unlogged, inserting, unsure,
                   overlapped, raced>>

Lose(e) ==
    /\ crashes < MaxCrashes
    /\ \/ /\ unlogged[e] > 0
          /\ unlogged' = [unlogged EXCEPT ![e] = @ - 1]
          /\ UNCHANGED inserting
       \/ /\ e \in Item /\ inserting[e] > 0
          /\ inserting' = [inserting EXCEPT ![e] = @ - 1]
          /\ UNCHANGED unlogged
    /\ crashes' = crashes + 1
    /\ stopped' = stopped \cup {e}
    /\ UNCHANGED <<begun, linked, made, failed, work, queue, unsure,
                   overlapped, raced>>

WorkStep(w) ==
    \/ CheckClient(w) \/ StartReminder(w) \/ SaveFolder(w)
    \/ \E outcome \in Outcome : DriveAnswers(w, outcome)

CronStep(i) == CronStart(i) \/ CronTake(i) \/ WorkStep(i) \/ Mark(i)

Next ==
    \/ \E c \in Client, hasFolder \in BOOLEAN : CreateClient(c, hasFolder)
    \/ \E c \in Client : SetFolder(c) \/ WorkStep(c)
    \/ \E i \in Item : ScheduleItem(i)
    \/ \E i \in Item, outcome \in Outcome : CalendarAnswers(i, outcome)
    \/ \E i \in Instance : CronStep(i)
    \/ \E q \in Request : RetryRequest(q) \/ WorkStep(q) \/ Mark(q)
    \/ \E e \in Entity : LogFailure(e) \/ Lose(e)
    \/ \E w \in Worker : Crash(w)

Spec == Init /\ [][Next]_vars

(***************************************************************************)
(* The cron job ticks every ten minutes, and the calls it awaits, as well  *)
(* as the inserts that nobody awaits, end.  No request is ever forced.     *)
(***************************************************************************)
CalendarEnds(i) == \E outcome \in Outcome : CalendarAnswers(i, outcome)

FairSpec ==
    /\ Spec
    /\ \A i \in Instance : WF_vars(CronStep(i))
    /\ \A i \in Item : WF_vars(CalendarEnds(i))
    /\ \A e \in Entity : WF_vars(LogFailure(e))
-----------------------------------------------------------------------------
(***************************************************************************)
(* Nothing is forgotten: a client without a folder, or a scheduled item    *)
(* without a reminder, is being worked on or has a FAILED row that a retry *)
(* will find, though a retry marks its row SUCCEEDED whatever it came to.  *)
(* A crash is the only exception.                                          *)
(***************************************************************************)
Done(e) == IF e \in Client THEN e \in linked ELSE made[e] > 0

InProgress(e) ==
    \/ unlogged[e] > 0
    \/ e \in Item /\ inserting[e] > 0
    \/ \E w \in Worker : work[w].pc \in {"check", "create", "save"}
                         /\ work[w].entity = e

NothingForgotten ==
    \A e \in begun \ stopped :
        Done(e) \/ InProgress(e) \/ \E row \in Rows(failed) : row.entity = e

(***************************************************************************)
(* NothingForgotten is not inductive: the row that keeps an entity could   *)
(* be the next to be marked.  RetryInv says that another one, or a call in *)
(* flight, does then, and that ids name one row each, so that a mark takes *)
(* away the row of the entity that was retried and no other.               *)
(***************************************************************************)
AboutToBeMarked(id) ==
    \E w \in Retrier : work[w].pc = "mark" /\ work[w].log = id

HasLastingRow(e) ==
    \E row \in Rows(failed) : row.entity = e /\ ~AboutToBeMarked(row.id)

Kept == \A e \in begun \ stopped :
            Done(e) \/ InProgress(e) \/ HasLastingRow(e)

IdsAreUnique == \A j, k \in 1 .. Len(failed) :
                    failed[j].id = failed[k].id => j = k

QueuesAgree == \A i \in Instance : \A q \in Rows(queue[i]), row \in Rows(failed) :
                   q.id = row.id => q.entity = row.entity

HoldersAgree == \A w \in Retrier, row \in Rows(failed) :
                    work[w] # Idle /\ work[w].log = row.id
                      => work[w].entity = row.entity

WorkIsApt ==
    /\ \A c \in Client : work[c] # Idle => work[c].pc # "mark"
                                          /\ work[c].entity = c
    /\ \A w \in Worker : work[w].pc \in {"create", "save"}
                            => work[w].entity \in Client

RetryInv == /\ WorkIsApt /\ IdsAreUnique /\ QueuesAgree /\ HoldersAgree
            /\ Kept

(***************************************************************************)
(* A client gets one folder tree, however many retries of it there are,    *)
(* unless two of them worked at the same time, one crashed, or an answer   *)
(* was lost; an item gets one reminder unless two retries held its row.    *)
(***************************************************************************)
MadeOnce ==
    \A e \in Entity \ (stopped \cup unsure \cup overlapped) :
        e \in Client \/ e \notin raced => made[e] <= 1

(***************************************************************************)
(* Failures do not multiply: an entity has one FAILED row at a time, not   *)
(* counting a row whose retry is over and about to be marked, unless two   *)
(* retries of one row ran at the same time or one stopped before its mark. *)
(***************************************************************************)
OneFailureEach ==
    \A e \in Entity \ (raced \cup stopped) :
        Cardinality({row \in Rows(failed) :
            /\ row.entity = e
            /\ ~\E w \in Retrier : work[w].pc = "mark" /\ work[w].log = row.id})
        <= 1

(***************************************************************************)
(* No failure waits for ever: every FAILED row of an entity is retried and *)
(* marked, though the cron job takes the newest rows first and every retry *)
(* that fails leaves a newer one.  It is so while fewer others than the    *)
(* batch holds keep failing, however often they do, and the entity itself  *)
(* too; with as many as that, a row behind theirs is never reached.        *)
(***************************************************************************)
FailsNoMore(others) == <>[][\A e \in others : unlogged'[e] <= unlogged[e]]_vars

EveryFailureIsRetried ==
    \A e \in Entity : \A id \in LogId :
        LET Waits == \E row \in Rows(failed) : row.entity = e /\ row.id = id IN
        (\E F \in SUBSET (Entity \ {e}) :
            Cardinality(F) < Batch /\ FailsNoMore(Entity \ (F \cup {e})))
          => (Waits ~> ~Waits)

(***************************************************************************)
(* What the comment on the retry says of it, that only idempotent          *)
(* automations are retried: of a client's folder tree there is never a     *)
(* second, of a reminder neither.                                          *)
(***************************************************************************)
RetryIsIdempotent == \A e \in Entity : made[e] <= 1
=============================================================================
