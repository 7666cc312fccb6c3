-------------------------- MODULE InsightsIngestion --------------------------
(***************************************************************************)
(* MetaInsightsIngestionService: the hourly sweep of every instance of the *)
(* API that reads the metrics of the posts of the last days from Meta and  *)
(* adds a row of analytics for each, under an advisory lock of its own.    *)
(* Times are ages, as in Reminders.                                        *)
(***************************************************************************)
EXTENDS Naturals

CONSTANTS
    Server,             \* instances of the API
    Post,               \* content_items, and what was published of them
    Refresh,            \* REFRESH_INTERVAL_HOURS
    Lookback,           \* LOOKBACK_DAYS
    MaxLost,            \* bound: crashes and lost lock connections
    NoServer,
    NotYet              \* the age of what has not happened

ASSUME InsightsAssumption ==
    /\ NoServer \notin Server /\ NotYet \notin Nat
    /\ Refresh \in Nat \ {0} /\ Lookback \in Nat \ {0} /\ MaxLost \in Nat

VARIABLES
    insightsLock,   \* who holds INSIGHTS_SWEEP_LOCK_KEY
    publishedAt,    \* its age, of each item PUBLISHED at most Lookback ago
    capturedAt,     \* the age of the newest row of analytics, or NotYet
    ingestion,      \* the sweep of each instance
    ingestedAt,     \* history: the age of the last row a sweep added, or NotYet
    lockLost,       \* history: a sweep went on without its lock
    losses
insightsVars == <<insightsLock, publishedAt, capturedAt, ingestion, ingestedAt,
                  lockLost, losses>>

\* A sweep: what it does next, and the items it has still to fetch.
IngestionRow == [at : {"idle", "since", "recent", "fetch"}, left : SUBSET Post]
IdleIngestion == [at |-> "idle", left |-> {}]

InsightsTypeOK ==
    /\ insightsLock \in Server \cup {NoServer}
    /\ publishedAt \in [Post -> (0 .. Lookback) \cup {NotYet}]
    /\ capturedAt \in [Post -> (0 .. Refresh) \cup {NotYet}]
    /\ ingestion \in [Server -> IngestionRow]
    /\ \A i \in Server : ingestion[i].at # "idle" => lockLost \/ insightsLock = i
    /\ ingestedAt \in [Post -> (0 .. Refresh) \cup {NotYet}]
    /\ lockLost \in BOOLEAN /\ losses \in 0 .. MaxLost

InsightsInit ==
    /\ insightsLock = NoServer
    /\ publishedAt = [c \in Post |-> NotYet]
    /\ capturedAt = [c \in Post |-> NotYet]
    /\ ingestion = [i \in Server |-> IdleIngestion]
    /\ ingestedAt = [c \in Post |-> NotYet]
    /\ lockLost = FALSE /\ losses = 0
-----------------------------------------------------------------------------
Aged(ages, cap) ==
    [c \in Post |-> IF ages[c] = NotYet \/ ages[c] = cap THEN ages[c] ELSE ages[c] + 1]

Hour ==
    /\ publishedAt' = [c \in Post |-> IF publishedAt[c] \in {NotYet, Lookback} THEN NotYet
                                      ELSE publishedAt[c] + 1]
    /\ capturedAt' = Aged(capturedAt, Refresh)
    /\ ingestedAt' = Aged(ingestedAt, Refresh)
    /\ UNCHANGED <<insightsLock, ingestion, lockLost, losses>>

\* An item becomes PUBLISHED as it is posted; its status may be set by hand,
\* away from PUBLISHED and back to it, with the publishedAt it has.
Publish(c, a) ==
    /\ publishedAt' = [publishedAt EXCEPT ![c] = a]
    /\ UNCHANGED <<insightsLock, capturedAt, ingestion, ingestedAt, lockLost, losses>>

(***************************************************************************)
(* AnalyticsService.create and update: a row added by hand, as of now or   *)
(* of an earlier time; a row edited, or moved to another item, after which *)
(* the item's newest row is any.                                           *)
(***************************************************************************)
CreateAnalytics(c, a) ==
    /\ capturedAt[c] # NotYet => a < capturedAt[c]
    /\ capturedAt' = [capturedAt EXCEPT ![c] = a]
    /\ UNCHANGED <<insightsLock, publishedAt, ingestion, ingestedAt, lockLost, losses>>

UpdateAnalytics(c, a) ==
    /\ capturedAt[c] # NotYet
    /\ capturedAt' = [capturedAt EXCEPT ![c] = a]
    /\ ingestedAt' = [ingestedAt EXCEPT ![c] = NotYet]
    /\ UNCHANGED <<insightsLock, publishedAt, ingestion, lockLost, losses>>
-----------------------------------------------------------------------------
\* Mutant: no lock.
LockFreeAlways == TRUE

LockFree == insightsLock = NoServer

Ingest(i) ==
    /\ ingestion[i].at = "idle" /\ LockFree
    /\ insightsLock' = i
    /\ ingestion' = [ingestion EXCEPT ![i].at = "since"]
    /\ UNCHANGED <<publishedAt, capturedAt, ingestedAt, lockLost, losses>>

\* Whether a sweep ends with the last item, and with it the transaction.
Goes(i, left, at) ==
    /\ ingestion' = [ingestion EXCEPT ![i] = IF left = {} THEN IdleIngestion
                                             ELSE [at |-> at, left |-> left]]
    /\ insightsLock' = IF left = {} /\ insightsLock = i THEN NoServer ELSE insightsLock

SelectPublished(i) ==
    /\ ingestion[i].at = "since"
    /\ Goes(i, {c \in Post : publishedAt[c] # NotYet}, "recent")
    /\ UNCHANGED <<publishedAt, capturedAt, ingestedAt, lockLost, losses>>

\* Mutant: a row is fresh only in the hour it was captured in.
RecentlyIngestedOff == {c \in Post : capturedAt[c] # NotYet /\ capturedAt[c] < Refresh - 1}

RecentlyIngested == {c \in Post : capturedAt[c] # NotYet /\ capturedAt[c] < Refresh}

SkipRecent(i) ==
    /\ ingestion[i].at = "recent"
    /\ Goes(i, ingestion[i].left \ RecentlyIngested, "fetch")
    /\ UNCHANGED <<publishedAt, capturedAt, ingestedAt, lockLost, losses>>

\* Whether the metrics of an item are collected: a target of it succeeded, its
\* connection can be read, and a call to Meta is answered; others may fail.
Collected == BOOLEAN

IngestItem(i, c, collected) ==
    /\ ingestion[i].at = "fetch" /\ c \in ingestion[i].left
    /\ capturedAt' = IF collected THEN [capturedAt EXCEPT ![c] = 0] ELSE capturedAt
    /\ ingestedAt' = IF collected THEN [ingestedAt EXCEPT ![c] = 0] ELSE ingestedAt
    /\ Goes(i, ingestion[i].left \ {c}, "fetch")
    /\ UNCHANGED <<publishedAt, lockLost, losses>>

(***************************************************************************)
(* The instance stops, or a statement fails, and the transaction ends; or  *)
(* the connection that holds the lock is lost under the sweep.             *)
(***************************************************************************)
Lost == losses < MaxLost /\ losses' = losses + 1

StopIngestion(i) ==
    /\ Lost /\ ingestion[i].at # "idle"
    /\ Goes(i, {}, "idle")
    /\ UNCHANGED <<publishedAt, capturedAt, ingestedAt, lockLost>>

LoseInsightsLock ==
    /\ Lost /\ ~LockFree
    /\ insightsLock' = NoServer /\ lockLost' = TRUE
    /\ UNCHANGED <<publishedAt, capturedAt, ingestion, ingestedAt>>

InsightsNext ==
    \/ Hour
    \/ \E c \in Post : \/ \E a \in (0 .. Lookback) \cup {NotYet} : Publish(c, a)
                       \/ \E a \in 0 .. Refresh : CreateAnalytics(c, a)
                       \/ \E a \in (0 .. Refresh) \cup {NotYet} : UpdateAnalytics(c, a)
    \/ \E i \in Server : \/ Ingest(i) \/ SelectPublished(i) \/ SkipRecent(i)
                         \/ \E c \in Post, collected \in Collected : IngestItem(i, c, collected)
                         \/ StopIngestion(i)
    \/ LoseInsightsLock

InsightsSpec == InsightsInit /\ [][InsightsNext]_insightsVars
-----------------------------------------------------------------------------
(***************************************************************************)
(* The sweep adds a row of analytics for an item at most once in           *)
(* REFRESH_INTERVAL_HOURS, whatever instances run, stop and start again,   *)
(* as long as no sweep lost the lock while it was at work and nobody       *)
(* edited the row it added.                                                *)
(***************************************************************************)
IngestedOnce ==
    [][\A i \in Server, c \in Post :
         IngestItem(i, c, TRUE) /\ ~lockLost => ingestedAt[c] \in {NotYet, Refresh}]_insightsVars
=============================================================================
