-------------------------- MODULE ContentPublishing --------------------------
(***************************************************************************)
(* Publishing: ContentService.publish, called by PATCH /content/:id/publish*)
(* and by the sweep that ContentPublisherService runs every minute in      *)
(* every API instance, over the items of ContentItems.                     *)
(*                                                                         *)
(* publish reads the item once and from then on works on its own copy of   *)
(* the targets and results, which it writes back whole after every remote  *)
(* post; what it posts next, caption and media, is of the row as that write*)
(* returned it.  The sweep reads the due items and the approvals once, and        *)
(* publishes its list one item after the other under an advisory lock.     *)
(***************************************************************************)
EXTENDS ContentItems

CONSTANTS
    Instance,     \* API instances, each with its cron job
    Caller,       \* slots for PATCH /content/:id/publish in flight
    NoOne,        \* nobody holds the advisory lock
    MetaOutcome,  \* what the Meta call may do, among those below
    MaxCrashes    \* bound: crashes of an instance or of a request, and
                  \* statements that fail

Publisher == Instance \cup Caller

(***************************************************************************)
(* accepted: posted, and the answer arrives.  rejected: not posted.  lost: *)
(* posted, but the caller sees an error (a timeout, a dropped connection). *)
(***************************************************************************)
ASSUME MetaOutcomeAssumption ==
    MetaOutcome \subseteq {"accepted", "rejected", "lost"}
ASSUME PublisherAssumption == Instance \cap Caller = {} /\ NoOne \notin Instance
ASSUME MaxCrashesAssumption == MaxCrashes \in Nat

VARIABLES
    lock,       \* holder of the advisory lock PUBLISH_SWEEP_LOCK_KEY
    sweep,      \* the sweep of each instance
    pub,        \* the call of publish that each publisher is in
    posts,      \* Meta: posts of an item on a target, per edition, up to 2
    abandoned,  \* content-auto-publish-abandoned events of an item, up to 2
    disturbed,  \* history: items that Disturbance below speaks of
    crashes     \* crashes so far

pubVars == <<lock, sweep, pub, posts, abandoned, disturbed, crashes>>
vars == <<itemVars, pubVars>>

Sweep == [pc : {"filter", "loop"}, due : SUBSET Content,
          attempts : [Content -> Nat]]

\* check: the item is read; post: the next target; saveOk, saveFailed: a
\* post succeeded or failed and its result is not saved yet.
PublishCall == [pc : {"check", "post", "saveOk", "saveFailed"},
                item : Content, targets : SUBSET Target, results : Results,
                edition : 0 .. MaxEdition]
\* What the sweep still has to do about a call that returned or threw.
PublishReturn == [pc : {"done", "thrown", "counted"}, item : Content]

TypeOK ==
    /\ ItemsTypeOK
    /\ lock \in Instance \cup {NoOne}
    /\ sweep \in [Instance -> Sweep \cup {Idle}]
    /\ pub \in [Publisher -> PublishCall \cup PublishReturn \cup {Idle}]
    /\ posts \in [Content -> [Target -> [0 .. MaxEdition -> 0 .. 2]]]
    /\ abandoned \in [Content -> 0 .. 2]
    /\ disturbed \subseteq Content
    /\ crashes \in 0 .. MaxCrashes

Init ==
    /\ ItemsInit
    /\ lock = NoOne
    /\ sweep = [i \in Instance |-> Idle]
    /\ pub = [p \in Publisher |-> Idle]
    /\ posts = [c \in Content |-> [t \in Target |->
                  [e \in 0 .. MaxEdition |-> 0]]]
    /\ abandoned = [c \in Content |-> 0]
    /\ disturbed = {}
    /\ crashes = 0

\* Counters that stop at "two or more".
UpToTwo(n) == IF n < 2 THEN n + 1 ELSE 2
-----------------------------------------------------------------------------
(***************************************************************************)
(* ContentService.publish, by publisher p.                                 *)
(***************************************************************************)

InFlight(p) == pub[p].pc \in {"check", "post", "saveOk", "saveFailed"}
Publishes(p, c) == InFlight(p) /\ pub[p].item = c

\* The way a call leaves publish: back to its request, which answers and is
\* over, or back to the sweep, which has more to do for the item.
Return(p, c, pc) == IF p \in Caller THEN Idle ELSE [pc |-> pc, item |-> c]

\* Disturbance: a request publishes an item that another call of publish is
\* already publishing.  Two sweeps do not count.
Overlaps(p, c) == \E q \in Publisher \ {p} :
                     /\ Publishes(q, c)
                     /\ p \in Caller \/ q \in Caller

\* findOne, and the refusal of an item without targets.
PublishRead(p, c) ==
    /\ Exists(c)
    /\ pub[p] = Idle
    /\ pub' = [pub EXCEPT ![p] =
                 IF content[c].targets = {}
                 THEN Return(p, c, "thrown")
                 ELSE [pc |-> "check", item |-> c,
                       targets |-> content[c].targets,
                       results |-> content[c].results,
                       edition |-> content[c].edition]]
    /\ disturbed' = IF Overlaps(p, c) THEN disturbed \cup {c} ELSE disturbed

\* getTargetConnections: all targets, those already posted to included.
PublishCheck(p) ==
    /\ pub[p].pc = "check"
    /\ pub' = [pub EXCEPT ![p] =
                 IF pub[p].targets \subseteq connected
                 THEN [@ EXCEPT !.pc = "post"]
                 ELSE Return(p, @.item, "thrown")]
    /\ UNCHANGED <<itemVars, lock, sweep, posts, abandoned, disturbed, crashes>>

\* Mutants: every target is posted to; a target that failed is given up.
RemainingAll(call) == call.targets
RemainingUntried(call) == {t \in call.targets : call.results[t] = "NONE"}

\* The targets publish still has to post to: it skips those that succeeded
\* according to its own copy of the results.
Remaining(call) == {t \in call.targets : call.results[t] # "SUCCEEDED"}

\* Mutant: an error counts as a success.
ResultOfAlways(outcome) == "SUCCEEDED"

\* The result publish records for an outcome.
ResultOf(outcome) == IF outcome = "accepted" THEN "SUCCEEDED" ELSE "FAILED"

\* MetaPublishingService.publish on one target.  Disturbance: the post was
\* made and publish takes it for a failure.
PublishPost(p, t, outcome) ==
    /\ pub[p].pc = "post"
    /\ t \in Remaining(pub[p])
    /\ LET call == pub[p] IN
       /\ posts' = IF outcome = "rejected" THEN posts
                   ELSE [posts EXCEPT ![call.item][t][call.edition] =
                           UpToTwo(@)]
       /\ pub' = [pub EXCEPT ![p] =
                    [@ EXCEPT !.pc = IF outcome = "accepted" THEN "saveOk"
                                                       ELSE "saveFailed",
                              !.results[t] = ResultOf(outcome)]]
       /\ disturbed' = IF outcome = "lost" THEN disturbed \cup {call.item}
                                           ELSE disturbed
    /\ UNCHANGED <<itemVars, lock, sweep, abandoned, crashes>>

\* Mutant: the results are not saved.
SavedRowTargets(call, row) == [row EXCEPT !.targets = call.targets]

\* The row that savePublishResults leaves: the call's own targets and results.
SavedRow(call, row) ==
    [row EXCEPT !.targets = call.targets, !.results = call.results]

\* savePublishResults: then the next target, of the row that it returned, or
\* the error is thrown again.
PublishSave(p) ==
    /\ pub[p].pc \in {"saveOk", "saveFailed"}
    /\ LET call == pub[p] IN
       /\ content' = [content EXCEPT ![call.item] = SavedRow(call, @)]
       /\ pub' = [pub EXCEPT ![p] =
                    IF call.pc = "saveOk"
                    THEN [@ EXCEPT !.pc = "post",
                                   !.edition = content[call.item].edition]
                    ELSE Return(p, call.item, "thrown")]
    /\ UNCHANGED <<approvals, connected, edit, decide, byHand, lastDecision,
                   approvedOnce, history,
                   lock, sweep, posts, abandoned, disturbed, crashes>>

\* The last write of publish, when no target remains.
PublishFinish(p) ==
    /\ pub[p].pc = "post"
    /\ Remaining(pub[p]) = {}
    /\ LET call == pub[p] IN
       /\ content' = [content EXCEPT ![call.item] =
                        [SavedRow(call, @) EXCEPT !.status = "PUBLISHED"]]
       /\ pub' = [pub EXCEPT ![p] = Return(p, call.item, "done")]
    /\ UNCHANGED <<approvals, connected, edit, decide, byHand, lastDecision,
                   approvedOnce, history,
                   lock, sweep, posts, abandoned, disturbed, crashes>>

PublishStep(p) ==
    \/ PublishCheck(p)
    \/ \E t \in Target, outcome \in MetaOutcome : PublishPost(p, t, outcome)
    \/ PublishSave(p)
    \/ PublishFinish(p)

\* ContentController.publish: anyone on the team, approved or not.
PublishRequest(q, c) ==
    /\ PublishRead(q, c)
    /\ UNCHANGED <<itemVars, lock, sweep, posts, abandoned, crashes>>
-----------------------------------------------------------------------------
(***************************************************************************)
(* ContentPublisherService: the sweep of instance i.                       *)
(***************************************************************************)

\* The items runPublishSweep selects.
Due(c) == /\ content[c].status = "SCHEDULED"
          /\ content[c].when = "due"
          /\ content[c].attempts < MaxAttempts

\* pg_try_advisory_xact_lock: an instance that does not get it gives up.
LockFree == lock = NoOne

\* publishScheduledContent: the lock, then the items due; with none, the
\* transaction ends at once and nothing has changed.
SweepStart(i) ==
    /\ sweep[i] = Idle
    /\ LockFree
    /\ \E c \in Content : Due(c)
    /\ lock' = i
    /\ sweep' = [sweep EXCEPT ![i] =
                   [pc |-> "filter", due |-> {c \in Content : Due(c)},
                    attempts |-> [c \in Content |-> content[c].attempts]]]
    /\ UNCHANGED <<itemVars, pub, posts, abandoned, disturbed, crashes>>

\* Mutant: only a revision request holds an item back.
NotRevised(c) ==
    approvals[c] = <<>> \/
    approvals[c][Len(approvals[c])].status # "REVISION_REQUESTED"

\* filterApproved: the approval created last, if any, is APPROVED.
LatestApproved(c) ==
    /\ approvals[c] # <<>>
    /\ approvals[c][Len(approvals[c])].status = "APPROVED"

filterApproved(due) == {c \in due : LatestApproved(c)}

Filtered(s) == [s EXCEPT !.pc = "loop", !.due = filterApproved(s.due)]

SweepFilter(i) ==
    /\ sweep[i].pc = "filter"
    /\ sweep' = [sweep EXCEPT ![i] = Filtered(@)]
    /\ UNCHANGED <<itemVars, lock, pub, posts, abandoned, disturbed, crashes>>

\* The next item of the list, read anew by publish.
SweepPublish(i, c) ==
    /\ sweep[i].pc = "loop"
    /\ c \in sweep[i].due
    /\ PublishRead(i, c)
    /\ sweep' = [sweep EXCEPT ![i].due = @ \ {c}]
    /\ UNCHANGED <<itemVars, lock, posts, abandoned, crashes>>

SweepSucceeded(i) ==
    /\ pub[i].pc = "done"
    /\ pub' = [pub EXCEPT ![i] = Idle]
    /\ UNCHANGED <<itemVars, lock, sweep, posts, abandoned, disturbed, crashes>>

\* Mutants: the attempt is not counted; it is counted twice.
UncountedRow(row) == row
TwiceCountedRow(row) == [row EXCEPT !.attempts = @ + 2]

\* The row after handlePublishFailure: one attempt more than the row has.
FailedRow(row) == [row EXCEPT !.attempts = @ + 1]

\* handlePublishFailure, the update.
SweepFailure(i) ==
    /\ pub[i].pc = "thrown"
    /\ content' = [content EXCEPT ![pub[i].item] = FailedRow(@)]
    /\ pub' = [pub EXCEPT ![i].pc = "counted"]
    /\ UNCHANGED <<approvals, connected, edit, decide, byHand, lastDecision,
                   approvedOnce, history,
                   lock, sweep, posts, abandoned, disturbed, crashes>>

\* Mutant: off by one.
AbandonsEarly(i, c) == sweep[i].attempts[c] + 2 >= MaxAttempts

\* Whether the failure is the last: by the attempts read when the sweep began.
Abandons(i, c) == sweep[i].attempts[c] + 1 >= MaxAttempts

\* handlePublishFailure, the event.
SweepLog(i) ==
    /\ pub[i].pc = "counted"
    /\ LET c == pub[i].item IN
         abandoned' = IF Abandons(i, c)
                      THEN [abandoned EXCEPT ![c] = UpToTwo(@)]
                      ELSE abandoned
    /\ pub' = [pub EXCEPT ![i] = Idle]
    /\ UNCHANGED <<itemVars, lock, sweep, posts, disturbed, crashes>>

\* The list is done: the transaction commits and the lock is free.
SweepEnd(i) ==
    /\ sweep[i].pc = "loop"
    /\ sweep[i].due = {}
    /\ pub[i] = Idle
    /\ lock' = NoOne
    /\ sweep' = [sweep EXCEPT ![i] = Idle]
    /\ UNCHANGED <<itemVars, pub, posts, abandoned, disturbed, crashes>>

SweepStep(i) ==
    \/ SweepStart(i)
    \/ SweepFilter(i)
    \/ \E c \in Content : SweepPublish(i, c)
    \/ PublishStep(i)
    \/ SweepSucceeded(i)
    \/ SweepFailure(i)
    \/ SweepLog(i)
    \/ SweepEnd(i)
-----------------------------------------------------------------------------
(***************************************************************************)
(* A process stops, or a statement of the sweep itself fails.  A sweep     *)
(* loses its transaction and so the lock, and nothing of the call survives *)
(* but what it wrote.  Disturbance: a post was made and its result not     *)
(* saved.                                                                  *)
(***************************************************************************)
Crash(p) ==
    /\ crashes < MaxCrashes
    /\ crashes' = crashes + 1
    /\ pub' = [pub EXCEPT ![p] = Idle]
    /\ sweep' = IF p \in Instance THEN [sweep EXCEPT ![p] = Idle] ELSE sweep
    /\ lock' = IF lock = p THEN NoOne ELSE lock
    /\ disturbed' = IF pub[p].pc = "saveOk"
                    THEN disturbed \cup {pub[p].item} ELSE disturbed
    /\ UNCHANGED <<itemVars, posts, abandoned>>

(***************************************************************************)
(* A statement of publish fails: the sweep, which goes on, counts that as  *)
(* it counts a post that failed.  Disturbance: as above.                   *)
(***************************************************************************)
StatementFails(p) ==
    /\ crashes < MaxCrashes
    /\ crashes' = crashes + 1
    /\ InFlight(p)
    /\ pub[p].pc = "post" => Remaining(pub[p]) = {}
    /\ pub' = [pub EXCEPT ![p] = Return(p, @.item, "thrown")]
    /\ disturbed' = IF pub[p].pc = "saveOk"
                    THEN disturbed \cup {pub[p].item} ELSE disturbed
    /\ UNCHANGED <<itemVars, lock, sweep, posts, abandoned>>

(***************************************************************************)
(* A PATCH that reads or writes while the item is being published.         *)
(* Disturbance: it writes back results other than the row holds, or starts *)
(* them anew while a call of publish works on the old ones.                *)
(***************************************************************************)
Disturbs(call) ==
    IF ClearsResults(call.input)
    THEN \E p \in Publisher : Publishes(p, call.item)
    ELSE call.results # content[call.item].results

EditStep ==
    /\ EditNext
    /\ disturbed' = disturbed \cup
         {c \in Content : \E e \in Editor :
             /\ edit[e].pc = "write" /\ edit'[e] = Idle
             /\ edit[e].item = c /\ Disturbs(edit[e])}
    /\ UNCHANGED <<lock, sweep, pub, posts, abandoned, crashes>>

Next ==
    \/ ItemsNext /\ UNCHANGED pubVars
    \/ EditStep
    \/ \E i \in Instance : SweepStep(i)
    \/ \E q \in Caller, c \in Content : PublishRequest(q, c)
    \/ \E q \in Caller : PublishStep(q)
    \/ \E p \in Publisher : Crash(p) \/ StatementFails(p)

Spec == Init /\ [][Next]_vars

(***************************************************************************)
(* The cron job runs every minute in every instance, and every await of a  *)
(* sweep ends: the Meta calls have a timeout.  Nothing else need happen.   *)
(***************************************************************************)
FairSpec == Spec /\ \A i \in Instance : WF_vars(SweepStep(i))
-----------------------------------------------------------------------------
(***************************************************************************)
(* One sweep at a time: an instance in a sweep holds the lock.             *)
(***************************************************************************)
OneSweep == \A i \in Instance : sweep[i] # Idle => lock = i

(***************************************************************************)
(* The retry cap: the failures of the sweep never count beyond the cap,    *)
(* and the event that gives an item up is logged at most once and only for *)
(* an item whose attempts are used up, though the decision to log it is    *)
(* taken from the attempts read at the start of the sweep and the count is *)
(* incremented in the database.                                            *)
(***************************************************************************)
AbandonedOnce ==
    \A c \in Content :
        /\ content[c].attempts <= MaxAttempts
        /\ abandoned[c] > 0 => content[c].attempts = MaxAttempts
        /\ abandoned[c] <= 1

(***************************************************************************)
(* The inductive invariant behind OneSweep, AbandonedOnce and              *)
(* NeverApprovedIsHeldBack.  While an instance sweeps, nobody else         *)
(* changes the attempts of the items on its list: they are those it read,  *)
(* one more once it counted a failure, and such an item is not given up    *)
(* yet.  An approval in APPROVED, or a list in the sweep's hands, leads    *)
(* back to an approving decision.                                          *)
(***************************************************************************)
Listed(i) ==
    \A c \in sweep[i].due : /\ content[c].attempts = sweep[i].attempts[c]
                           /\ content[c].attempts < MaxAttempts

Handled(i) ==
    LET c == pub[i].item IN
    /\ sweep[i].pc = "loop"
    /\ c \notin sweep[i].due
    /\ sweep[i].attempts[c] < MaxAttempts
    /\ IF pub[i].pc = "counted"
       THEN content[c].attempts = sweep[i].attempts[c] + 1 /\ abandoned[c] = 0
       ELSE content[c].attempts = sweep[i].attempts[c]

SweepAttempts ==
    \A i \in Instance : /\ sweep[i] # Idle => Listed(i)
                        /\ pub[i] # Idle => Handled(i)

ApprovedWasDecided ==
    \A c \in Content : \A k \in 1 .. Len(approvals[c]) :
        approvals[c][k].status = "APPROVED" => c \in approvedOnce

(***************************************************************************)
(* Partial failures, retries and the sweeps of several instances never     *)
(* post the same edition of an item to the same target twice, unless one   *)
(* of the disturbances happened: an answer of Meta was lost, a process     *)
(* stopped between a post and its save, a request published the item at    *)
(* the same time, or a PATCH wrote back results it had read earlier.       *)
(***************************************************************************)
PostedOnce ==
    \A c \in Content \ disturbed : \A t \in Target :
        \A e \in 0 .. MaxEdition : posts[c][t][e] <= 1

(***************************************************************************)
(* A result that says SUCCEEDED, in the row, in a call of publish or in a  *)
(* PATCH that is going to write it back, is that of a real post; and, if   *)
(* the item was not disturbed, the row's is of the edition it now holds.   *)
(***************************************************************************)
SucceededWasPosted ==
    \A c \in Content, t \in Target :
        LET Posted == \E e \in 0 .. MaxEdition : posts[c][t][e] > 0 IN
        /\ content[c].results[t] = "SUCCEEDED" =>
              Posted /\ (c \notin disturbed =>
                           posts[c][t][content[c].edition] > 0)
        /\ \A p \in Publisher :
              Publishes(p, c) /\ pub[p].results[t] = "SUCCEEDED" => Posted
        /\ \A r \in Editor :
              /\ edit[r] # Idle
              /\ edit[r].item = c /\ edit[r].results[t] = "SUCCEEDED"
              => Posted

(***************************************************************************)
(* When publish marks an item PUBLISHED, every target the row names has    *)
(* been posted to: in this edition, if the item was not disturbed.         *)
(***************************************************************************)
FinishesWith(p, c) == /\ Publishes(p, c)
                      /\ pub[p].pc = "post"
                      /\ ~InFlight(p)'
                      /\ crashes' = crashes

PublishedEverywhere ==
    [][\A p \in Publisher, c \in Content \ disturbed :
          FinishesWith(p, c) =>
             /\ content'[c].status = "PUBLISHED"
             /\ content'[c].targets # {}
             /\ \A t \in content'[c].targets :
                   posts[c][t][content'[c].edition] > 0]_vars

(***************************************************************************)
(* The calls of publish, the sweeps and the edits together keep what       *)
(* PublishOnce promises, on an item that was not disturbed: posted, then   *)
(* recorded, then published, though each call works on its own copy of the *)
(* row and the results are started anew by edits.                          *)
(***************************************************************************)
Promise == INSTANCE PublishOnce WITH
    Item <- Content, Edition <- 0 .. MaxEdition,
    item <- [c \in Content |->
               [posts |-> posts[c], edition |-> content[c].edition,
                targets |-> content[c].targets,
                recorded |-> {t \in Target : content[c].results[t] = "SUCCEEDED"},
                published |-> content[c].status = "PUBLISHED" /\ c \notin byHand]],
    broken <- disturbed

PublishesAsPromised == Promise!Spec

(***************************************************************************)
(* The approval gate: the sweep takes no item whose client never approved  *)
(* it, whatever is decided, revised or asked for anew while it runs.       *)
(***************************************************************************)
NeverApprovedIsHeldBack ==
    \A i \in Instance :
        /\ sweep[i].pc = "loop" => sweep[i].due \subseteq approvedOnce
        /\ pub[i] # Idle => pub[i].item \in approvedOnce

(***************************************************************************)
(* The inductive invariant, whole: in every state, the types, the lock,    *)
(* the attempts of the items in a sweep's hands, the events that give an   *)
(* item up and the approvals behind a sweep's list agree as said above.    *)
(***************************************************************************)
SweepInv ==
    /\ TypeOK
    /\ DecisionsFindApprovals
    /\ OneSweep
    /\ SweepAttempts
    /\ AbandonedOnce
    /\ ApprovedWasDecided
    /\ NeverApprovedIsHeldBack

(***************************************************************************)
(* What the documentation says of the gate: the sweep lets through only    *)
(* items whose latest decision is APPROVED.                                *)
(***************************************************************************)
GateUsesLatestDecision ==
    [][\A i \in Instance :
          (sweep[i].pc = "filter" /\ sweep'[i].pc = "loop") =>
             \A c \in sweep'[i].due : lastDecision[c] = "APPROVED"]_vars

(***************************************************************************)
(* What the documentation says of partial failures: a target that was      *)
(* posted to is not posted to again.                                       *)
(***************************************************************************)
NeverPostedTwice ==
    \A c \in Content, t \in Target, e \in 0 .. MaxEdition :
        posts[c][t][e] <= 1

(***************************************************************************)
(* No item stays eligible for ever: an approved item that is due, with     *)
(* attempts left, is published, runs out of attempts, or is taken back.    *)
(***************************************************************************)
Eligible(c) == Due(c) /\ LatestApproved(c)
EligibleIsDealtWith == \A c \in Content : Eligible(c) ~> ~Eligible(c)
=============================================================================
