---------------------------- MODULE ContentItems ----------------------------
(***************************************************************************)
(* Content items and their approvals: the rows that ContentService,        *)
(* ApprovalsService and ClientPortalService read and write, and the        *)
(* requests that change them.  A request that reads a row and later writes *)
(* from what it read is two actions, because the handler awaits between    *)
(* them; a database transaction is one.                                    *)
(*                                                                         *)
(* Publishing itself, by hand and by the every-minute sweep, is the module *)
(* ContentPublishing, which extends this one.                              *)
(***************************************************************************)
EXTENDS Naturals, Sequences

CONSTANTS
    Content,       \* content items
    Target,        \* destinations: pairs of a connection and a platform
    Editor,        \* slots for PATCH /content/:id requests in flight
    Decider,       \* slots for approval decisions in flight
    EditInput,     \* the bodies of PATCH /content/:id that are explored
    CreateStatus,  \* the statuses of POST /content that are explored
    MaxAttempts,   \* MAX_PUBLISH_ATTEMPTS, 3 in the code
    MaxEdition,    \* bound: edits that clear the publish results, per item
    MaxApprovals,  \* bound: approvals per item
    MaxRevisions   \* bound: revision requests read per approval

(***************************************************************************)
(* IDEA stands for every status that no operation here reads or sets:      *)
(* IDEA, DRAFTING, DESIGNING, INTERNAL_REVIEW and REPORTED.                *)
(***************************************************************************)
Status == {"IDEA", "CLIENT_APPROVAL", "APPROVED", "REVISION_REQUESTED",
           "SCHEDULED", "PUBLISHED"}
Decision == {"APPROVED", "REVISION_REQUESTED"}
When     == {"none", "future", "due"}     \* scheduledAt against the clock
Result   == {"NONE", "FAILED", "SUCCEEDED"}
Results  == [Target -> Result]
NoResults == [t \in Target |-> "NONE"]    \* publishResults = {}

(***************************************************************************)
(* The body of a PATCH: "clears" says that it gives platforms or mediaUrl, *)
(* "retarget" that it gives socialTargets (then "targets" are those).      *)
(***************************************************************************)
Input == [status : Status \cup {"keep"}, when : When \cup {"keep"},
          retarget : BOOLEAN, targets : SUBSET Target, clears : BOOLEAN]

ASSUME EditInputAssumption == EditInput \subseteq Input
ASSUME CreateStatusAssumption == CreateStatus \subseteq Status
ASSUME MaxAttemptsAssumption == MaxAttempts \in Nat \ {0}
ASSUME BoundsAssumption ==
    MaxEdition \in Nat /\ MaxApprovals \in Nat /\ MaxRevisions \in Nat

VARIABLES
    content,      \* content_items: one row per item, ABSENT until created
    approvals,    \* approvals of an item, oldest first
    connected,    \* targets whose social connection is CONNECTED and valid
    edit,         \* PATCH /content/:id requests between their read and write
    decide,       \* decisions between the read and the transaction
    byHand,       \* history: items whose status a request body once set
    lastDecision, \* history: the decision of an item that came last
    approvedOnce, \* history: items some approval of which was once APPROVED
    history       \* history: per approval, the revisions really asked for

itemVars == <<content, approvals, connected, edit, decide,
              byHand, lastDecision, approvedOnce, history>>

Idle == [pc |-> "idle"]

Row == [status : Status \cup {"ABSENT"}, when : When, targets : SUBSET Target,
        results : Results, attempts : Nat, edition : 0 .. MaxEdition]
Approval == [status : Decision \cup {"PENDING"}, revisionCount : Nat]
EditCall == [pc : {"write"}, item : Content, input : Input,
             targets : SUBSET Target, results : Results]
Past == [revisions : Nat, raced : BOOLEAN]
DecideCall == [pc : {"write"}, item : Content, approval : Nat \ {0},
               decision : Decision, revisionCount : Nat]

Exists(c) == content[c].status # "ABSENT"

ItemsTypeOK ==
    /\ content \in [Content -> Row]
    /\ approvals \in [Content -> Seq(Approval)]
    /\ connected \subseteq Target
    /\ edit \in [Editor -> EditCall \cup {Idle}]
    /\ decide \in [Decider -> DecideCall \cup {Idle}]
    /\ byHand \subseteq Content
    /\ lastDecision \in [Content -> Decision \cup {"NONE"}]
    /\ approvedOnce \subseteq Content
    /\ history \in [Content -> Seq(Past)]

ItemsInit ==
    /\ content = [c \in Content |->
                    [status |-> "ABSENT", when |-> "none", targets |-> {},
                     results |-> NoResults, attempts |-> 0, edition |-> 0]]
    /\ approvals = [c \in Content |-> <<>>]
    /\ connected = Target
    /\ edit = [e \in Editor |-> Idle]
    /\ decide = [d \in Decider |-> Idle]
    /\ byHand = {}
    /\ lastDecision = [c \in Content |-> "NONE"]
    /\ approvedOnce = {}
    /\ history = [c \in Content |-> <<>>]
-----------------------------------------------------------------------------
(***************************************************************************)
(* Creating, scheduling and editing an item.                               *)
(***************************************************************************)

\* ContentService.create: every target must be an active connection.
Create(c, status, when, targets) ==
    /\ ~Exists(c)
    /\ targets \subseteq connected
    /\ content' = [content EXCEPT ![c] =
                     [@ EXCEPT !.status = status, !.when = when,
                               !.targets = targets]]
    /\ byHand' = IF status = "IDEA" THEN byHand ELSE byHand \cup {c}
    /\ UNCHANGED <<approvals, connected, edit, decide, lastDecision, approvedOnce,
                   history>>

\* The row that ContentService.schedule leaves.
Scheduled(row, when) == [row EXCEPT !.status = "SCHEDULED", !.when = when]

\* ContentService.schedule: one write, whatever the status was.
Schedule(c, when) ==
    /\ Exists(c)
    /\ content' = [content EXCEPT ![c] = Scheduled(@, when)]
    /\ UNCHANGED <<approvals, connected, edit, decide,
                   byHand, lastDecision, approvedOnce, history>>

\* Whether a PATCH resets publishResults to {}.
ClearsResults(input) == input.clears \/ input.retarget

\* Mutant: new media keep the results of the old.
EditedResultsKept(call) == call.results

\* The publishResults a PATCH writes: {}, or those it read with the row.
EditedResults(call) ==
    IF ClearsResults(call.input) THEN NoResults ELSE call.results

\* The socialTargets a PATCH writes: its own, or those it read with the row.
EditedTargets(input, row) == IF input.retarget THEN input.targets
                                               ELSE row.targets

\* ContentService.update up to its last check: the row is read, and the
\* resulting targets must all be active connections.
EditRead(e, c, input) ==
    /\ edit[e] = Idle
    /\ Exists(c)
    /\ EditedTargets(input, content[c]) \subseteq connected
    /\ ClearsResults(input) => content[c].edition < MaxEdition
    /\ edit' = [edit EXCEPT ![e] =
                  [pc |-> "write", item |-> c, input |-> input,
                   targets |-> EditedTargets(input, content[c]),
                   results |-> content[c].results]]
    /\ UNCHANGED <<content, approvals, connected, decide,
                   byHand, lastDecision, approvedOnce, history>>

\* Mutant: a field the body leaves out is written too.
EditedRowWhole(call, row) ==
    [row EXCEPT !.status  = call.input.status,
                !.when    = call.input.when,
                !.targets = call.targets,
                !.results = EditedResults(call)]

\* The row that ContentService.update writes: the body's own fields over the
\* present row, the targets and results from the row as it was read.
\* edition counts the edits that started the publish results anew.
EditedRow(call, row) ==
    [row EXCEPT !.status   = IF call.input.status = "keep" THEN @
                                                  ELSE call.input.status,
                !.when     = IF call.input.when = "keep" THEN @
                                                  ELSE call.input.when,
                !.targets  = call.targets,
                !.results  = EditedResults(call),
                !.edition  = IF ClearsResults(call.input) THEN @ + 1 ELSE @]

\* ContentService.update, the write.
EditWrite(e) ==
    /\ edit[e].pc = "write"
    /\ LET call == edit[e] IN
       /\ ClearsResults(call.input) => content[call.item].edition < MaxEdition
       /\ content' = [content EXCEPT ![call.item] = EditedRow(call, @)]
       /\ byHand' = IF call.input.status = "keep" THEN byHand
                                          ELSE byHand \cup {call.item}
    /\ edit' = [edit EXCEPT ![e] = Idle]
    /\ UNCHANGED <<approvals, connected, decide, lastDecision, approvedOnce,
                   history>>
-----------------------------------------------------------------------------
(***************************************************************************)
(* Approvals: asked for by the team, decided by the team or the client.    *)
(***************************************************************************)

\* ApprovalsService.create: the approval and the item's status in one
\* transaction.  Nothing stops a second approval of the same item.
CreateApproval(c) ==
    /\ Exists(c)
    /\ Len(approvals[c]) < MaxApprovals
    /\ approvals' = [approvals EXCEPT ![c] =
                       Append(@, [status |-> "PENDING", revisionCount |-> 0])]
    /\ history' = [history EXCEPT ![c] =
                     Append(@, [revisions |-> 0, raced |-> FALSE])]
    /\ content' = [content EXCEPT ![c].status = "CLIENT_APPROVAL"]
    /\ UNCHANGED <<connected, edit, decide, byHand, lastDecision, approvedOnce>>

\* Mutant: every decision counts as a revision.
RevisionCountAlways(decision, approval) == approval.revisionCount + 1

\* revisionCount after a decision, computed from the approval as it was read.
RevisionCount(decision, approval) ==
    IF decision = "REVISION_REQUESTED" THEN approval.revisionCount + 1
                                       ELSE approval.revisionCount

\* ApprovalsService.update and ClientPortalService.decideApproval: the
\* approval is read, whatever its status, and a PENDING body is refused.
DecideRead(d, c, k, decision) ==
    /\ decide[d] = Idle
    /\ decision = "REVISION_REQUESTED" =>
         history[c][k].revisions < MaxRevisions
    /\ decide' = [decide EXCEPT ![d] =
                    [pc |-> "write", item |-> c, approval |-> k,
                     decision |-> decision,
                     revisionCount |->
                        RevisionCount(decision, approvals[c][k])]]
    /\ history' = [history EXCEPT ![c][k].raced =
                     @ \/ \E o \in Decider : /\ decide[o] # Idle
                                             /\ decide[o].item = c
                                             /\ decide[o].approval = k]
    /\ UNCHANGED <<content, approvals, connected, edit,
                   byHand, lastDecision, approvedOnce>>

\* Mutant: the item is released whatever was decided.
DecidedStatusApproved(decision) == "APPROVED"

\* The item's status after a decision.
DecidedStatus(decision) ==
    IF decision = "APPROVED" THEN "APPROVED" ELSE "REVISION_REQUESTED"

\* The transaction of a decision: the approval, then the item's status.
DecideWrite(d) ==
    /\ decide[d].pc = "write"
    /\ LET call == decide[d] IN
       /\ approvals' = [approvals EXCEPT ![call.item][call.approval] =
                          [status |-> call.decision,
                           revisionCount |-> call.revisionCount]]
       /\ content' = [content EXCEPT ![call.item].status =
                        DecidedStatus(call.decision)]
       /\ lastDecision' = [lastDecision EXCEPT ![call.item] = call.decision]
       /\ approvedOnce' = IF call.decision = "APPROVED"
                          THEN approvedOnce \cup {call.item} ELSE approvedOnce
       /\ history' = [history EXCEPT ![call.item][call.approval].revisions =
                        IF call.decision = "REVISION_REQUESTED" THEN @ + 1
                                                                ELSE @]
    /\ decide' = [decide EXCEPT ![d] = Idle]
    /\ UNCHANGED <<connected, edit, byHand>>
-----------------------------------------------------------------------------
(***************************************************************************)
(* What happens to items from outside: the clock reaches scheduledAt, a    *)
(* social connection is revoked or expires, or is connected again.         *)
(***************************************************************************)
TimePasses(c) ==
    /\ content[c].when = "future"
    /\ content' = [content EXCEPT ![c].when = "due"]
    /\ UNCHANGED <<approvals, connected, edit, decide,
                   byHand, lastDecision, approvedOnce, history>>

Disconnect(t) ==
    /\ t \in connected
    /\ connected' = connected \ {t}
    /\ UNCHANGED <<content, approvals, edit, decide,
                   byHand, lastDecision, approvedOnce, history>>

Reconnect(t) ==
    /\ t \notin connected
    /\ connected' = connected \cup {t}
    /\ UNCHANGED <<content, approvals, edit, decide,
                   byHand, lastDecision, approvedOnce, history>>

EditNext ==
    \/ \E e \in Editor, c \in Content, input \in EditInput :
          EditRead(e, c, input)
    \/ \E e \in Editor : EditWrite(e)

DecideNext ==
    \/ \E d \in Decider, c \in Content, decision \in Decision :
          \E k \in 1 .. Len(approvals[c]) : DecideRead(d, c, k, decision)
    \/ \E d \in Decider : DecideWrite(d)

\* Every request and outside event but the PATCH of an item.
ItemsNext ==
    \/ \E c \in Content, status \in CreateStatus, when \in When,
          targets \in SUBSET Target : Create(c, status, when, targets)
    \/ \E c \in Content, when \in When \ {"none"} : Schedule(c, when)
    \/ \E c \in Content : CreateApproval(c) \/ TimePasses(c)
    \/ DecideNext
    \/ \E t \in Target : Disconnect(t) \/ Reconnect(t)

ItemsSpec == ItemsInit /\ [][ItemsNext \/ EditNext]_itemVars
-----------------------------------------------------------------------------
\* A decision in flight finds the approval it read: approvals are only added.
DecisionsFindApprovals ==
    /\ \A c \in Content : Len(history[c]) = Len(approvals[c])
    /\ \A d \in Decider : decide[d] # Idle =>
          decide[d].approval \in 1 .. Len(approvals[decide[d].item])

Pending(c, status) ==
    \E k \in 1 .. Len(approvals[c]) : approvals[c][k].status = status

(***************************************************************************)
(* As long as nobody set an item's status through a request body, the      *)
(* status never speaks of an approval that is not there: an item that      *)
(* reads APPROVED, REVISION_REQUESTED or CLIENT_APPROVAL has an approval   *)
(* in that very state, however the decisions of several approvals, made by *)
(* the team and through the client portal, interleave.                     *)
(***************************************************************************)
StatusAgreesWithApprovals ==
    \A c \in Content \ byHand :
        /\ content[c].status \in Decision => Pending(c, content[c].status)
        /\ content[c].status = "CLIENT_APPROVAL" => Pending(c, "PENDING")

(***************************************************************************)
(* The revision count of an approval is the number of times a revision of  *)
(* it was requested, unless two decisions of it overlapped: both handlers  *)
(* compute the count outside the transaction, from the row they read.      *)
(***************************************************************************)
RevisionCountIsExact ==
    \A c \in Content : \A k \in 1 .. Len(approvals[c]) :
        history[c][k].raced \/
        approvals[c][k].revisionCount = history[c][k].revisions
=============================================================================
