------------------------ MODULE ContentItems_proofs ------------------------
(***************************************************************************)
(* Theorems about ContentItems, for any items, targets, requests in flight *)
(* and bounds: its types, that the status of an item agrees with its       *)
(* approvals, and that the revisions of an approval are counted.           *)
(***************************************************************************)
EXTENDS ContentItems, SequenceTheorems, TLAPS

\* A PATCH between its read and its write.
LEMMA EditIsCall ==
    ASSUME ItemsTypeOK, NEW e \in Editor, edit[e].pc = "write"
    PROVE  edit[e] \in EditCall /\ edit[e] # Idle
BY DEF ItemsTypeOK, Idle

\* A decision between its read and its transaction.
LEMMA DecideIsCall ==
    ASSUME ItemsTypeOK, NEW d \in Decider, decide[d].pc = "write"
    PROVE  decide[d] \in DecideCall /\ decide[d] # Idle
BY DEF ItemsTypeOK, Idle

-----------------------------------------------------------------------------
(***************************************************************************)
(* Types.                                                                  *)
(***************************************************************************)

\* The initial state is well typed.
LEMMA ItemsTypeInit == ItemsInit => ItemsTypeOK
<1> SUFFICES ASSUME ItemsInit PROVE ItemsTypeOK
  OBVIOUS
<1> USE DEF ItemsInit
<1>1. content \in [Content -> Row]
  BY BoundsAssumption DEF Row, Status, When, Results, Result, NoResults
<1>2. /\ approvals \in [Content -> Seq(Approval)]
      /\ history \in [Content -> Seq(Past)]
  OBVIOUS
<1> QED BY <1>1, <1>2 DEF ItemsTypeOK

\* A row with another status, or at another time, is a row.
LEMMA RowUpdate ==
    ASSUME content \in [Content -> Row], NEW c \in Content
    PROVE  /\ \A s \in Status : [content EXCEPT ![c].status = s] \in [Content -> Row]
           /\ \A w \in When : [content EXCEPT ![c].when = w] \in [Content -> Row]
<1>1. content[c] \in Row
  OBVIOUS
<1>2. ASSUME NEW s \in Status
      PROVE  [content EXCEPT ![c].status = s] \in [Content -> Row]
  <2>1. [content[c] EXCEPT !.status = s] \in Row
    BY <1>1, SMTT(30) DEF Row
  <2> QED BY <2>1, SMTT(30)
<1>3. ASSUME NEW w \in When
      PROVE  [content EXCEPT ![c].when = w] \in [Content -> Row]
  <2>1. [content[c] EXCEPT !.when = w] \in Row
    BY <1>1, SMTT(30) DEF Row
  <2> QED BY <2>1, SMTT(30)
<1> QED BY <1>2, <1>3

\* The item and approval requests, the clock and the connections keep the
\* types of the rows and of the requests in flight.
LEMMA ItemsType ==
    ASSUME ItemsTypeOK, DecisionsFindApprovals, ItemsNext
    PROVE  ItemsTypeOK'
<1> USE DEF ItemsTypeOK
<1>1. ASSUME NEW c \in Content, NEW status \in CreateStatus, NEW when \in When,
             NEW targets \in SUBSET Target, Create(c, status, when, targets)
      PROVE  ItemsTypeOK'
  BY <1>1, CreateStatusAssumption DEF Create, Row
<1>2. ASSUME NEW c \in Content, NEW when \in When, Schedule(c, when)
      PROVE  ItemsTypeOK'
  BY <1>2 DEF Schedule, Scheduled, Row, Status
<1>3. ASSUME NEW c \in Content, CreateApproval(c)
      PROVE  ItemsTypeOK'
  <2> DEFINE a == [status |-> "PENDING", revisionCount |-> 0]
             h == [revisions |-> 0, raced |-> FALSE]
  <2>1. a \in Approval /\ h \in Past
    BY DEF Approval, Past
  <2>2. /\ Append(approvals[c], a) \in Seq(Approval)
        /\ Append(history[c], h) \in Seq(Past)
    <3> HIDE DEF a, h
    <3> QED BY <2>1
  <2>3. /\ approvals' \in [Content -> Seq(Approval)]
        /\ history' \in [Content -> Seq(Past)]
    BY <1>3, <2>2 DEF CreateApproval
  <2>4. content' \in [Content -> Row]
    <3>1. content' = [content EXCEPT ![c].status = "CLIENT_APPROVAL"]
      BY <1>3 DEF CreateApproval
    <3>2. "CLIENT_APPROVAL" \in Status
      BY DEF Status
    <3> QED BY <3>1, <3>2, RowUpdate
  <2> QED BY <1>3, <2>3, <2>4 DEF CreateApproval
<1>4. ASSUME NEW c \in Content, TimePasses(c)
      PROVE  ItemsTypeOK'
  <2>1. content' = [content EXCEPT ![c].when = "due"]
    BY <1>4 DEF TimePasses
  <2>2. content' \in [Content -> Row]
    BY <2>1, RowUpdate DEF When
  <2> QED BY <1>4, <2>2 DEF TimePasses
<1>5. ASSUME NEW d \in Decider, NEW c \in Content, NEW decision \in Decision,
             NEW k \in 1 .. Len(approvals[c]), DecideRead(d, c, k, decision)
      PROVE  ItemsTypeOK'
  <2>1. approvals[c] \in Seq(Approval) /\ approvals[c][k] \in Approval
    BY <1>5
  <2>2. decide' \in [Decider -> DecideCall \cup {Idle}]
    BY <1>5, <2>1 DEF DecideRead, DecideCall, RevisionCount, Approval, Decision
  <2>3. history[c] \in Seq(Past) /\ k \in 1 .. Len(history[c])
    BY DEF DecisionsFindApprovals
  <2>4. history[c][k] \in Past
    BY <2>3
  <2> DEFINE b == history[c][k].raced \/ \E o \in Decider :
                    decide[o] # Idle /\ decide[o].item = c
                      /\ decide[o].approval = k
  <2>5. [history[c][k] EXCEPT !.raced = b] \in Past
    BY <2>4 DEF Past
  <2>6. [history[c] EXCEPT ![k] = [history[c][k] EXCEPT !.raced = b]]
          \in Seq(Past)
    BY <2>3, <2>5, ExceptSeq
  <2>7. history' = [history EXCEPT ![c] =
                [history[c] EXCEPT ![k] = [history[c][k] EXCEPT !.raced = b]]]
    BY <1>5, <2>3, <2>4 DEF DecideRead
  <2>8. history' \in [Content -> Seq(Past)]
    BY <2>6, <2>7
  <2> QED BY <1>5, <2>2, <2>8 DEF DecideRead
<1>6. ASSUME NEW d \in Decider, DecideWrite(d)
      PROVE  ItemsTypeOK'
  <2> DEFINE call == decide[d]
  <2>1. call \in DecideCall /\ call # Idle
    BY <1>6, DecideIsCall DEF DecideWrite
  <2>2. call.item \in Content /\ call.decision \in Decision
        /\ call.revisionCount \in Nat
    BY <2>1 DEF DecideCall
  <2>3. /\ call.approval \in 1 .. Len(approvals[call.item])
        /\ call.approval \in 1 .. Len(history[call.item])
    BY <2>1, <2>2 DEF DecisionsFindApprovals
  <2>4. approvals' \in [Content -> Seq(Approval)]
    <3> DEFINE a == [status |-> call.decision,
                     revisionCount |-> call.revisionCount]
    <3>1. a \in Approval
      BY <2>2 DEF Approval
    <3>2. [approvals[call.item] EXCEPT ![call.approval] = a] \in Seq(Approval)
      BY <2>2, <2>3, <3>1, ExceptSeq
    <3> QED BY <1>6, <2>2, <3>2 DEF DecideWrite
  <2>5. history' \in [Content -> Seq(Past)]
    <3> DEFINE h == history[call.item][call.approval]
               n == IF call.decision = "REVISION_REQUESTED"
                    THEN h.revisions + 1 ELSE h.revisions
    <3>1. h \in Past
      <4>1. history[call.item] \in Seq(Past)
        BY <2>2
      <4> QED BY <2>3, <4>1
    <3>2. [h EXCEPT !.revisions = n] \in Past
      <4>1. n \in Nat
        BY <3>1 DEF Past
      <4> HIDE DEF h, n
      <4> QED BY <3>1, <4>1 DEF Past
    <3>3. [history[call.item] EXCEPT ![call.approval] =
             [h EXCEPT !.revisions = n]] \in Seq(Past)
      BY <2>2, <2>3, <3>2, ExceptSeq
    <3> QED BY <1>6, <2>2, <3>3 DEF DecideWrite
  <2>6. content' \in [Content -> Row]
    <3> DEFINE s == DecidedStatus(call.decision)
    <3>1. s \in Status
      BY DEF DecidedStatus, Status
    <3>2. content' = [content EXCEPT ![call.item].status = s]
      BY <1>6 DEF DecideWrite
    <3> QED BY <2>2, <3>1, <3>2, RowUpdate
  <2>7. decide' \in [Decider -> DecideCall \cup {Idle}]
    BY <1>6 DEF DecideWrite
  <2>8. /\ lastDecision' \in [Content -> Decision \cup {"NONE"}]
        /\ approvedOnce' \subseteq Content
    BY <1>6, <2>2 DEF DecideWrite
  <2> QED BY <1>6, <2>4, <2>5, <2>6, <2>7, <2>8 DEF DecideWrite
<1>7. ASSUME NEW t \in Target, Disconnect(t) \/ Reconnect(t)
      PROVE  ItemsTypeOK'
  BY <1>7 DEF Disconnect, Reconnect
<1> QED BY <1>1, <1>2, <1>3, <1>4, <1>5, <1>6, <1>7 DEF ItemsNext, DecideNext

\* A PATCH keeps the types: what it writes it has read, or has in its body.
LEMMA EditType ==
    ASSUME ItemsTypeOK, EditNext
    PROVE  ItemsTypeOK'
<1> USE DEF ItemsTypeOK
<1>1. ASSUME NEW e \in Editor, NEW c \in Content, NEW input \in EditInput,
             EditRead(e, c, input)
      PROVE  ItemsTypeOK'
  <2>1. input \in Input /\ content[c] \in Row
    BY EditInputAssumption
  <2>2. EditedTargets(input, content[c]) \subseteq Target
    BY <2>1 DEF EditedTargets, Input, Row
  <2>3. edit' \in [Editor -> EditCall \cup {Idle}]
    BY <1>1, <2>1, <2>2 DEF EditRead, EditCall, Row
  <2> QED BY <1>1, <2>3 DEF EditRead
<1>2. ASSUME NEW e \in Editor, EditWrite(e)
      PROVE  ItemsTypeOK'
  <2> DEFINE call == edit[e]
             row == content[call.item]
  <2>1. call \in EditCall
    BY <1>2, EditIsCall DEF EditWrite
  <2>2. /\ call.item \in Content /\ call.input \in Input
        /\ call.targets \in SUBSET Target /\ call.results \in Results
    BY <2>1 DEF EditCall
  <2>3. row \in Row
    BY <2>2
  <2>4. EditedResults(call) \in Results
    BY <2>2 DEF EditedResults, NoResults, Results, Result
  <2>5. EditedRow(call, row) \in Row
    <3>1. ClearsResults(call.input) => row.edition < MaxEdition
      BY <1>2 DEF EditWrite
    <3>2. row.edition \in 0 .. MaxEdition /\ MaxEdition \in Nat
      BY <2>3, BoundsAssumption DEF Row
    <3> DEFINE st == IF call.input.status = "keep" THEN row.status
                                                   ELSE call.input.status
               wh == IF call.input.when = "keep" THEN row.when
                                                 ELSE call.input.when
               ed == IF ClearsResults(call.input) THEN row.edition + 1
                                                  ELSE row.edition
    <3>3. st \in Status \cup {"ABSENT"}
      BY <2>2, <2>3 DEF Input, Row
    <3>4. wh \in When
      BY <2>2, <2>3 DEF Input, Row
    <3>5. ed \in 0 .. MaxEdition
      BY <3>1, <3>2
    <3>6. EditedRow(call, row) =
            [row EXCEPT !.status = st, !.when = wh, !.targets = call.targets,
                        !.results = EditedResults(call), !.edition = ed]
      BY DEF EditedRow
    <3> HIDE DEF call, row, st, wh, ed
    <3> QED BY <2>2, <2>3, <2>4, <3>3, <3>4, <3>5, <3>6 DEF Row
  <2>6. content' = [content EXCEPT ![call.item] = EditedRow(call, row)]
    BY <1>2 DEF EditWrite
  <2>7. content' \in [Content -> Row]
    BY <2>2, <2>5, <2>6
  <2>8. byHand' \subseteq Content
    BY <1>2, <2>2 DEF EditWrite
  <2> QED BY <1>2, <2>7, <2>8 DEF EditWrite
<1> QED BY <1>1, <1>2 DEF EditNext

\* A decision in flight finds its approval: approvals are only ever added.
LEMMA DecisionsStep ==
    ASSUME ItemsTypeOK, DecisionsFindApprovals, ItemsNext \/ EditNext
    PROVE  DecisionsFindApprovals'
<1> USE DEF ItemsTypeOK, DecisionsFindApprovals
<1>1. ASSUME NEW c \in Content, CreateApproval(c)
      PROVE  DecisionsFindApprovals'
  <2> DEFINE a == [status |-> "PENDING", revisionCount |-> 0]
             h == [revisions |-> 0, raced |-> FALSE]
  <2>1. a \in Approval /\ h \in Past
    BY DEF Approval, Past
  <2>2. /\ approvals' = [approvals EXCEPT ![c] = Append(approvals[c], a)]
        /\ history' = [history EXCEPT ![c] = Append(history[c], h)]
        /\ decide' = decide
    BY <1>1 DEF CreateApproval
  <2>3. /\ Len(Append(approvals[c], a)) = Len(approvals[c]) + 1
        /\ Len(Append(history[c], h)) = Len(history[c]) + 1
    <3> HIDE DEF a, h
    <3> QED BY <2>1
  <2>4. \A b \in Content : /\ Len(approvals'[b]) \in Nat
                           /\ Len(approvals[b]) \in Nat
                           /\ Len(approvals'[b]) >= Len(approvals[b])
                           /\ Len(history'[b]) = Len(approvals'[b])
    <3> HIDE DEF a, h
    <3> QED BY <2>2, <2>3
  <2>5. \A d \in Decider : decide[d] # Idle => decide[d].item \in Content
                                         /\ decide[d].approval \in Nat
    BY DEF DecideCall
  <2> QED BY <2>2, <2>4, <2>5
<1>2. ASSUME NEW d \in Decider, NEW c \in Content, NEW decision \in Decision,
             NEW k \in 1 .. Len(approvals[c]), DecideRead(d, c, k, decision)
      PROVE  DecisionsFindApprovals'
  <2>1. \A b \in Content : Len(history'[b]) = Len(history[b])
    <3>1. history[c] \in Seq(Past)
      OBVIOUS
    <3>2. \A x : Len([history[c] EXCEPT ![k] = x]) = Len(history[c])
      BY <3>1
    <3> QED BY <1>2, <3>2 DEF DecideRead
  <2>2. \A o \in Decider : decide'[o] # Idle =>
           decide'[o].approval \in 1 .. Len(approvals[decide'[o].item])
    BY <1>2 DEF DecideRead
  <2> QED BY <1>2, <2>1, <2>2 DEF DecideRead
<1>3. ASSUME NEW d \in Decider, DecideWrite(d)
      PROVE  DecisionsFindApprovals'
  <2> DEFINE call == decide[d]
  <2>1. call.item \in Content
    BY <1>3, DecideIsCall DEF DecideWrite, DecideCall
  <2>2. \A b \in Content : /\ Len(history'[b]) = Len(history[b])
                           /\ Len(approvals'[b]) = Len(approvals[b])
    <3>1. /\ history[call.item] \in Seq(Past)
          /\ approvals[call.item] \in Seq(Approval)
      BY <2>1
    <3>2. \A x : /\ Len([history[call.item] EXCEPT ![call.approval] = x])
                      = Len(history[call.item])
                 /\ Len([approvals[call.item] EXCEPT ![call.approval] = x])
                      = Len(approvals[call.item])
      BY <3>1
    <3> QED BY <1>3, <2>1, <3>2 DEF DecideWrite
  <2>3. \A o \in Decider : decide'[o] # Idle =>
           decide'[o] = decide[o] /\ decide[o].item \in Content
    BY <1>3 DEF DecideWrite, DecideCall
  <2> QED BY <2>2, <2>3
<1>4. CASE UNCHANGED <<approvals, decide, history>>
  BY <1>4
<1> QED BY <1>1, <1>2, <1>3, <1>4
    DEF ItemsNext, EditNext, DecideNext, Create, Schedule, TimePasses,
        Disconnect, Reconnect, EditRead, EditWrite

LEMMA ItemsStepOK ==
    ASSUME ItemsTypeOK, DecisionsFindApprovals, [ItemsNext \/ EditNext]_itemVars
    PROVE  (ItemsTypeOK /\ DecisionsFindApprovals)'
<1>1. CASE UNCHANGED itemVars
  BY <1>1 DEF itemVars, ItemsTypeOK, DecisionsFindApprovals
<1> QED BY <1>1, ItemsType, EditType, DecisionsStep

(***************************************************************************)
(* In every reachable state the rows, the approvals and the requests in    *)
(* flight have their types.                                                *)
(***************************************************************************)
THEOREM ItemsTypeCorrect == ItemsSpec => []ItemsTypeOK
<1>1. ItemsInit => ItemsTypeOK /\ DecisionsFindApprovals
  BY ItemsTypeInit DEF ItemsInit, DecisionsFindApprovals
<1> QED BY <1>1, ItemsStepOK, PTL DEF ItemsSpec
-----------------------------------------------------------------------------
(***************************************************************************)
(* The status of an item.  It is set with an approval in one transaction,  *)
(* or by hand, or to a status that speaks of no approval; and an approval  *)
(* that changes takes the status along.                                    *)
(***************************************************************************)

\* An approval that is asked for comes last; the others stay.
LEMMA ApprovalAdded ==
    ASSUME ItemsTypeOK, DecisionsFindApprovals, NEW c \in Content, CreateApproval(c)
    PROVE  /\ \A b \in Content \ {c} : approvals'[b] = approvals[b] /\ history'[b] = history[b]
           /\ Len(approvals'[c]) = Len(approvals[c]) + 1 /\ Len(approvals[c]) \in Nat
           /\ \A k \in 1 .. Len(approvals[c]) :
                 approvals'[c][k] = approvals[c][k] /\ history'[c][k] = history[c][k]
           /\ approvals'[c][Len(approvals[c]) + 1] = [status |-> "PENDING", revisionCount |-> 0]
           /\ history'[c][Len(approvals[c]) + 1] = [revisions |-> 0, raced |-> FALSE]
<1> DEFINE a == [status |-> "PENDING", revisionCount |-> 0]
           h == [revisions |-> 0, raced |-> FALSE]
<1>1. /\ approvals[c] \in Seq(Approval) /\ history[c] \in Seq(Past)
      /\ Len(history[c]) = Len(approvals[c])
      /\ approvals \in [Content -> Seq(Approval)] /\ history \in [Content -> Seq(Past)]
  BY DEF ItemsTypeOK, DecisionsFindApprovals
<1>2. a \in Approval /\ h \in Past
  BY DEF Approval, Past
<1>3. /\ approvals' = [approvals EXCEPT ![c] = Append(approvals[c], a)]
      /\ history' = [history EXCEPT ![c] = Append(history[c], h)]
  BY DEF CreateApproval
<1> HIDE DEF a, h
<1>4. /\ Len(Append(approvals[c], a)) = Len(approvals[c]) + 1
      /\ \A k \in 1 .. Len(approvals[c]) : Append(approvals[c], a)[k] = approvals[c][k]
      /\ Append(approvals[c], a)[Len(approvals[c]) + 1] = a
  BY <1>1, <1>2
<1>5. /\ \A k \in 1 .. Len(history[c]) : Append(history[c], h)[k] = history[c][k]
      /\ Append(history[c], h)[Len(history[c]) + 1] = h
  BY <1>1, <1>2
<1>6. Len(approvals[c]) \in Nat
  BY <1>1
<1>7. a = [status |-> "PENDING", revisionCount |-> 0] /\ h = [revisions |-> 0, raced |-> FALSE]
  BY DEF a, h
<1> QED BY <1>1, <1>3, <1>4, <1>5, <1>6, <1>7

\* A decision changes one approval.
LEMMA ApprovalDecided ==
    ASSUME ItemsTypeOK, DecisionsFindApprovals, NEW d \in Decider, DecideWrite(d),
           NEW c, c = decide[d].item, NEW k, k = decide[d].approval
    PROVE  /\ c \in Content /\ k \in 1 .. Len(approvals[c])
           /\ decide[d].decision \in Decision /\ decide[d] # Idle
           /\ \A b \in Content \ {c} : approvals'[b] = approvals[b] /\ history'[b] = history[b]
           /\ Len(approvals'[c]) = Len(approvals[c])
           /\ \A j \in (1 .. Len(approvals[c])) \ {k} :
                 approvals'[c][j] = approvals[c][j] /\ history'[c][j] = history[c][j]
           /\ approvals'[c][k] = [status |-> decide[d].decision,
                                  revisionCount |-> decide[d].revisionCount]
           /\ history'[c][k].raced = history[c][k].raced
           /\ history'[c][k].revisions =
                 IF decide[d].decision = "REVISION_REQUESTED" THEN history[c][k].revisions + 1
                                                              ELSE history[c][k].revisions
<1>1. /\ decide[d] \in DecideCall /\ decide[d] # Idle
      /\ c \in Content /\ decide[d].decision \in Decision
  BY DecideIsCall DEF DecideWrite, DecideCall
<1>2. /\ approvals[c] \in Seq(Approval) /\ history[c] \in Seq(Past)
      /\ Len(history[c]) = Len(approvals[c]) /\ k \in 1 .. Len(approvals[c])
      /\ approvals \in [Content -> Seq(Approval)] /\ history \in [Content -> Seq(Past)]
  BY <1>1 DEF ItemsTypeOK, DecisionsFindApprovals
<1> DEFINE a == [status |-> decide[d].decision, revisionCount |-> decide[d].revisionCount]
           r == IF decide[d].decision = "REVISION_REQUESTED" THEN history[c][k].revisions + 1
                                                             ELSE history[c][k].revisions
           h == [history[c][k] EXCEPT !.revisions = r]
<1>3. /\ approvals' = [approvals EXCEPT ![c] = [approvals[c] EXCEPT ![k] = a]]
      /\ history' = [history EXCEPT ![c] = [history[c] EXCEPT ![k] = h]]
  BY DEF DecideWrite
<1>4. history[c][k] \in Past
  BY <1>2
<1>5. h.raced = history[c][k].raced /\ h.revisions = r
  <2> HIDE DEF r
  <2> QED BY <1>4 DEF Past
<1> HIDE DEF a, h
<1>6. /\ Len([approvals[c] EXCEPT ![k] = a]) = Len(approvals[c])
      /\ [approvals[c] EXCEPT ![k] = a][k] = a /\ [history[c] EXCEPT ![k] = h][k] = h
      /\ \A j \in (1 .. Len(approvals[c])) \ {k} :
            [approvals[c] EXCEPT ![k] = a][j] = approvals[c][j]
            /\ [history[c] EXCEPT ![k] = h][j] = history[c][j]
  BY <1>2
<1>7. /\ approvals'[c] = [approvals[c] EXCEPT ![k] = a]
      /\ history'[c] = [history[c] EXCEPT ![k] = h]
      /\ \A b \in Content \ {c} : approvals'[b] = approvals[b] /\ history'[b] = history[b]
  BY <1>1, <1>2, <1>3
<1>8. a = [status |-> decide[d].decision, revisionCount |-> decide[d].revisionCount]
  BY DEF a
<1>9. /\ history'[c][k].raced = history[c][k].raced
      /\ history'[c][k].revisions = r
  <2>1. history'[c][k] = h
    BY <1>6, <1>7
  <2> HIDE DEF r
  <2> QED BY <1>5, <2>1
<1>10. approvals'[c][k] = [status |-> decide[d].decision,
                           revisionCount |-> decide[d].revisionCount]
  BY <1>6, <1>7, <1>8
<1>11. /\ Len(approvals'[c]) = Len(approvals[c])
       /\ \A j \in (1 .. Len(approvals[c])) \ {k} :
             approvals'[c][j] = approvals[c][j] /\ history'[c][j] = history[c][j]
  BY <1>6, <1>7
<1> QED BY <1>1, <1>2, <1>7, <1>9, <1>10, <1>11, Zenon

LEMMA StatusStep ==
    ASSUME ItemsTypeOK, DecisionsFindApprovals, StatusAgreesWithApprovals,
           [ItemsNext \/ EditNext]_itemVars
    PROVE  StatusAgreesWithApprovals'
<1>1. content \in [Content -> Row]
  BY DEF ItemsTypeOK
<1>2. ASSUME approvals' = approvals, byHand \subseteq byHand',
             \A c \in Content \ byHand' :
                content'[c].status \in {content[c].status, "IDEA", "SCHEDULED"}
      PROVE  StatusAgreesWithApprovals'
  BY <1>2 DEF StatusAgreesWithApprovals, Pending, Decision
<1>3. ASSUME NEW c \in Content, NEW status \in CreateStatus, NEW when \in When,
             NEW targets \in SUBSET Target, Create(c, status, when, targets)
      PROVE  StatusAgreesWithApprovals'
  BY <1>1, <1>2, <1>3 DEF Create, Row
<1>4. ASSUME NEW c \in Content, NEW when \in When, Schedule(c, when)
      PROVE  StatusAgreesWithApprovals'
  BY <1>1, <1>2, <1>4 DEF Schedule, Scheduled, Row
<1>5. ASSUME NEW c \in Content, CreateApproval(c)
      PROVE  StatusAgreesWithApprovals'
  <2>1. ASSUME NEW b \in Content, NEW s, Pending(b, s) PROVE Pending(b, s)'
    BY <1>5, <2>1, ApprovalAdded DEF Pending
  <2>2. Pending(c, "PENDING")'
    <3> DEFINE n == Len(approvals[c]) + 1
    <3>1. n \in 1 .. Len(approvals'[c]) /\ approvals'[c][n].status = "PENDING"
      BY <1>5, ApprovalAdded
    <3> QED BY <3>1 DEF Pending
  <2>3. /\ content'[c].status = "CLIENT_APPROVAL" /\ byHand' = byHand
        /\ \A b \in Content \ {c} : content'[b] = content[b]
    BY <1>1, <1>5 DEF CreateApproval, Row
  <2> QED BY <2>1, <2>2, <2>3 DEF StatusAgreesWithApprovals, Decision
<1>6. ASSUME NEW d \in Decider, DecideWrite(d), NEW c, c = decide[d].item,
             NEW k, k = decide[d].approval, NEW s, s = decide[d].decision
      PROVE  StatusAgreesWithApprovals'
  <2>1. /\ c \in Content /\ k \in 1 .. Len(approvals[c]) /\ decide[d].decision \in Decision
        /\ Len(approvals'[c]) = Len(approvals[c])
        /\ approvals'[c][k] = [status |-> decide[d].decision,
                               revisionCount |-> decide[d].revisionCount]
        /\ \A b \in Content \ {c} : approvals'[b] = approvals[b]
    BY <1>6, ApprovalDecided, Z3
  <2>2. /\ content'[c].status = s /\ byHand' = byHand
        /\ \A b \in Content \ {c} : content'[b] = content[b]
    BY <1>1, <1>6, <2>1 DEF DecideWrite, DecidedStatus, Row, Decision
  <2>3. k \in 1 .. Len(approvals'[c]) /\ approvals'[c][k].status = s
    BY <1>6, <2>1
  <2>4. Pending(c, s)'
    BY <2>3 DEF Pending
  <2> QED BY <1>6, <2>1, <2>2, <2>4 DEF StatusAgreesWithApprovals, Pending, Decision
<1>7. ASSUME NEW e \in Editor, EditWrite(e)
      PROVE  StatusAgreesWithApprovals'
  <2> DEFINE c == edit[e].item
             row == EditedRow(edit[e], content[c])
  <2>1. c \in Content
    BY <1>7, EditIsCall DEF EditWrite, EditCall, ItemsTypeOK
  <2>2. /\ content' = [content EXCEPT ![c] = row]
        /\ byHand' = IF edit[e].input.status = "keep" THEN byHand ELSE byHand \cup {c}
        /\ approvals' = approvals
    BY <1>7 DEF EditWrite
  <2>3. edit[e].input.status = "keep" => row.status = content[c].status
    <3>1. content[c] \in Row
      BY <1>1, <2>1
    <3> DEFINE wh == IF edit[e].input.when = "keep" THEN content[c].when ELSE edit[e].input.when
               ed == IF ClearsResults(edit[e].input) THEN content[c].edition + 1
                                                     ELSE content[c].edition
               rs == EditedResults(edit[e])
    <3>2. edit[e].input.status = "keep" =>
             row = [content[c] EXCEPT !.status = content[c].status, !.when = wh,
                       !.targets = edit[e].targets, !.results = rs, !.edition = ed]
      BY DEF EditedRow
    <3> HIDE DEF wh, ed, rs
    <3> QED BY <3>1, <3>2 DEF Row
  <2> HIDE DEF row
  <2> QED BY <1>1, <1>2, <2>1, <2>2, <2>3
<1>8. ASSUME NEW c \in Content, TimePasses(c)
      PROVE  StatusAgreesWithApprovals'
  BY <1>1, <1>2, <1>8 DEF TimePasses, Row
<1>9. CASE UNCHANGED <<content, approvals, byHand>>
  BY <1>9 DEF StatusAgreesWithApprovals, Pending
<1> QED BY <1>3, <1>4, <1>5, <1>6, <1>7, <1>8, <1>9
    DEF ItemsNext, EditNext, DecideNext, DecideRead, EditRead, Disconnect, Reconnect, itemVars

(***************************************************************************)
(* As long as nobody set the status of an item by hand, an item that reads *)
(* APPROVED, REVISION_REQUESTED or CLIENT_APPROVAL has an approval in that *)
(* very state, whatever approvals, decisions and edits interleave.         *)
(***************************************************************************)
THEOREM StatusSpeaksTrue == ItemsSpec => []StatusAgreesWithApprovals
<1>1. ItemsInit => ItemsTypeOK /\ DecisionsFindApprovals /\ StatusAgreesWithApprovals
  BY ItemsTypeInit DEF ItemsInit, DecisionsFindApprovals, StatusAgreesWithApprovals, Decision
<1>2. ItemsTypeOK /\ DecisionsFindApprovals /\ [ItemsNext \/ EditNext]_itemVars
         => (ItemsTypeOK /\ DecisionsFindApprovals)'
  BY ItemsStepOK
<1> QED BY <1>1, <1>2, StatusStep, PTL DEF ItemsSpec
-----------------------------------------------------------------------------
(***************************************************************************)
(* The revisions of an approval.  RevisionCountIsExact needs that a        *)
(* decision in flight still has the count it should: the approval it read  *)
(* is as it was, and no other decision has it in hand, unless they raced.  *)
(***************************************************************************)
CountInHand(d) ==
    decide[d] # Idle =>
       LET c == decide[d].item
           k == decide[d].approval IN
       \/ history[c][k].raced
       \/ /\ decide[d].revisionCount = RevisionCount(decide[d].decision, approvals[c][k])
          /\ \A o \in Decider \ {d} : decide[o] # Idle =>
                                         decide[o].item # c \/ decide[o].approval # k

CountsInHand == \A d \in Decider : CountInHand(d)

\* A decision that is read changes what is known of one approval.
LEMMA DecisionTaken ==
    ASSUME ItemsTypeOK, DecisionsFindApprovals, NEW d \in Decider, NEW c \in Content,
           NEW decision \in Decision, NEW k \in 1 .. Len(approvals[c]),
           DecideRead(d, c, k, decision)
    PROVE  /\ approvals' = approvals
           /\ \A b \in Content \ {c} : history'[b] = history[b]
           /\ \A j \in (1 .. Len(approvals[c])) \ {k} : history'[c][j] = history[c][j]
           /\ history'[c][k].revisions = history[c][k].revisions
           /\ history[c][k].raced => history'[c][k].raced
           /\ (\E o \in Decider : decide[o] # Idle /\ decide[o].item = c
                                     /\ decide[o].approval = k) => history'[c][k].raced
<1> DEFINE r == history[c][k].raced \/ \E o \in Decider :
                  decide[o] # Idle /\ decide[o].item = c /\ decide[o].approval = k
           h == [history[c][k] EXCEPT !.raced = r]
<1>1. /\ history[c] \in Seq(Past) /\ k \in 1 .. Len(history[c])
      /\ Len(history[c]) = Len(approvals[c]) /\ history \in [Content -> Seq(Past)]
  BY DEF ItemsTypeOK, DecisionsFindApprovals
<1>2. history[c][k] \in Past
  BY <1>1
<1>3. history' = [history EXCEPT ![c] = [history[c] EXCEPT ![k] = h]]
  BY <1>1, <1>2 DEF DecideRead
<1>4. h.revisions = history[c][k].revisions /\ h.raced = r
  <2> HIDE DEF r
  <2> QED BY <1>2 DEF Past
<1> HIDE DEF h
<1>5. /\ history'[c] = [history[c] EXCEPT ![k] = h]
      /\ \A b \in Content \ {c} : history'[b] = history[b]
  BY <1>1, <1>3
<1>6. /\ history'[c][k] = h
      /\ \A j \in (1 .. Len(approvals[c])) \ {k} : history'[c][j] = history[c][j]
  BY <1>1, <1>5
<1>7. approvals' = approvals
  BY DEF DecideRead
<1> QED BY <1>4, <1>5, <1>6, <1>7

LEMMA TakenCounts ==
    ASSUME ItemsTypeOK, DecisionsFindApprovals, RevisionCountIsExact, CountsInHand,
           NEW d \in Decider, NEW c \in Content, NEW decision \in Decision,
           NEW k \in 1 .. Len(approvals[c]), DecideRead(d, c, k, decision)
    PROVE  RevisionCountIsExact' /\ CountsInHand'
<1>1. RevisionCountIsExact'
  <2>0. approvals' = approvals
    BY DEF DecideRead
  <2> SUFFICES ASSUME NEW b \in Content, NEW j \in 1 .. Len(approvals[b]), ~history'[b][j].raced
               PROVE  approvals[b][j].revisionCount = history'[b][j].revisions
    BY <2>0 DEF RevisionCountIsExact
  <2>1. CASE b = c /\ j = k
    BY <2>1, DecisionTaken DEF RevisionCountIsExact
  <2>2. CASE b # c \/ j # k
    <3>1. history'[b][j] = history[b][j]
      BY <2>2, DecisionTaken
    <3> QED BY <3>1 DEF RevisionCountIsExact
  <2> QED BY <2>1, <2>2
<1>2. /\ decide' = [decide EXCEPT ![d] =
                       [pc |-> "write", item |-> c, approval |-> k, decision |-> decision,
                        revisionCount |-> RevisionCount(decision, approvals[c][k])]]
      /\ decide[d] = Idle /\ approvals' = approvals
  BY DEF DecideRead
<1>3. \A o \in Decider \ {d} : decide'[o] = decide[o]
  BY <1>2
<1>4. CountInHand(d)'
  <2> SUFFICES ASSUME ~history'[c][k].raced
               PROVE  \A o \in Decider \ {d} : decide[o] # Idle =>
                         decide[o].item # c \/ decide[o].approval # k
    BY <1>2, <1>3 DEF CountInHand, ItemsTypeOK, RevisionCount
  <2> QED BY DecisionTaken
<1>5. ASSUME NEW o \in Decider \ {d} PROVE CountInHand(o)'
  <2> SUFFICES ASSUME decide[o] # Idle, NEW b, b = decide[o].item,
                      NEW j, j = decide[o].approval, ~history'[b][j].raced
               PROVE  /\ decide[o].revisionCount = RevisionCount(decide[o].decision, approvals[b][j])
                      /\ \A p \in Decider \ {o} : decide'[p] # Idle =>
                                         decide'[p].item # b \/ decide'[p].approval # j
    BY <1>2, <1>3 DEF CountInHand, RevisionCount
  <2>1. b \in Content /\ j \in 1 .. Len(approvals[b])
    BY DEF ItemsTypeOK, DecisionsFindApprovals, DecideCall
  <2>2. b # c \/ j # k
    BY DecisionTaken
  <2>3. history'[b][j] = history[b][j]
    BY <2>1, <2>2, DecisionTaken
  <2>4. /\ decide[o].revisionCount = RevisionCount(decide[o].decision, approvals[b][j])
        /\ \A p \in Decider \ {o} : decide[p] # Idle => decide[p].item # b \/ decide[p].approval # j
    BY <2>3, Zenon DEF CountsInHand, CountInHand
  <2>5. decide'[d].item = c /\ decide'[d].approval = k
    BY <1>2 DEF ItemsTypeOK
  <2> QED BY <1>3, <2>2, <2>4, <2>5
<1> QED BY <1>1, <1>4, <1>5 DEF CountsInHand

LEMMA DecidedCounts ==
    ASSUME ItemsTypeOK, DecisionsFindApprovals, RevisionCountIsExact, CountsInHand,
           NEW d \in Decider, DecideWrite(d), NEW c, c = decide[d].item,
           NEW k, k = decide[d].approval, NEW s, s = decide[d].decision
    PROVE  RevisionCountIsExact' /\ CountsInHand'
<1>0. /\ c \in Content /\ k \in 1 .. Len(approvals[c]) /\ decide[d] # Idle
      /\ \A b \in Content \ {c} : approvals'[b] = approvals[b] /\ history'[b] = history[b]
      /\ Len(approvals'[c]) = Len(approvals[c])
      /\ \A j \in (1 .. Len(approvals[c])) \ {k} :
            approvals'[c][j] = approvals[c][j] /\ history'[c][j] = history[c][j]
      /\ approvals'[c][k] = [status |-> decide[d].decision,
                             revisionCount |-> decide[d].revisionCount]
      /\ history'[c][k].raced = history[c][k].raced
      /\ history'[c][k].revisions =
            IF decide[d].decision = "REVISION_REQUESTED" THEN history[c][k].revisions + 1
                                                         ELSE history[c][k].revisions
  BY ApprovalDecided, Z3
<1>1. /\ c \in Content /\ k \in 1 .. Len(approvals[c]) /\ decide[d] # Idle
      /\ \A b \in Content \ {c} : approvals'[b] = approvals[b] /\ history'[b] = history[b]
      /\ Len(approvals'[c]) = Len(approvals[c])
      /\ \A j \in (1 .. Len(approvals[c])) \ {k} :
            approvals'[c][j] = approvals[c][j] /\ history'[c][j] = history[c][j]
      /\ approvals'[c][k].revisionCount = decide[d].revisionCount
      /\ history'[c][k].raced = history[c][k].raced
      /\ history'[c][k].revisions = IF s = "REVISION_REQUESTED" THEN history[c][k].revisions + 1
                                                               ELSE history[c][k].revisions
  <2>1. approvals'[c][k].revisionCount = decide[d].revisionCount
    BY <1>0
  <2>2. history'[c][k].revisions = IF s = "REVISION_REQUESTED" THEN history[c][k].revisions + 1
                                                              ELSE history[c][k].revisions
    <3>1. history'[c][k].revisions =
            IF decide[d].decision = "REVISION_REQUESTED" THEN history[c][k].revisions + 1
                                                         ELSE history[c][k].revisions
      BY <1>0
    <3> QED BY <3>1
  <2> QED BY <1>0, <2>1, <2>2, Zenon
<1>2. decide' = [decide EXCEPT ![d] = Idle] /\ decide'[d] = Idle
      /\ \A o \in Decider \ {d} : decide'[o] = decide[o]
  BY DEF DecideWrite, ItemsTypeOK
<1>3. \/ history[c][k].raced
      \/ /\ decide[d].revisionCount = RevisionCount(s, approvals[c][k])
         /\ \A o \in Decider \ {d} : decide[o] # Idle => decide[o].item # c \/ decide[o].approval # k
  BY <1>1 DEF CountsInHand, CountInHand
<1>4. RevisionCountIsExact'
  <2> SUFFICES ASSUME NEW b \in Content, NEW j \in 1 .. Len(approvals'[b]), ~history'[b][j].raced
               PROVE  approvals'[b][j].revisionCount = history'[b][j].revisions
    BY DEF RevisionCountIsExact
  <2>1. j \in 1 .. Len(approvals[b])
    BY <1>1
  <2>2. CASE b = c /\ j = k
    <3>1. approvals[c][k].revisionCount = history[c][k].revisions
      BY <1>1, <2>2 DEF RevisionCountIsExact
    <3> QED BY <1>1, <1>3, <2>2, <3>1 DEF RevisionCount
  <2>3. CASE b # c \/ j # k
    <3>1. history'[b][j] = history[b][j] /\ approvals'[b][j] = approvals[b][j]
      BY <1>1, <2>1, <2>3
    <3> QED BY <2>1, <3>1 DEF RevisionCountIsExact
  <2> QED BY <2>2, <2>3
<1>5. ASSUME NEW o \in Decider PROVE CountInHand(o)'
  <2> SUFFICES ASSUME o # d, decide[o] # Idle, NEW b, b = decide[o].item,
                      NEW j, j = decide[o].approval, ~history'[b][j].raced
               PROVE  /\ decide[o].revisionCount = RevisionCount(decide[o].decision, approvals'[b][j])
                      /\ \A p \in Decider \ {o} : decide'[p] # Idle =>
                                         decide'[p].item # b \/ decide'[p].approval # j
    BY <1>2 DEF CountInHand, RevisionCount
  <2>1. b \in Content /\ j \in 1 .. Len(approvals[b])
    BY DEF ItemsTypeOK, DecisionsFindApprovals, DecideCall
  <2>2. b # c \/ j # k
    BY <1>1, <1>3
  <2>3. history'[b][j] = history[b][j] /\ approvals'[b][j] = approvals[b][j]
    BY <1>1, <2>1, <2>2
  <2>4. /\ decide[o].revisionCount = RevisionCount(decide[o].decision, approvals[b][j])
        /\ \A p \in Decider \ {o} : decide[p] # Idle => decide[p].item # b \/ decide[p].approval # j
    BY <2>3, Zenon DEF CountsInHand, CountInHand
  <2> QED BY <1>2, <2>3, <2>4
<1> QED BY <1>4, <1>5 DEF CountsInHand

LEMMA AddedCounts ==
    ASSUME ItemsTypeOK, DecisionsFindApprovals, RevisionCountIsExact, CountsInHand,
           NEW c \in Content, CreateApproval(c)
    PROVE  RevisionCountIsExact' /\ CountsInHand'
<1>1. ASSUME NEW b \in Content, NEW j \in 1 .. Len(approvals[b])
      PROVE  approvals'[b][j] = approvals[b][j] /\ history'[b][j] = history[b][j]
  BY ApprovalAdded
<1>2. RevisionCountIsExact'
  <2> SUFFICES ASSUME NEW b \in Content, NEW j \in 1 .. Len(approvals'[b]), ~history'[b][j].raced
               PROVE  approvals'[b][j].revisionCount = history'[b][j].revisions
    BY DEF RevisionCountIsExact
  <2>1. CASE j \in 1 .. Len(approvals[b])
    BY <1>1, <2>1 DEF RevisionCountIsExact
  <2>2. CASE j \notin 1 .. Len(approvals[b])
    <3>1. b = c /\ j = Len(approvals[c]) + 1
      BY <2>2, ApprovalAdded
    <3> QED BY <3>1, ApprovalAdded
  <2> QED BY <2>1, <2>2
<1>3. ASSUME NEW o \in Decider PROVE CountInHand(o)'
  <2> SUFFICES ASSUME decide[o] # Idle, NEW b, b = decide[o].item,
                      NEW j, j = decide[o].approval, ~history'[b][j].raced
               PROVE  /\ decide[o].revisionCount = RevisionCount(decide[o].decision, approvals'[b][j])
                      /\ \A p \in Decider \ {o} : decide[p] # Idle =>
                                         decide[p].item # b \/ decide[p].approval # j
    BY DEF CreateApproval, CountInHand, RevisionCount
  <2>1. b \in Content /\ j \in 1 .. Len(approvals[b])
    BY DEF ItemsTypeOK, DecisionsFindApprovals, DecideCall
  <2>2. history'[b][j] = history[b][j] /\ approvals'[b][j] = approvals[b][j]
    BY <1>1, <2>1
  <2> QED BY <2>2, Zenon DEF CountsInHand, CountInHand
<1> QED BY <1>2, <1>3 DEF CountsInHand

LEMMA CountStep ==
    ASSUME ItemsTypeOK, DecisionsFindApprovals, RevisionCountIsExact, CountsInHand,
           [ItemsNext \/ EditNext]_itemVars
    PROVE  RevisionCountIsExact' /\ CountsInHand'
<1>1. CASE UNCHANGED <<approvals, decide, history>>
  BY <1>1 DEF RevisionCountIsExact, CountsInHand, CountInHand, RevisionCount
<1> QED BY <1>1, TakenCounts, DecidedCounts, AddedCounts
    DEF ItemsNext, EditNext, DecideNext, Create, Schedule, TimePasses, EditRead, EditWrite,
        Disconnect, Reconnect, itemVars

(***************************************************************************)
(* The revision count of an approval is the number of times a revision of  *)
(* it was requested, unless two decisions of it overlapped.                *)
(***************************************************************************)
THEOREM RevisionsAreCounted == ItemsSpec => []RevisionCountIsExact
<1>1. ItemsInit => /\ ItemsTypeOK /\ DecisionsFindApprovals
                   /\ RevisionCountIsExact /\ CountsInHand
  BY ItemsTypeInit DEF ItemsInit, DecisionsFindApprovals, RevisionCountIsExact, CountsInHand,
                       CountInHand
<1> QED BY <1>1, ItemsStepOK, CountStep, PTL DEF ItemsSpec
=============================================================================
