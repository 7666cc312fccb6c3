---------------------- MODULE ContentPublishing_proofs ----------------------
(***************************************************************************)
(* Theorems about ContentPublishing, for any number of items, targets,     *)
(* instances and requests in flight.                                       *)
(***************************************************************************)
EXTENDS ContentPublishing, ContentItems_proofs

(***************************************************************************)
(* Calls: the program counter tells which kind of record a slot holds.     *)
(***************************************************************************)

\* A slot of pub whose pc is one of publish's own holds a call of publish.
LEMMA CallIsCall ==
    ASSUME TypeOK, NEW p \in Publisher,
           pub[p].pc \in {"check", "post", "saveOk", "saveFailed"}
    PROVE  pub[p] \in PublishCall
<1>1. pub[p] \in PublishCall \cup PublishReturn \cup {Idle}
  BY DEF TypeOK
<1>2. pub[p] # Idle
  BY DEF Idle
<1>3. pub[p] \notin PublishReturn
  BY DEF PublishReturn
<1> QED BY <1>1, <1>2, <1>3

\* A slot whose pc is one the sweep reads names an item.
LEMMA ReturnIsReturn ==
    ASSUME TypeOK, NEW p \in Publisher,
           pub[p].pc \in {"done", "thrown", "counted"}
    PROVE  pub[p] \in PublishReturn
<1>1. pub[p] \in PublishCall \cup PublishReturn \cup {Idle}
  BY DEF TypeOK
<1>2. pub[p] # Idle
  BY DEF Idle
<1>3. pub[p] \notin PublishCall
  BY DEF PublishCall
<1> QED BY <1>1, <1>2, <1>3

\* An instance in a sweep has a list and the attempts it read.
LEMMA SweepIsSweep ==
    ASSUME TypeOK, NEW i \in Instance, sweep[i].pc \in {"filter", "loop"}
    PROVE  sweep[i] \in Sweep /\ sweep[i] # Idle
BY DEF TypeOK, Idle

-----------------------------------------------------------------------------
(***************************************************************************)
(* Types.                                                                  *)
(***************************************************************************)

\* The initial state is well typed.
LEMMA TypeInit == Init => TypeOK
<1> SUFFICES ASSUME Init PROVE TypeOK
  OBVIOUS
<1> USE DEF Init
<1>1. ItemsTypeOK
  BY ItemsTypeInit
<1>2. posts \in [Content -> [Target -> [0 .. MaxEdition -> 0 .. 2]]]
  OBVIOUS
<1> QED BY <1>1, <1>2, MaxCrashesAssumption DEF TypeOK

\* Reading an item for publishing gives a call, or its refusal.
LEMMA ReadType ==
    ASSUME TypeOK, NEW p \in Publisher, NEW c \in Content, PublishRead(p, c)
    PROVE  /\ pub' \in [Publisher -> PublishCall \cup PublishReturn \cup {Idle}]
           /\ disturbed' \subseteq Content
<1>1. content[c] \in Row
  BY DEF TypeOK, ItemsTypeOK
<1>2. Return(p, c, "thrown") \in PublishReturn \cup {Idle}
  BY DEF Return, PublishReturn
<1> DEFINE call == [pc |-> "check", item |-> c,
                    targets |-> content[c].targets,
                    results |-> content[c].results,
                    edition |-> content[c].edition]
<1>3. call \in PublishCall
  BY <1>1 DEF PublishCall, Row
<1> HIDE DEF call
<1>4. pub' \in [Publisher -> PublishCall \cup PublishReturn \cup {Idle}]
  <2>1. pub' = [pub EXCEPT ![p] = IF content[c].targets = {}
                                  THEN Return(p, c, "thrown") ELSE call]
    BY DEF PublishRead, call
  <2> QED BY <1>2, <1>3, <2>1 DEF TypeOK
<1> QED BY <1>4 DEF PublishRead, TypeOK

\* Every step of publish keeps the types.
LEMMA PublishType ==
    ASSUME TypeOK, NEW p \in Publisher, PublishStep(p)
    PROVE  TypeOK'
<1>1. /\ ItemsTypeOK
      /\ pub \in [Publisher -> PublishCall \cup PublishReturn \cup {Idle}]
  BY DEF TypeOK
<1>2. \A c \in Content, pc \in {"done", "thrown"} :
         Return(p, c, pc) \in PublishReturn \cup {Idle}
  BY DEF Return, PublishReturn
<1>3. ASSUME PublishCheck(p)
      PROVE  TypeOK'
  <2>1. pub[p] \in PublishCall
    BY <1>3, CallIsCall DEF PublishCheck
  <2>2. /\ pub[p].item \in Content
        /\ [pub[p] EXCEPT !.pc = "post"] \in PublishCall
    BY <2>1 DEF PublishCall
  <2>3. pub' \in [Publisher -> PublishCall \cup PublishReturn \cup {Idle}]
    BY <1>1, <1>2, <1>3, <2>2 DEF PublishCheck
  <2> QED BY <1>3, <2>3 DEF PublishCheck, TypeOK, ItemsTypeOK, itemVars
<1>4. ASSUME NEW t \in Target, NEW outcome \in MetaOutcome,
             PublishPost(p, t, outcome)
      PROVE  TypeOK'
  <2> DEFINE call == pub[p]
             pc == IF outcome = "accepted" THEN "saveOk" ELSE "saveFailed"
             next == [call EXCEPT !.pc = pc, !.results[t] = ResultOf(outcome)]
  <2>1. call \in PublishCall
    BY <1>4, CallIsCall DEF PublishPost
  <2>2. call.item \in Content /\ call.edition \in 0 .. MaxEdition
    BY <2>1 DEF PublishCall
  <2>3. next \in PublishCall
    <3>1. pc \in {"saveOk", "saveFailed"}
      OBVIOUS
    <3>2. [call.results EXCEPT ![t] = ResultOf(outcome)] \in Results
      BY <2>1 DEF PublishCall, Results, Result, ResultOf
    <3> HIDE DEF call, pc
    <3> QED BY <2>1, <3>1, <3>2 DEF PublishCall
  <2>4. pub' = [pub EXCEPT ![p] = next]
    BY <1>4 DEF PublishPost
  <2>5. pub' \in [Publisher -> PublishCall \cup PublishReturn \cup {Idle}]
    <3> HIDE DEF next
    <3> QED BY <1>1, <2>3, <2>4
  <2>6. posts' \in [Content -> [Target -> [0 .. MaxEdition -> 0 .. 2]]]
    <3>1. posts[call.item][t][call.edition] \in 0 .. 2
      <4>1. posts \in [Content -> [Target -> [0 .. MaxEdition -> 0 .. 2]]]
        BY DEF TypeOK
      <4> HIDE DEF call
      <4> QED BY <2>2, <4>1
    <3>2. UpToTwo(posts[call.item][t][call.edition]) \in 0 .. 2
      BY <3>1 DEF UpToTwo
    <3> QED BY <1>4, <2>2, <3>2 DEF PublishPost, TypeOK
  <2>7. disturbed' \subseteq Content
    BY <1>4, <2>2 DEF PublishPost, TypeOK
  <2> QED BY <1>4, <2>5, <2>6, <2>7
      DEF PublishPost, TypeOK, ItemsTypeOK, itemVars
<1>5. ASSUME PublishSave(p) \/ PublishFinish(p)
      PROVE  TypeOK'
  <2> DEFINE call == pub[p]
             row == content[call.item]
  <2>1. call \in PublishCall
    BY <1>5, CallIsCall DEF PublishSave, PublishFinish
  <2>2. /\ call.item \in Content /\ call.targets \in SUBSET Target
        /\ call.results \in Results
        /\ \A n \in 0 .. MaxEdition :
              [call EXCEPT !.pc = "post", !.edition = n] \in PublishCall
    BY <2>1 DEF PublishCall
  <2>3. /\ row.edition \in 0 .. MaxEdition
        /\ SavedRow(call, row) \in Row
        /\ [SavedRow(call, row) EXCEPT !.status = "PUBLISHED"] \in Row
    <3>1. row \in Row
      BY <1>1, <2>2 DEF ItemsTypeOK
    <3> HIDE DEF row, call
    <3> QED BY <2>2, <3>1 DEF SavedRow, Row, Status
  <2>4. content' \in [Content -> Row]
    BY <1>1, <1>5, <2>2, <2>3 DEF PublishSave, PublishFinish, ItemsTypeOK
  <2>5. pub' \in [Publisher -> PublishCall \cup PublishReturn \cup {Idle}]
    BY <1>1, <1>2, <1>5, <2>2, <2>3 DEF PublishSave, PublishFinish
  <2> QED BY <1>5, <2>4, <2>5
      DEF PublishSave, PublishFinish, TypeOK, ItemsTypeOK
<1> QED BY <1>3, <1>4, <1>5 DEF PublishStep

\* Every step of a sweep keeps the types.
LEMMA SweepType ==
    ASSUME TypeOK, NEW i \in Instance, SweepStep(i)
    PROVE  TypeOK'
<1>1. i \in Publisher
  BY DEF Publisher
<1>2. CASE SweepStart(i)
  <2>1. [pc |-> "filter", due |-> {c \in Content : Due(c)},
         attempts |-> [c \in Content |-> content[c].attempts]] \in Sweep
    BY DEF Sweep, TypeOK, ItemsTypeOK, Row
  <2> QED BY <1>2, <2>1 DEF SweepStart, TypeOK, ItemsTypeOK, itemVars
<1>3. CASE SweepFilter(i)
  <2>1. sweep[i] \in Sweep
    BY <1>3, SweepIsSweep DEF SweepFilter
  <2>2. Filtered(sweep[i]) \in Sweep
    BY <2>1 DEF Sweep, Filtered, filterApproved
  <2>3. sweep' \in [Instance -> Sweep \cup {Idle}]
    BY <1>3, <2>2 DEF SweepFilter, TypeOK
  <2> QED BY <1>3, <2>3 DEF SweepFilter, TypeOK, ItemsTypeOK, itemVars
<1>4. ASSUME NEW c \in Content, SweepPublish(i, c)
      PROVE  TypeOK'
  <2>1. sweep[i] \in Sweep
    BY <1>4, SweepIsSweep DEF SweepPublish
  <2>2. [sweep[i] EXCEPT !.due = @ \ {c}] \in Sweep
    BY <2>1 DEF Sweep
  <2>3. /\ pub' \in [Publisher -> PublishCall \cup PublishReturn \cup {Idle}]
        /\ disturbed' \subseteq Content
    BY <1>1, <1>4, ReadType DEF SweepPublish
  <2> QED BY <1>4, <2>2, <2>3 DEF SweepPublish, TypeOK, ItemsTypeOK, itemVars
<1>5. CASE PublishStep(i)
  BY <1>1, <1>5, PublishType
<1>6. CASE SweepSucceeded(i)
  BY <1>6 DEF SweepSucceeded, TypeOK, ItemsTypeOK, itemVars
<1>7. CASE SweepFailure(i)
  <2>1. pub[i] \in PublishReturn
    BY <1>1, <1>7, ReturnIsReturn DEF SweepFailure
  <2>2. /\ pub[i].item \in Content
        /\ [pub[i] EXCEPT !.pc = "counted"] \in PublishReturn
    BY <2>1 DEF PublishReturn
  <2>3. FailedRow(content[pub[i].item]) \in Row
    <3>1. content[pub[i].item] \in Row
      BY <2>2 DEF TypeOK, ItemsTypeOK
    <3> QED BY <3>1 DEF FailedRow, Row
  <2> QED BY <1>1, <1>7, <2>2, <2>3 DEF SweepFailure, TypeOK, ItemsTypeOK
<1>8. CASE SweepLog(i)
  <2>1. pub[i].item \in Content
    BY <1>1, <1>8, ReturnIsReturn DEF SweepLog, PublishReturn
  <2>2. UpToTwo(abandoned[pub[i].item]) \in 0 .. 2
    <3>1. abandoned[pub[i].item] \in 0 .. 2
      BY <2>1 DEF TypeOK
    <3> QED BY <3>1 DEF UpToTwo
  <2> QED BY <1>8, <2>1, <2>2 DEF SweepLog, TypeOK, ItemsTypeOK, itemVars
<1>9. CASE SweepEnd(i)
  BY <1>9 DEF SweepEnd, TypeOK, ItemsTypeOK, itemVars
<1> QED BY <1>2, <1>3, <1>4, <1>5, <1>6, <1>7, <1>8, <1>9 DEF SweepStep

\* A slot that a crash empties and a call it loses are of their types.
LEMMA CrashType ==
    ASSUME TypeOK, NEW p \in Publisher, Crash(p)
    PROVE  TypeOK'
<1>1. disturbed' \subseteq Content
  <2>1. pub[p].pc = "saveOk" => pub[p].item \in Content
    BY CallIsCall DEF PublishCall
  <2> QED BY <2>1 DEF Crash, TypeOK
<1>2. crashes' \in 0 .. MaxCrashes
  BY MaxCrashesAssumption DEF Crash, TypeOK
<1> QED BY <1>1, <1>2 DEF Crash, TypeOK, ItemsTypeOK, itemVars

\* So is what a failed statement of publish returns.
LEMMA StatementFailsType ==
    ASSUME TypeOK, NEW p \in Publisher, StatementFails(p)
    PROVE  TypeOK'
<1>1. pub[p].item \in Content
  BY CallIsCall DEF StatementFails, InFlight, PublishCall
<1>2. disturbed' \subseteq Content
  BY <1>1 DEF StatementFails, TypeOK
<1>3. crashes' \in 0 .. MaxCrashes
  BY MaxCrashesAssumption DEF StatementFails, TypeOK
<1>4. Return(p, pub[p].item, "thrown") \in PublishReturn \cup {Idle}
  BY <1>1 DEF Return, PublishReturn, Publisher
<1>5. pub' \in [Publisher -> PublishCall \cup PublishReturn \cup {Idle}]
  BY <1>4 DEF StatementFails, TypeOK
<1> QED BY <1>2, <1>3, <1>5 DEF StatementFails, TypeOK, ItemsTypeOK, itemVars

\* Every step keeps the types.
LEMMA TypeStep ==
    ASSUME TypeOK, DecisionsFindApprovals, [Next]_vars
    PROVE  TypeOK'
<1>1. CASE ItemsNext /\ UNCHANGED pubVars
  <2>1. ItemsTypeOK'
    BY <1>1, ItemsType DEF TypeOK
  <2> QED BY <1>1, <2>1 DEF TypeOK, pubVars
<1>2. CASE EditStep
  <2>1. ItemsTypeOK'
    BY <1>2, EditType DEF TypeOK, EditStep
  <2> QED BY <1>2, <2>1 DEF EditStep, TypeOK
<1>3. ASSUME NEW i \in Instance, SweepStep(i)
      PROVE  TypeOK'
  BY <1>3, SweepType
<1>4. ASSUME NEW q \in Caller, NEW c \in Content, PublishRequest(q, c)
      PROVE  TypeOK'
  <2>1. q \in Publisher
    BY DEF Publisher
  <2>2. /\ pub' \in [Publisher -> PublishCall \cup PublishReturn \cup {Idle}]
        /\ disturbed' \subseteq Content
    BY <1>4, <2>1, ReadType DEF PublishRequest
  <2> QED BY <1>4, <2>2 DEF PublishRequest, TypeOK, ItemsTypeOK, itemVars
<1>5. ASSUME NEW q \in Caller, PublishStep(q)
      PROVE  TypeOK'
  BY <1>5, PublishType DEF Publisher
<1>6. ASSUME NEW p \in Publisher, Crash(p) \/ StatementFails(p)
      PROVE  TypeOK'
  BY <1>6, CrashType, StatementFailsType
<1>7. CASE UNCHANGED vars
  BY <1>7 DEF vars, itemVars, pubVars, TypeOK, ItemsTypeOK
<1> QED BY <1>1, <1>2, <1>3, <1>4, <1>5, <1>6, <1>7 DEF Next

\* Every step keeps a decision's approval where it is.
LEMMA FoundStep ==
    ASSUME TypeOK, DecisionsFindApprovals, [Next]_vars
    PROVE  DecisionsFindApprovals'
<1>1. CASE ItemsNext \/ EditNext
  BY <1>1, DecisionsStep DEF TypeOK
<1>2. CASE UNCHANGED <<approvals, decide, history>>
  BY <1>2 DEF DecisionsFindApprovals
<1>3. ASSUME NEW p \in Publisher, PublishStep(p)
      PROVE  UNCHANGED <<approvals, decide, history>>
  BY <1>3 DEF PublishStep, PublishCheck, PublishPost, PublishSave,
              PublishFinish, itemVars
<1>4. ASSUME NEW i \in Instance, SweepStep(i)
      PROVE  UNCHANGED <<approvals, decide, history>>
  <2>1. i \in Publisher
    BY DEF Publisher
  <2> QED BY <1>3, <1>4, <2>1
      DEF SweepStep, SweepStart, SweepFilter, SweepPublish, SweepSucceeded,
          SweepFailure, SweepLog, SweepEnd, itemVars
<1>5. CASE \E q \in Caller, c \in Content : PublishRequest(q, c)
  BY <1>2, <1>5 DEF PublishRequest, itemVars
<1>6. CASE \E p \in Publisher : Crash(p) \/ StatementFails(p)
  BY <1>2, <1>6 DEF Crash, StatementFails, itemVars
<1>7. CASE UNCHANGED vars
  BY <1>2, <1>7 DEF vars, itemVars
<1>8. CASE \E q \in Caller : PublishStep(q)
  BY <1>2, <1>3, <1>8 DEF Publisher
<1> QED BY <1>1, <1>2, <1>4, <1>5, <1>6, <1>7, <1>8 DEF Next, EditStep

(***************************************************************************)
(* In every reachable state, whatever the sets of items, targets,          *)
(* instances and requests and whatever the bounds, the rows, the calls in  *)
(* flight and the sweeps have their types.                                 *)
(***************************************************************************)
THEOREM TypeCorrect == Spec => []TypeOK
<1>1. Init => TypeOK /\ DecisionsFindApprovals
  BY TypeInit DEF Init, ItemsInit, DecisionsFindApprovals
<1>2. TypeOK /\ DecisionsFindApprovals /\ [Next]_vars
         => (TypeOK /\ DecisionsFindApprovals)'
  BY TypeStep, FoundStep
<1> QED BY <1>1, <1>2, PTL DEF Spec

-----------------------------------------------------------------------------
(***************************************************************************)
(* The sweep.                                                              *)
(***************************************************************************)

\* A sweep works only while it loops: Idle has no list.
LEMMA HandledLoops ==
    ASSUME TypeOK, SweepAttempts, NEW i \in Instance, pub[i] # Idle
    PROVE  /\ sweep[i].pc = "loop" /\ sweep[i] \in Sweep /\ sweep[i] # Idle
           /\ pub[i] \in PublishCall \cup PublishReturn
           /\ pub[i].item \in Content
<1>1. sweep[i].pc = "loop"
  BY DEF SweepAttempts, Handled
<1>2. pub[i] \in PublishCall \cup PublishReturn
  BY DEF TypeOK, Publisher
<1>3. pub[i].item \in Content
  BY <1>2 DEF PublishCall, PublishReturn
<1> QED BY <1>1, <1>2, <1>3, SweepIsSweep

\* While publish runs for a sweep, its call stays with its item.
LEMMA PublishKeepsItem ==
    ASSUME TypeOK, NEW p \in Publisher, PublishStep(p)
    PROVE  /\ pub[p] \in PublishCall /\ pub[p] # Idle
           /\ \A q \in Publisher \ {p} : pub'[q] = pub[q]
           /\ p \in Instance => /\ pub'[p].item = pub[p].item
                                /\ pub'[p].pc # "counted"
           /\ UNCHANGED <<lock, sweep, abandoned, approvals, approvedOnce>>
<1>1. pub[p] \in PublishCall
  BY CallIsCall
     DEF PublishStep, PublishCheck, PublishPost, PublishSave, PublishFinish
<1>2. pub[p] # Idle
  BY <1>1 DEF PublishCall, Idle
<1>3. pub \in [Publisher -> PublishCall \cup PublishReturn \cup {Idle}]
  BY DEF TypeOK
<1>4. \A c \in Content, pc \in {"done", "thrown"} : p \in Instance =>
         Return(p, c, pc) = [pc |-> pc, item |-> c]
  BY PublisherAssumption DEF Return
<1>5. pub[p].item \in Content
  BY <1>1 DEF PublishCall
<1>6. CASE PublishCheck(p)
  <2>1. pub'[p] = IF pub[p].targets \subseteq connected
                  THEN [pub[p] EXCEPT !.pc = "post"]
                  ELSE Return(p, pub[p].item, "thrown")
    BY <1>3, <1>6 DEF PublishCheck
  <2>2. p \in Instance => pub'[p].item = pub[p].item /\ pub'[p].pc # "counted"
    BY <1>1, <1>4, <1>5, <2>1 DEF PublishCall
  <2> QED BY <1>1, <1>2, <1>3, <1>6, <2>2 DEF PublishCheck, itemVars
<1>7. ASSUME NEW t \in Target, NEW outcome \in MetaOutcome,
             PublishPost(p, t, outcome)
      PROVE  /\ \A q \in Publisher \ {p} : pub'[q] = pub[q]
             /\ pub'[p].item = pub[p].item /\ pub'[p].pc # "counted"
             /\ UNCHANGED <<lock, sweep, abandoned, approvals, approvedOnce>>
  BY <1>1, <1>3, <1>7 DEF PublishPost, PublishCall, itemVars
<1>8. CASE PublishSave(p)
  <2>1. pub'[p] = IF pub[p].pc = "saveOk"
                  THEN [pub[p] EXCEPT !.pc = "post",
                          !.edition = content[pub[p].item].edition]
                  ELSE Return(p, pub[p].item, "thrown")
    BY <1>3, <1>8 DEF PublishSave
  <2>2. p \in Instance => pub'[p].item = pub[p].item /\ pub'[p].pc # "counted"
    BY <1>1, <1>4, <1>5, <2>1 DEF PublishCall
  <2> QED BY <1>1, <1>2, <1>3, <1>8, <2>2 DEF PublishSave
<1>9. CASE PublishFinish(p)
  <2>1. pub'[p] = Return(p, pub[p].item, "done")
    BY <1>3, <1>9 DEF PublishFinish
  <2>2. p \in Instance => pub'[p].item = pub[p].item /\ pub'[p].pc # "counted"
    BY <1>4, <1>5, <2>1
  <2> QED BY <1>1, <1>2, <1>3, <1>9, <2>2 DEF PublishFinish
<1> QED BY <1>1, <1>2, <1>6, <1>7, <1>8, <1>9 DEF PublishStep

\* publish itself counts no attempt.
LEMMA PublishKeepsAttempts ==
    ASSUME TypeOK, NEW p \in Publisher, PublishStep(p)
    PROVE  \A c \in Content : content'[c].attempts = content[c].attempts
<1>1. content \in [Content -> Row]
  BY DEF TypeOK, ItemsTypeOK
<1>2. \A call, row : row \in Row =>
         /\ SavedRow(call, row).attempts = row.attempts
         /\ [SavedRow(call, row) EXCEPT !.status = "PUBLISHED"].attempts
              = row.attempts
  BY DEF SavedRow, Row
<1>3. CASE PublishSave(p)
  BY <1>1, <1>2, <1>3 DEF PublishSave
<1>4. CASE PublishFinish(p)
  BY <1>1, <1>2, <1>4 DEF PublishFinish
<1> QED BY <1>3, <1>4 DEF PublishStep, PublishCheck, PublishPost, itemVars

\* Only the sweep's failures count attempts.
LEMMA AttemptsKept ==
    ASSUME TypeOK, [Next]_vars, \A i \in Instance : ~SweepFailure(i)
    PROVE  \A c \in Content : content'[c].attempts = content[c].attempts
<1> DEFINE Kept == \A c \in Content :
                      content'[c].attempts = content[c].attempts
<1>1. content \in [Content -> Row]
  BY DEF TypeOK, ItemsTypeOK
<1>2. CASE content' = content
  BY <1>2
<1>3. CASE ItemsNext
  <2>1. ASSUME NEW c \in Content, NEW status \in CreateStatus,
               NEW when \in When, NEW targets \in SUBSET Target,
               Create(c, status, when, targets)
        PROVE  Kept
    BY <1>1, <2>1 DEF Create, Row
  <2>2. ASSUME NEW c \in Content, NEW when \in When, Schedule(c, when)
        PROVE  Kept
    BY <1>1, <2>2 DEF Schedule, Scheduled, Row
  <2>3. ASSUME NEW c \in Content, CreateApproval(c) \/ TimePasses(c)
        PROVE  Kept
    BY <1>1, <2>3 DEF CreateApproval, TimePasses, Row
  <2>4. ASSUME NEW d \in Decider, DecideWrite(d)
        PROVE  Kept
    BY <1>1, <2>4 DEF DecideWrite, Row
  <2> QED BY <1>2, <1>3, <2>1, <2>2, <2>3, <2>4
      DEF ItemsNext, DecideNext, DecideRead, Disconnect, Reconnect
<1>4. CASE EditNext
  <2>1. \A call, row : row \in Row =>
           EditedRow(call, row).attempts = row.attempts
    BY DEF EditedRow, Row
  <2> QED BY <1>1, <1>4, <2>1 DEF EditNext, EditRead, EditWrite
<1>5. ASSUME NEW p \in Publisher, PublishStep(p)
      PROVE  Kept
  BY <1>5, PublishKeepsAttempts
<1>6. ASSUME NEW i \in Instance, SweepStep(i), ~SweepFailure(i)
      PROVE  Kept
  <2>1. CASE PublishStep(i)
    BY <1>5, <2>1 DEF Publisher
  <2> QED BY <1>6, <2>1 DEF SweepStep, SweepStart, SweepFilter, SweepPublish,
                            SweepSucceeded, SweepLog, SweepEnd, itemVars
<1>7. CASE \E q \in Caller, c \in Content : PublishRequest(q, c)
  BY <1>7 DEF PublishRequest, itemVars
<1>8. CASE \E p \in Publisher : Crash(p) \/ StatementFails(p)
  BY <1>8 DEF Crash, StatementFails, itemVars
<1>9. CASE \E q \in Caller : PublishStep(q)
  BY <1>5, <1>9 DEF Publisher
<1>10. CASE UNCHANGED vars
  BY <1>10 DEF vars, itemVars
<1> QED BY <1>3, <1>4, <1>6, <1>7, <1>8, <1>9, <1>10 DEF Next, EditStep

\* Approvals in APPROVED come from approving decisions, which are remembered.
LEMMA ApprovedStep ==
    ASSUME TypeOK, DecisionsFindApprovals, ApprovedWasDecided, [Next]_vars
    PROVE  ApprovedWasDecided' /\ approvedOnce \subseteq approvedOnce'
<1> USE DEF ApprovedWasDecided
<1>1. /\ approvals \in [Content -> Seq(Approval)]
      /\ decide \in [Decider -> DecideCall \cup {Idle}]
  BY DEF TypeOK, ItemsTypeOK
<1>2. CASE UNCHANGED <<approvals, approvedOnce>>
  BY <1>2
<1>3. ASSUME NEW c \in Content, CreateApproval(c)
      PROVE  ApprovedWasDecided' /\ approvedOnce \subseteq approvedOnce'
  <2> DEFINE a == [status |-> "PENDING", revisionCount |-> 0]
  <2>1. a \in Approval /\ a.status # "APPROVED"
    BY DEF Approval
  <2>2. approvals' = [approvals EXCEPT ![c] = Append(approvals[c], a)]
        /\ approvedOnce' = approvedOnce
    BY <1>3 DEF CreateApproval
  <2> HIDE DEF a
  <2>3. ASSUME NEW b \in Content, NEW k \in 1 .. Len(approvals'[b]),
               approvals'[b][k].status = "APPROVED"
        PROVE  b \in approvedOnce
    <3>1. CASE b = c
      <4>1. approvals'[b] = Append(approvals[b], a) /\ approvals[b] \in Seq(Approval)
        BY <1>1, <2>2, <3>1
      <4>2. k \in 1 .. Len(approvals[b]) /\ approvals[b][k] = approvals'[b][k]
        BY <2>1, <2>3, <4>1
      <4> QED BY <2>3, <4>2
    <3>2. CASE b # c
      BY <1>1, <2>2, <2>3, <3>2
    <3> QED BY <3>1, <3>2
  <2> QED BY <2>2, <2>3
<1>4. ASSUME NEW d \in Decider, DecideWrite(d)
      PROVE  ApprovedWasDecided' /\ approvedOnce \subseteq approvedOnce'
  <2> DEFINE call == decide[d]
             a == [status |-> call.decision,
                   revisionCount |-> call.revisionCount]
  <2>1. /\ call.item \in Content
        /\ call.approval \in 1 .. Len(approvals[call.item])
    <3>1. call \in DecideCall /\ call # Idle
      BY <1>4, DecideIsCall DEF DecideWrite, TypeOK
    <3> QED BY <3>1 DEF DecideCall, DecisionsFindApprovals
  <2>2. approvals' = [approvals EXCEPT ![call.item] =
                        [approvals[call.item] EXCEPT ![call.approval] = a]]
    BY <1>4 DEF DecideWrite
  <2>3. approvedOnce' = IF call.decision = "APPROVED"
                        THEN approvedOnce \cup {call.item} ELSE approvedOnce
    BY <1>4 DEF DecideWrite
  <2>4. a.status = call.decision
    OBVIOUS
  <2> HIDE DEF call, a
  <2>5. ASSUME NEW b \in Content, NEW k \in 1 .. Len(approvals'[b]),
               approvals'[b][k].status = "APPROVED"
        PROVE  b \in approvedOnce'
    <3>1. CASE b = call.item
      <4>1. approvals'[b] = [approvals[b] EXCEPT ![call.approval] = a]
            /\ approvals[b] \in Seq(Approval)
        BY <1>1, <2>2, <3>1
      <4>2. k \in 1 .. Len(approvals[b])
        BY <4>1
      <4>3. CASE k = call.approval
        BY <2>1, <2>3, <2>4, <2>5, <3>1, <4>1, <4>2, <4>3
      <4>4. CASE k # call.approval
        BY <2>1, <2>3, <2>5, <3>1, <4>1, <4>2, <4>4
      <4> QED BY <4>3, <4>4
    <3>2. CASE b # call.item
      BY <1>1, <2>2, <2>3, <2>5, <3>2
    <3> QED BY <3>1, <3>2
  <2> QED BY <2>3, <2>5
<1>5. CASE ItemsNext
  BY <1>2, <1>3, <1>4, <1>5
  DEF ItemsNext, DecideNext, Create, Schedule, TimePasses, Disconnect,
      Reconnect, DecideRead
<1>6. CASE EditNext
  BY <1>2, <1>6 DEF EditNext, EditRead, EditWrite
<1>7. ASSUME NEW i \in Instance, SweepStep(i)
      PROVE  UNCHANGED <<approvals, approvedOnce>>
  <2>1. CASE PublishStep(i)
    BY <2>1, PublishKeepsItem DEF Publisher
  <2> QED BY <1>7, <2>1
      DEF SweepStep, SweepStart, SweepFilter, SweepPublish, SweepSucceeded,
          SweepFailure, SweepLog, SweepEnd, itemVars
<1>8. CASE \E q \in Caller, c \in Content : PublishRequest(q, c)
  BY <1>2, <1>8 DEF PublishRequest, itemVars
<1>9. CASE \E q \in Caller : PublishStep(q)
  BY <1>2, <1>9, PublishKeepsItem DEF Publisher
<1>10. CASE \E p \in Publisher : Crash(p) \/ StatementFails(p)
  BY <1>2, <1>10 DEF Crash, StatementFails, itemVars
<1>11. CASE UNCHANGED vars
  BY <1>2, <1>11 DEF vars, itemVars
<1> QED BY <1>2, <1>5, <1>6, <1>7, <1>8, <1>9, <1>10, <1>11 DEF Next, EditStep

\* The parts of SweepInv that speak of a sweep.
SweepPart == /\ OneSweep
             /\ SweepAttempts
             /\ AbandonedOnce
             /\ NeverApprovedIsHeldBack

\* What a step leaves that happens outside the sweeps.
LEMMA OutsideStep ==
    ASSUME SweepPart, approvedOnce \subseteq approvedOnce',
           UNCHANGED <<lock, sweep, abandoned>>,
           \A i \in Instance : pub'[i] = pub[i],
           \A c \in Content : content'[c].attempts = content[c].attempts,
           TypeOK
    PROVE  SweepPart'
<1>1. OneSweep'
  BY DEF SweepPart, OneSweep
<1>2. SweepAttempts'
  <2>1. ASSUME NEW i \in Instance, sweep[i] # Idle
        PROVE  Listed(i)'
    <3>1. sweep[i] \in Sweep
      BY <2>1 DEF TypeOK
    <3> QED BY <2>1, <3>1 DEF SweepPart, SweepAttempts, Listed, Sweep
  <2>2. ASSUME NEW i \in Instance, pub[i] # Idle
        PROVE  Handled(i)'
    BY <2>2, HandledLoops DEF SweepPart, SweepAttempts, Handled
  <2> QED BY <2>1, <2>2 DEF SweepAttempts
<1>3. AbandonedOnce'
  BY DEF SweepPart, AbandonedOnce
<1>4. NeverApprovedIsHeldBack'
  BY DEF SweepPart, NeverApprovedIsHeldBack
<1> QED BY <1>1, <1>2, <1>3, <1>4 DEF SweepPart

\* The other instances do not sweep.
LEMMA OthersIdle ==
    ASSUME TypeOK, OneSweep, SweepAttempts, NEW i \in Instance, lock = i,
           NEW j \in Instance \ {i}
    PROVE  sweep[j] = Idle /\ pub[j] = Idle
<1>1. sweep[j] = Idle
  BY DEF OneSweep
<1>2. pub[j] = Idle
  BY <1>1, HandledLoops
<1> QED BY <1>1, <1>2

\* What a step of publish leaves, or its end, in the sweep it runs for.
LEMMA HandledStep ==
    ASSUME TypeOK, SweepPart, NEW i \in Instance,
           pub[i] # Idle, pub[i].pc # "counted",
           pub'[i].item = pub[i].item, pub'[i].pc # "counted",
           \A q \in Publisher \ {i} : pub'[q] = pub[q],
           UNCHANGED <<lock, sweep, abandoned, approvedOnce>>,
           \A c \in Content : content'[c].attempts = content[c].attempts
    PROVE  SweepPart'
<1> USE DEF SweepPart
<1>1. \A j \in Instance : j \in Publisher
  BY DEF Publisher
<1>2. sweep[i] \in Sweep /\ sweep[i].due \subseteq Content
  BY HandledLoops DEF Sweep
<1>3. /\ sweep[i] # Idle /\ Listed(i) /\ Handled(i) /\ lock = i
      /\ pub[i].item \in Content
  BY HandledLoops DEF SweepAttempts, OneSweep
<1>4. \A j \in Instance \ {i} : sweep[j] = Idle /\ pub[j] = Idle
  BY <1>3, OthersIdle
<1>5. OneSweep'
  BY DEF OneSweep
<1>6. SweepAttempts'
  <2>1. Listed(i)'
    BY <1>2, <1>3 DEF Listed
  <2>2. Handled(i)'
    BY <1>3 DEF Handled
  <2> QED BY <1>1, <1>4, <2>1, <2>2 DEF SweepAttempts
<1>7. AbandonedOnce'
  BY DEF AbandonedOnce
<1>8. NeverApprovedIsHeldBack'
  BY <1>1 DEF NeverApprovedIsHeldBack
<1> QED BY <1>5, <1>6, <1>7, <1>8

\* What a step of a sweep leaves.
LEMMA SweepPartStep ==
    ASSUME TypeOK, TypeOK', ApprovedWasDecided, SweepPart,
           NEW i \in Instance, SweepStep(i)
    PROVE  SweepPart'
<1> USE DEF SweepPart
<1>1. /\ i \in Publisher
      /\ pub \in [Publisher -> PublishCall \cup PublishReturn \cup {Idle}]
      /\ sweep \in [Instance -> Sweep \cup {Idle}]
      /\ content \in [Content -> Row]
      /\ abandoned \in [Content -> 0 .. 2]
      /\ MaxAttempts \in Nat
      /\ \A j \in Instance : j \in Publisher
  BY MaxAttemptsAssumption DEF Publisher, TypeOK, ItemsTypeOK
<1>2. \A r : r \in Row => r.attempts \in Nat
  BY DEF Row
<1>3. \A s : s \in Sweep => /\ s # Idle /\ s.due \subseteq Content
                            /\ s.attempts \in [Content -> Nat]
  BY DEF Sweep, Idle
<1>4. pub[i] # Idle => /\ Handled(i) /\ lock = i /\ sweep[i] \in Sweep
                       /\ pub[i].item \in Content
  BY HandledLoops DEF SweepAttempts, OneSweep
<1>5. sweep[i] # Idle => Listed(i) /\ lock = i
  BY DEF SweepAttempts, OneSweep
<1>6. lock = i => \A j \in Instance \ {i} : sweep[j] = Idle /\ pub[j] = Idle
  BY OthersIdle
<1>7. CASE SweepStart(i)
  <2>1. pub[i] = Idle /\ lock = NoOne
    BY <1>4, <1>7 DEF SweepStart, LockFree, Handled, Idle
  <2>2. \A j \in Instance : sweep[j] = Idle /\ pub[j] = Idle
    BY <2>1, HandledLoops, PublisherAssumption DEF OneSweep
  <2> DEFINE s == [pc |-> "filter", due |-> {c \in Content : Due(c)},
                   attempts |-> [c \in Content |-> content[c].attempts]]
  <2>3. sweep' = [sweep EXCEPT ![i] = s] /\ lock' = i /\ pub' = pub
        /\ content' = content /\ abandoned' = abandoned
    BY <1>7 DEF SweepStart, itemVars
  <2>4. /\ s.pc = "filter"
        /\ \A c \in s.due : /\ content[c].attempts = s.attempts[c]
                            /\ content[c].attempts < MaxAttempts
    BY DEF Due
  <2> HIDE DEF s
  <2>5. OneSweep'
    BY <1>1, <2>2, <2>3 DEF OneSweep
  <2>6. SweepAttempts'
    BY <1>1, <2>2, <2>3, <2>4 DEF SweepAttempts, Listed
  <2>7. AbandonedOnce'
    BY <2>3 DEF AbandonedOnce
  <2>8. NeverApprovedIsHeldBack'
    <3>1. Idle.pc # "loop"
      BY DEF Idle
    <3> QED BY <1>1, <2>2, <2>3, <2>4, <3>1 DEF NeverApprovedIsHeldBack
  <2> QED BY <2>5, <2>6, <2>7, <2>8
<1>8. CASE SweepFilter(i)
  <2>1. sweep[i] \in Sweep /\ sweep[i] # Idle
    BY <1>8, SweepIsSweep DEF SweepFilter
  <2>2. pub[i] = Idle
    BY <1>4, <1>8 DEF SweepFilter, Handled
  <2> DEFINE s == Filtered(sweep[i])
  <2>3. sweep' = [sweep EXCEPT ![i] = s] /\ lock' = lock /\ pub' = pub
        /\ content' = content /\ abandoned' = abandoned
        /\ approvedOnce' = approvedOnce
    BY <1>8 DEF SweepFilter, itemVars
  <2>4. /\ s \in Sweep /\ s.pc = "loop" /\ s.attempts = sweep[i].attempts
        /\ s.due = filterApproved(sweep[i].due)
    BY <2>1 DEF Filtered, Sweep, filterApproved
  <2>5. s.due \subseteq sweep[i].due /\ s.due \subseteq approvedOnce
    <3>1. \A c \in Content : LatestApproved(c) => c \in approvedOnce
      BY DEF LatestApproved, ApprovedWasDecided, TypeOK, ItemsTypeOK
    <3> QED BY <1>3, <2>1, <2>4, <3>1 DEF filterApproved
  <2> HIDE DEF s
  <2>6. OneSweep'
    BY <1>1, <1>5, <2>1, <2>3 DEF OneSweep
  <2>7. SweepAttempts'
    BY <1>1, <1>5, <1>6, <2>1, <2>2, <2>3, <2>4, <2>5
       DEF SweepAttempts, Listed
  <2>8. AbandonedOnce'
    BY <2>3 DEF AbandonedOnce
  <2>9. NeverApprovedIsHeldBack'
    BY <1>1, <1>5, <1>6, <2>1, <2>2, <2>3, <2>5 DEF NeverApprovedIsHeldBack
  <2> QED BY <2>6, <2>7, <2>8, <2>9
<1>9. ASSUME NEW c \in Content, SweepPublish(i, c)
      PROVE  SweepPart'
  <2>1. sweep[i] \in Sweep /\ sweep[i] # Idle
    BY <1>9, SweepIsSweep DEF SweepPublish
  <2> DEFINE s == [sweep[i] EXCEPT !.due = @ \ {c}]
  <2>2. /\ sweep' = [sweep EXCEPT ![i] = s] /\ lock' = lock
        /\ content' = content /\ abandoned' = abandoned
        /\ approvedOnce' = approvedOnce
    BY <1>9 DEF SweepPublish, itemVars
  <2>3. /\ s \in Sweep /\ s.pc = "loop" /\ s.attempts = sweep[i].attempts
        /\ s.due = sweep[i].due \ {c}
    BY <1>9, <2>1 DEF Sweep, SweepPublish
  <2> HIDE DEF s
  <2>4. /\ pub'[i].item = c /\ pub'[i].pc # "counted"
        /\ \A j \in Instance \ {i} : pub'[j] = pub[j]
    BY <1>1, <1>9, PublisherAssumption DEF SweepPublish, PublishRead, Return
  <2>5. OneSweep'
    BY <1>1, <1>5, <2>1, <2>2 DEF OneSweep
  <2>6. SweepAttempts'
    <3>1. Listed(i)'
      BY <1>1, <1>5, <2>1, <2>2, <2>3 DEF Listed
    <3>2. Handled(i)'
      BY <1>1, <1>5, <1>9, <2>1, <2>2, <2>3, <2>4
         DEF Handled, Listed, SweepPublish
    <3> QED BY <1>1, <1>5, <1>6, <2>1, <2>2, <2>4, <3>1, <3>2
        DEF SweepAttempts
  <2>7. AbandonedOnce'
    BY <2>2 DEF AbandonedOnce
  <2>8. NeverApprovedIsHeldBack'
    BY <1>1, <1>5, <1>6, <1>9, <2>1, <2>2, <2>3, <2>4
       DEF NeverApprovedIsHeldBack, SweepPublish
  <2> QED BY <2>5, <2>6, <2>7, <2>8
<1>10. CASE PublishStep(i)
  <2>1. /\ pub[i] # Idle /\ pub[i].pc # "counted"
        /\ pub'[i].item = pub[i].item /\ pub'[i].pc # "counted"
        /\ \A q \in Publisher \ {i} : pub'[q] = pub[q]
        /\ UNCHANGED <<lock, sweep, abandoned, approvedOnce>>
    BY <1>1, <1>10, PublishKeepsItem DEF PublishCall
  <2>2. \A c \in Content : content'[c].attempts = content[c].attempts
    BY <1>1, <1>10, PublishKeepsAttempts
  <2> QED BY <2>1, <2>2, HandledStep
<1>11. CASE SweepFailure(i)
  <2> DEFINE c == pub[i].item
  <2>1. /\ pub[i] # Idle /\ pub[i].pc = "thrown" /\ pub[i] \in PublishReturn
    BY <1>1, <1>11, ReturnIsReturn DEF SweepFailure, Idle
  <2>2. /\ c \in Content /\ Handled(i) /\ lock = i
        /\ content[c].attempts = sweep[i].attempts[c]
        /\ sweep[i].attempts[c] < MaxAttempts
        /\ c \notin sweep[i].due
    BY <1>4, <2>1 DEF Handled
  <2>3. /\ \A b \in Content : content'[b].attempts =
              IF b = c THEN content[b].attempts + 1 ELSE content[b].attempts
        /\ content[c].attempts \in Nat
    BY <1>1, <1>2, <1>11, <2>2 DEF SweepFailure, FailedRow, Row
  <2>4. /\ pub'[i] = [pub[i] EXCEPT !.pc = "counted"]
        /\ \A q \in Publisher \ {i} : pub'[q] = pub[q]
        /\ UNCHANGED <<lock, sweep, abandoned, approvedOnce>>
    BY <1>1, <1>11 DEF SweepFailure
  <2>5. pub'[i].pc = "counted" /\ pub'[i].item = c
    BY <2>1, <2>4 DEF PublishReturn
  <2>6. abandoned[c] = 0
    BY <1>1, <2>2 DEF AbandonedOnce
  <2> HIDE DEF c
  <2>7. OneSweep'
    BY <2>4 DEF OneSweep
  <2>8. SweepAttempts'
    <3>1. Listed(i)'
      BY <1>3, <1>4, <1>5, <2>1, <2>2, <2>3, <2>4 DEF Listed
    <3>2. Handled(i)'
      BY <2>2, <2>3, <2>4, <2>5, <2>6 DEF Handled
    <3> QED BY <1>1, <1>6, <2>2, <2>4, <3>1, <3>2 DEF SweepAttempts
  <2>9. AbandonedOnce'
    BY <1>1, <1>2, <2>2, <2>3, <2>4, <2>6 DEF AbandonedOnce
  <2>10. NeverApprovedIsHeldBack'
    BY <1>1, <2>1, <2>4, <2>5 DEF NeverApprovedIsHeldBack, c
  <2> QED BY <2>7, <2>8, <2>9, <2>10
<1>12. CASE SweepSucceeded(i) \/ SweepLog(i)
  <2>1. /\ pub[i] # Idle
        /\ pub' = [pub EXCEPT ![i] = Idle]
        /\ UNCHANGED <<lock, sweep, content, approvedOnce>>
    BY <1>12 DEF SweepSucceeded, SweepLog, itemVars, Idle
  <2>2. OneSweep'
    BY <2>1 DEF OneSweep
  <2>3. SweepAttempts'
    BY <1>1, <1>4, <1>5, <1>6, <2>1 DEF SweepAttempts, Listed
  <2>4. AbandonedOnce'
    <3>1. CASE SweepSucceeded(i)
      BY <3>1, <2>1 DEF SweepSucceeded, AbandonedOnce
    <3>2. CASE SweepLog(i)
      <4> DEFINE c == pub[i].item
      <4>1. /\ c \in Content /\ abandoned[c] = 0
            /\ content[c].attempts = sweep[i].attempts[c] + 1
            /\ sweep[i].attempts[c] < MaxAttempts
            /\ sweep[i].attempts[c] \in Nat
        BY <1>3, <1>4, <2>1, <3>2 DEF SweepLog, Handled
      <4>2. abandoned' = IF Abandons(i, c)
                         THEN [abandoned EXCEPT ![c] = 1] ELSE abandoned
        BY <1>1, <3>2, <4>1 DEF SweepLog, UpToTwo
      <4> HIDE DEF c
      <4> QED BY <1>1, <2>1, <4>1, <4>2 DEF AbandonedOnce, Abandons
    <3> QED BY <1>12, <3>1, <3>2
  <2>5. NeverApprovedIsHeldBack'
    BY <1>1, <2>1 DEF NeverApprovedIsHeldBack
  <2> QED BY <2>2, <2>3, <2>4, <2>5
<1>13. CASE SweepEnd(i)
  <2>1. sweep[i] # Idle /\ pub[i] = Idle /\ lock = i
    BY <1>5, <1>13 DEF SweepEnd, Idle
  <2>2. /\ sweep' = [sweep EXCEPT ![i] = Idle] /\ lock' = NoOne /\ pub' = pub
        /\ content' = content /\ abandoned' = abandoned
        /\ approvedOnce' = approvedOnce
    BY <1>13 DEF SweepEnd, itemVars
  <2>3. \A j \in Instance : sweep'[j] = Idle /\ pub'[j] = Idle
    BY <1>1, <1>6, <2>1, <2>2
  <2>4. Idle.pc # "loop"
    BY DEF Idle
  <2> QED BY <2>2, <2>3, <2>4
      DEF OneSweep, SweepAttempts, AbandonedOnce, NeverApprovedIsHeldBack
<1> QED BY <1>7, <1>8, <1>9, <1>10, <1>11, <1>12, <1>13 DEF SweepStep

\* What a crash leaves: the lock is free if its holder stopped.
LEMMA CrashPart ==
    ASSUME TypeOK, SweepPart, NEW p \in Publisher, Crash(p)
    PROVE  SweepPart'
<1> USE DEF SweepPart
<1>1. /\ pub' = [pub EXCEPT ![p] = Idle]
      /\ sweep' = IF p \in Instance THEN [sweep EXCEPT ![p] = Idle] ELSE sweep
      /\ lock' = IF lock = p THEN NoOne ELSE lock
      /\ UNCHANGED <<content, abandoned, approvedOnce>>
  BY DEF Crash, itemVars
<1>2. \A j \in Instance : \/ sweep'[j] = Idle /\ pub'[j] = Idle
                          \/ /\ j # p
                             /\ sweep'[j] = sweep[j] /\ pub'[j] = pub[j]
  BY <1>1 DEF TypeOK, Publisher
<1>3. Idle.pc # "loop"
  BY DEF Idle
<1>4. OneSweep'
  BY <1>1, <1>2 DEF OneSweep
<1>5. SweepAttempts'
  BY <1>1, <1>2 DEF SweepAttempts, Listed, Handled
<1>6. AbandonedOnce'
  BY <1>1 DEF AbandonedOnce
<1>7. NeverApprovedIsHeldBack'
  BY <1>1, <1>2, <1>3 DEF NeverApprovedIsHeldBack
<1> QED BY <1>4, <1>5, <1>6, <1>7

\* What a failed statement leaves: publish has thrown, and no more.
LEMMA StatementFailsPart ==
    ASSUME TypeOK, SweepPart, NEW p \in Publisher, StatementFails(p),
           approvedOnce \subseteq approvedOnce'
    PROVE  SweepPart'
<1>1. /\ pub[p] \in PublishCall /\ pub[p].item \in Content
  BY CallIsCall DEF StatementFails, InFlight, PublishCall
<1>2. /\ pub[p] # Idle /\ pub[p].pc # "counted"
  BY <1>1 DEF PublishCall, Idle
<1>3. /\ \A q \in Publisher \ {p} : pub'[q] = pub[q]
      /\ pub'[p] = Return(p, pub[p].item, "thrown")
      /\ UNCHANGED <<lock, sweep, abandoned, approvedOnce, content>>
  BY DEF StatementFails, TypeOK, itemVars
<1>4. CASE p \in Instance
  <2>1. pub'[p].item = pub[p].item /\ pub'[p].pc # "counted"
    BY <1>3, <1>4, PublisherAssumption DEF Return
  <2> QED BY <1>2, <1>3, <1>4, <2>1, HandledStep
<1>5. CASE p \notin Instance
  <2>1. \A i \in Instance : pub'[i] = pub[i]
    BY <1>3, <1>5 DEF Publisher
  <2> QED BY <1>3, <2>1, OutsideStep
<1> QED BY <1>4, <1>5

\* SweepInv holds at the start.
LEMMA SweepInvInit == Init => SweepInv
<1> SUFFICES ASSUME Init PROVE SweepInv
  OBVIOUS
<1>1. TypeOK
  BY TypeInit
<1>2. DecisionsFindApprovals /\ ApprovedWasDecided
  BY DEF Init, ItemsInit, DecisionsFindApprovals, ApprovedWasDecided
<1>3. OneSweep /\ SweepAttempts
  BY DEF Init, OneSweep, SweepAttempts, Publisher
<1>4. AbandonedOnce
  <2>1. \A c \in Content : content[c].attempts = 0 /\ abandoned[c] = 0
    BY DEF Init, ItemsInit
  <2>2. MaxAttempts \in Nat /\ 0 <= MaxAttempts
    BY MaxAttemptsAssumption
  <2>3. ~(0 > 0) /\ 0 <= 1
    OBVIOUS
  <2> QED BY <2>1, <2>2, <2>3 DEF AbandonedOnce
<1>5. NeverApprovedIsHeldBack
  BY DEF Init, NeverApprovedIsHeldBack, Publisher, Idle
<1> QED BY <1>1, <1>2, <1>3, <1>4, <1>5 DEF SweepInv

\* Every step preserves SweepInv.
LEMMA SweepInvStep == SweepInv /\ [Next]_vars => SweepInv'
<1> SUFFICES ASSUME SweepInv, [Next]_vars PROVE SweepInv'
  OBVIOUS
<1>1. /\ TypeOK /\ DecisionsFindApprovals /\ ApprovedWasDecided /\ SweepPart
  BY DEF SweepInv, SweepPart
<1>2. TypeOK'
  BY <1>1, TypeStep
<1>3. DecisionsFindApprovals'
  BY <1>1, FoundStep
<1>4. ApprovedWasDecided' /\ approvedOnce \subseteq approvedOnce'
  BY <1>1, ApprovedStep
<1>5. SweepPart'
  <2>1. CASE (ItemsNext /\ UNCHANGED pubVars) \/ EditStep \/ UNCHANGED vars
    <3>1. /\ UNCHANGED <<lock, sweep, abandoned, pub>>
      BY <2>1 DEF pubVars, EditStep, vars
    <3>2. \A i \in Instance : ~SweepFailure(i)
      <4>1. ASSUME NEW i \in Instance, SweepFailure(i)
            PROVE  FALSE
        <5>1. i \in Publisher /\ pub[i].pc = "thrown"
          BY <4>1 DEF SweepFailure, Publisher
        <5>2. pub[i] \in PublishReturn
          BY <1>1, <5>1, ReturnIsReturn
        <5>3. pub'[i].pc = "counted"
          BY <1>1, <4>1, <5>1, <5>2 DEF SweepFailure, TypeOK, PublishReturn
        <5> QED BY <3>1, <5>1, <5>3
      <4> QED BY <4>1
    <3>3. \A c \in Content : content'[c].attempts = content[c].attempts
      BY <1>1, <3>2, AttemptsKept
    <3> QED BY <1>1, <1>4, <3>1, <3>3, OutsideStep
  <2>2. ASSUME NEW i \in Instance, SweepStep(i)
        PROVE  SweepPart'
    BY <1>1, <1>2, <2>2, SweepPartStep
  <2>3. ASSUME NEW q \in Caller, NEW c \in Content, PublishRequest(q, c)
        PROVE  SweepPart'
    <3>1. UNCHANGED <<lock, sweep, abandoned, content>>
      BY <2>3 DEF PublishRequest, itemVars
    <3>2. \A i \in Instance : pub'[i] = pub[i]
      BY <1>1, <2>3, PublisherAssumption
         DEF PublishRequest, PublishRead, TypeOK, Publisher
    <3> QED BY <1>1, <1>4, <3>1, <3>2, OutsideStep
  <2>4. ASSUME NEW q \in Caller, PublishStep(q)
        PROVE  SweepPart'
    <3>1. q \in Publisher /\ q \notin Instance
      BY PublisherAssumption DEF Publisher
    <3>2. /\ UNCHANGED <<lock, sweep, abandoned>>
          /\ \A i \in Instance : pub'[i] = pub[i]
      BY <1>1, <2>4, <3>1, PublishKeepsItem DEF Publisher
    <3>3. \A c \in Content : content'[c].attempts = content[c].attempts
      BY <1>1, <2>4, <3>1, PublishKeepsAttempts
    <3> QED BY <1>1, <1>4, <3>2, <3>3, OutsideStep
  <2>5. ASSUME NEW p \in Publisher, Crash(p) \/ StatementFails(p)
        PROVE  SweepPart'
    BY <1>1, <1>4, <2>5, CrashPart, StatementFailsPart
  <2> QED BY <2>1, <2>2, <2>3, <2>4, <2>5 DEF Next
<1> QED BY <1>1, <1>2, <1>3, <1>4, <1>5 DEF SweepInv, SweepPart

(***************************************************************************)
(* SweepInv holds in every reachable state.                                *)
(***************************************************************************)
THEOREM SweepInvariant == Spec => []SweepInv
BY SweepInvInit, SweepInvStep, PTL DEF Spec

(***************************************************************************)
(* At most the holder of the advisory lock sweeps, whatever the number of  *)
(* instances and wherever they crash.                                      *)
(***************************************************************************)
THEOREM SweepsExclude == Spec => []OneSweep
<1>1. SweepInv => OneSweep
  BY DEF SweepInv
<1> QED BY <1>1, SweepInvariant, PTL

(***************************************************************************)
(* The retry cap holds for every cap: the attempts of an item never go     *)
(* beyond it, and the event that gives the item up is logged at most once, *)
(* when they reach it.                                                     *)
(***************************************************************************)
THEOREM RetryCap == Spec => []AbandonedOnce
<1>1. SweepInv => AbandonedOnce
  BY DEF SweepInv
<1> QED BY <1>1, SweepInvariant, PTL

(***************************************************************************)
(* The approval gate: what a sweep has on its list after the filter, or is *)
(* publishing, was approved at some time.                                  *)
(***************************************************************************)
THEOREM ApprovalGate == Spec => []NeverApprovedIsHeldBack
<1>1. SweepInv => NeverApprovedIsHeldBack
  BY DEF SweepInv
<1> QED BY <1>1, SweepInvariant, PTL
=============================================================================
