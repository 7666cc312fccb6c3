-------------------------- MODULE PublishOnce_proofs --------------------------
(***************************************************************************)
(* What publishing does to an item that was not disturbed, for any items,  *)
(* targets, instances, requests and bounds: ContentPublishing implements   *)
(* PublishOnce.                                                            *)
(***************************************************************************)
EXTENDS ContentPublishing_proofs

(***************************************************************************)
(* The inductive invariant.  One call at most publishes the item; what its *)
(* copy of the results calls posted, and nothing else, is posted in the    *)
(* present edition; the row says the same, but between a post and its      *)
(* save; and no later edition has been posted yet.                         *)
(***************************************************************************)
Succeeded(results) == {t \in Target : results[t] = "SUCCEEDED"}

OneCall(c) == \A p, q \in Publisher : Publishes(p, c) /\ Publishes(q, c) => p = q

CopyAgrees(c) ==
    \A p \in Publisher : Publishes(p, c) =>
       /\ pub[p].edition = content[c].edition /\ pub[p].targets # {}
       /\ \A t \in Target : posts[c][t][content[c].edition] =
                               IF t \in Succeeded(pub[p].results) THEN 1 ELSE 0
       /\ IF pub[p].pc = "saveOk"
          THEN \E t \in Target :
                  Succeeded(pub[p].results) = Succeeded(content[c].results) \cup {t}
          ELSE Succeeded(pub[p].results) = Succeeded(content[c].results)

RowAgrees(c) ==
    (\A p \in Publisher : Publishes(p, c) => pub[p].pc # "saveOk") =>
       \A t \in Target : posts[c][t][content[c].edition] =
                            IF t \in Succeeded(content[c].results) THEN 1 ELSE 0

NoneAhead(c) ==
    \A t \in Target, e \in 0 .. MaxEdition :
        /\ posts[c][t][e] <= 1
        /\ e > content[c].edition => posts[c][t][e] = 0

Orderly(c) == OneCall(c) /\ CopyAgrees(c) /\ RowAgrees(c) /\ NoneAhead(c)

UndisturbedInv == \A c \in Content \ disturbed : Orderly(c)
-----------------------------------------------------------------------------
LEMMA UndisturbedInit == Init => UndisturbedInv
<1> SUFFICES ASSUME Init, NEW c \in Content PROVE Orderly(c)
  BY DEF UndisturbedInv
<1>1. \A p \in Publisher : ~Publishes(p, c)
  BY DEF Init, Publishes, InFlight, Idle
<1>2. /\ content[c].edition = 0 /\ Succeeded(content[c].results) = {}
      /\ 0 \in 0 .. MaxEdition
      /\ \A t \in Target, e \in 0 .. MaxEdition : posts[c][t][e] = 0
  BY BoundsAssumption DEF Init, ItemsInit, Succeeded, NoResults
<1> QED BY <1>1, <1>2 DEF Orderly, OneCall, CopyAgrees, RowAgrees, NoneAhead

\* A call in flight is a record of its type.
LEMMA FlightIsCall ==
    ASSUME TypeOK, NEW p \in Publisher, NEW c \in Content, Publishes(p, c)
    PROVE  /\ pub[p] \in PublishCall /\ pub[p].item = c /\ pub[p] # Idle
           /\ pub[p].pc \in {"check", "post", "saveOk", "saveFailed"}
BY CallIsCall DEF Publishes, InFlight, PublishCall, Idle

\* A step that leaves the posts, the record and the copies in flight.
LEMMA Quiet ==
    ASSUME NEW c \in Content, Orderly(c),
           posts'[c] = posts[c], content'[c].edition = content[c].edition,
           Succeeded(content'[c].results) = Succeeded(content[c].results),
           \A p \in Publisher : Publishes(p, c)' =>
              /\ Publishes(p, c) /\ pub'[p].edition = pub[p].edition
              /\ pub'[p].targets = pub[p].targets /\ pub'[p].results = pub[p].results
              /\ pub'[p].pc = "saveOk" <=> pub[p].pc = "saveOk",
           \A p \in Publisher : Publishes(p, c) /\ pub[p].pc = "saveOk" => Publishes(p, c)'
    PROVE  Orderly(c)'
<1>1. OneCall(c)'
  BY DEF Orderly, OneCall
<1>2. CopyAgrees(c)'
  BY DEF Orderly, CopyAgrees
<1>3. RowAgrees(c)'
  <2>1. ASSUME \A p \in Publisher : Publishes(p, c)' => pub'[p].pc # "saveOk"
        PROVE  \A p \in Publisher : Publishes(p, c) => pub[p].pc # "saveOk"
    BY <2>1
  <2> QED BY <2>1 DEF Orderly, RowAgrees
<1>4. NoneAhead(c)'
  BY DEF Orderly, NoneAhead
<1> QED BY <1>1, <1>2, <1>3, <1>4 DEF Orderly

\* A step that changes no call.
LEMMA NoCallStep ==
    ASSUME NEW c \in Content, Orderly(c), UNCHANGED <<pub, posts>>,
           content'[c].edition = content[c].edition,
           Succeeded(content'[c].results) = Succeeded(content[c].results)
    PROVE  Orderly(c)'
BY Quiet DEF Publishes, InFlight
-----------------------------------------------------------------------------
(***************************************************************************)
(* The requests of the content module.                                     *)
(***************************************************************************)

\* A request that edits nothing keeps the results and the edition.
LEMMA ItemsKeepResults ==
    ASSUME ItemsTypeOK, ItemsNext, NEW c \in Content
    PROVE  content'[c].results = content[c].results /\ content'[c].edition = content[c].edition
<1>1. content \in [Content -> Row]
  BY DEF ItemsTypeOK
<1>2. CASE content' = content
  BY <1>2
<1>3. ASSUME NEW b \in Content, NEW status \in CreateStatus, NEW when \in When,
             NEW targets \in SUBSET Target, Create(b, status, when, targets)
      PROVE  content'[c].results = content[c].results /\ content'[c].edition = content[c].edition
  BY <1>1, <1>3 DEF Create, Row
<1>4. ASSUME NEW b \in Content, NEW when \in When, Schedule(b, when)
      PROVE  content'[c].results = content[c].results /\ content'[c].edition = content[c].edition
  BY <1>1, <1>4 DEF Schedule, Scheduled, Row
<1>5. ASSUME NEW b \in Content, CreateApproval(b) \/ TimePasses(b)
      PROVE  content'[c].results = content[c].results /\ content'[c].edition = content[c].edition
  BY <1>1, <1>5 DEF CreateApproval, TimePasses, Row
<1>6. ASSUME NEW d \in Decider, DecideWrite(d)
      PROVE  content'[c].results = content[c].results /\ content'[c].edition = content[c].edition
  BY <1>1, <1>6 DEF DecideWrite, Row
<1> QED BY <1>2, <1>3, <1>4, <1>5, <1>6
    DEF ItemsNext, DecideNext, DecideRead, Disconnect, Reconnect

\* The rows that an edit leaves.
LEMMA EditedRowIs ==
    ASSUME ItemsTypeOK, NEW e \in Editor, EditWrite(e)
    PROVE  /\ edit[e] \in EditCall /\ edit[e].item \in Content
           /\ \A c \in Content \ {edit[e].item} : content'[c] = content[c]
           /\ edit'[e] = Idle
           /\ LET c == edit[e].item IN
                 IF ClearsResults(edit[e].input)
                 THEN /\ content'[c].results = NoResults
                      /\ content'[c].edition = content[c].edition + 1
                      /\ content[c].edition < MaxEdition
                 ELSE /\ content'[c].results = edit[e].results
                      /\ content'[c].edition = content[c].edition
<1>1. content \in [Content -> Row] /\ edit[e] \in EditCall /\ edit[e].item \in Content
  BY EditIsCall DEF EditWrite, ItemsTypeOK, EditCall
<1> DEFINE c == edit[e].item
           row == EditedRow(edit[e], content[c])
<1>2. /\ content' = [content EXCEPT ![c] = row]
      /\ ClearsResults(edit[e].input) => content[c].edition < MaxEdition
  BY DEF EditWrite
<1>3. /\ row.results = IF ClearsResults(edit[e].input) THEN NoResults ELSE edit[e].results
      /\ row.edition = IF ClearsResults(edit[e].input) THEN content[c].edition + 1
                                                       ELSE content[c].edition
  <2> DEFINE st == IF edit[e].input.status = "keep" THEN content[c].status
                                                    ELSE edit[e].input.status
             wh == IF edit[e].input.when = "keep" THEN content[c].when ELSE edit[e].input.when
             ed == IF ClearsResults(edit[e].input) THEN content[c].edition + 1
                                                   ELSE content[c].edition
             rs == EditedResults(edit[e])
  <2>1. row = [content[c] EXCEPT !.status = st, !.when = wh, !.targets = edit[e].targets,
                                 !.results = rs, !.edition = ed]
    BY DEF EditedRow
  <2>2. content[c] \in Row
    BY <1>1
  <2> HIDE DEF st, wh, ed, rs, row
  <2>3. row.results = rs /\ row.edition = ed
    BY <2>1, <2>2 DEF Row
  <2> QED BY <2>3 DEF rs, ed, EditedResults
<1>4. edit'[e] = Idle
  BY DEF EditWrite, ItemsTypeOK
<1> HIDE DEF row
<1>5. content'[c] = row /\ \A b \in Content \ {c} : content'[b] = content[b]
  BY <1>1, <1>2
<1> QED BY <1>1, <1>2, <1>3, <1>4, <1>5

\* An edit that does not disturb the item starts an edition that nobody
\* publishes yet, or writes the results that are there.
LEMMA EditKeepsOrder ==
    ASSUME TypeOK, EditStep, NEW c \in Content \ disturbed', Orderly(c)
    PROVE  Orderly(c)'
<1>1. /\ ItemsTypeOK /\ content \in [Content -> Row] /\ UNCHANGED <<pub, posts>>
      /\ content[c].edition \in Nat
      /\ posts \in [Content -> [Target -> [0 .. MaxEdition -> 0 .. 2]]]
  BY BoundsAssumption DEF TypeOK, EditStep, ItemsTypeOK, Row
<1>2. CASE content'[c] = content[c]
  BY <1>1, <1>2, NoCallStep
<1>3. ASSUME NEW e \in Editor, EditWrite(e), edit[e].item = c
      PROVE  Orderly(c)'
  <2>1. ~Disturbs(edit[e])
    <3>1. edit'[e] = Idle /\ edit[e].pc = "write"
      BY <1>1, <1>3, EditedRowIs DEF EditWrite
    <3> QED BY <1>3, <3>1 DEF EditStep
  <2>2. CASE ~ClearsResults(edit[e].input)
    <3>1. content'[c].results = content[c].results /\ content'[c].edition = content[c].edition
      BY <1>1, <1>3, <2>1, <2>2, EditedRowIs DEF Disturbs
    <3> QED BY <1>1, <3>1, NoCallStep
  <2>3. CASE ClearsResults(edit[e].input)
    <3>1. \A p \in Publisher : ~Publishes(p, c) /\ ~Publishes(p, c)'
      BY <1>1, <1>3, <2>1, <2>3 DEF Disturbs, Publishes, InFlight
    <3>2. /\ Succeeded(content'[c].results) = {}
          /\ content'[c].edition = content[c].edition + 1
          /\ content'[c].edition \in 0 .. MaxEdition
      BY <1>1, <1>3, <2>3, EditedRowIs, BoundsAssumption DEF Succeeded, NoResults
    <3>3. \A t \in Target : posts[c][t][content'[c].edition] = 0
      BY <1>1, <3>2 DEF Orderly, NoneAhead
    <3>4. NoneAhead(c)'
      BY <1>1, <3>2 DEF Orderly, NoneAhead
    <3> QED BY <1>1, <3>1, <3>2, <3>3, <3>4 DEF Orderly, OneCall, CopyAgrees, RowAgrees
  <2> QED BY <2>2, <2>3
<1>4. ASSUME NEW e \in Editor, EditWrite(e), edit[e].item # c
      PROVE  content'[c] = content[c]
  BY <1>1, <1>4, EditedRowIs
<1> QED BY <1>2, <1>3, <1>4 DEF EditStep, EditNext, EditRead
-----------------------------------------------------------------------------
(***************************************************************************)
(* The calls of publish.                                                   *)
(***************************************************************************)

\* A call that returns is in flight no more.
LEMMA ReturnIsOver ==
    ASSUME NEW p \in Publisher, NEW c \in Content, NEW pc \in {"done", "thrown"}
    PROVE  Return(p, c, pc).pc \in {"idle", "done", "thrown"}
BY DEF Return, Idle

\* A call begins with the row, alone on the item, or disturbs it.
LEMMA ReadKeepsOrder ==
    ASSUME TypeOK, NEW p \in Publisher, NEW b \in Content, PublishRead(p, b),
           UNCHANGED <<content, posts>>,
           NEW c \in Content \ disturbed', Orderly(c),
           p \in Instance => \A q \in Instance \ {p} : pub[q] = Idle
    PROVE  Orderly(c)'
<1> DEFINE call == [pc |-> "check", item |-> b, targets |-> content[b].targets,
                    results |-> content[b].results, edition |-> content[b].edition]
           new == IF content[b].targets = {} THEN Return(p, b, "thrown") ELSE call
<1>1. /\ pub \in [Publisher -> PublishCall \cup PublishReturn \cup {Idle}]
      /\ pub' = [pub EXCEPT ![p] = new] /\ pub[p] = Idle
  BY DEF TypeOK, PublishRead
<1>2. /\ \A q \in Publisher \ {p} : pub'[q] = pub[q]
      /\ pub'[p] = new
  <2> HIDE DEF new
  <2> QED BY <1>1
<1>3. ~Publishes(p, c)
  BY <1>1 DEF Publishes, InFlight, Idle
<1>4. CASE b # c \/ content[b].targets = {}
  <2>1. ~Publishes(p, c)'
    BY <1>2, <1>4, ReturnIsOver DEF Publishes, InFlight
  <2> QED BY <1>2, <1>3, <2>1, Quiet DEF Publishes, InFlight
<1>5. CASE b = c /\ content[b].targets # {}
  <2>1. \A q \in Publisher : ~Publishes(q, c)
    <3> SUFFICES ASSUME NEW q \in Publisher \ {p}, Publishes(q, c) PROVE FALSE
      BY <1>3
    <3>1. c \notin disturbed' /\ ~Overlaps(p, b)
      BY <1>5 DEF PublishRead
    <3>2. p \in Instance /\ q \in Instance
      BY <1>5, <3>1 DEF Overlaps, Publisher
    <3> QED BY <3>2, FlightIsCall
  <2>2. /\ pub'[p].results = content[c].results /\ pub'[p].edition = content[c].edition
        /\ pub'[p].targets = content[c].targets /\ pub'[p].pc = "check"
    BY <1>2, <1>5
  <2>3. \A q \in Publisher : Publishes(q, c)' => q = p
    BY <1>2, <2>1 DEF Publishes, InFlight
  <2>4. OneCall(c)'
    BY <2>3 DEF OneCall
  <2>5. \A t \in Target : posts[c][t][content[c].edition] =
                            IF t \in Succeeded(content[c].results) THEN 1 ELSE 0
    BY <2>1 DEF Orderly, RowAgrees
  <2>6. CopyAgrees(c)'
    BY <1>5, <2>2, <2>3, <2>5 DEF CopyAgrees
  <2>7. RowAgrees(c)' /\ NoneAhead(c)'
    BY <2>5 DEF RowAgrees, Orderly, NoneAhead
  <2> QED BY <2>4, <2>6, <2>7 DEF Orderly
<1> QED BY <1>4, <1>5

\* The connections are checked.
LEMMA CheckKeepsOrder ==
    ASSUME TypeOK, NEW p \in Publisher, PublishCheck(p), NEW c \in Content, Orderly(c)
    PROVE  Orderly(c)'
<1>1. pub[p] \in PublishCall /\ UNCHANGED <<content, posts>>
  BY CallIsCall DEF PublishCheck, itemVars
<1> DEFINE next == [pub[p] EXCEPT !.pc = "post"]
           new == IF pub[p].targets \subseteq connected THEN next
                                                        ELSE Return(p, pub[p].item, "thrown")
<1>2. pub' = [pub EXCEPT ![p] = new]
  BY DEF PublishCheck
<1>3. /\ next.pc = "post" /\ next.item = pub[p].item /\ next.edition = pub[p].edition
      /\ next.targets = pub[p].targets /\ next.results = pub[p].results
      /\ pub[p].item \in Content
  BY <1>1 DEF PublishCall
<1>4. new = next \/ new.pc \in {"idle", "done", "thrown"}
  BY <1>3, ReturnIsOver
<1> HIDE DEF next, new
<1>5. /\ \A q \in Publisher \ {p} : pub'[q] = pub[q]
      /\ pub'[p] = new
  BY <1>2 DEF TypeOK
<1> QED BY <1>1, <1>3, <1>4, <1>5, Quiet DEF PublishCheck, Publishes, InFlight

\* What a post leaves of its call and of Meta.
AfterPost(p, t, outcome, c) ==
    /\ c \in Content /\ Publishes(p, c) /\ pub[p].pc = "post" /\ pub[p] \in PublishCall
    /\ t \in pub[p].targets /\ pub[p].results[t] # "SUCCEEDED"
    /\ UNCHANGED content
    /\ \A q \in Publisher \ {p} : pub'[q] = pub[q]
    /\ pub'[p].item = c /\ pub'[p].edition = pub[p].edition
    /\ pub'[p].targets = pub[p].targets
    /\ pub'[p].pc = IF outcome = "accepted" THEN "saveOk" ELSE "saveFailed"
    /\ Succeeded(pub'[p].results) = IF outcome = "accepted"
                                    THEN Succeeded(pub[p].results) \cup {t}
                                    ELSE Succeeded(pub[p].results)
    /\ \A b \in Content \ {c} : posts'[b] = posts[b]
    /\ outcome = "rejected" => posts' = posts
    /\ outcome # "rejected" =>
          posts'[c] = [posts[c] EXCEPT ![t][pub[p].edition] = UpToTwo(@)]
    /\ outcome = "lost" => c \in disturbed'

LEMMA PostIs ==
    ASSUME TypeOK, NEW p \in Publisher, NEW t \in Target, NEW outcome \in MetaOutcome,
           PublishPost(p, t, outcome), NEW c, c = pub[p].item
    PROVE  AfterPost(p, t, outcome, c)
<1>1. pub[p] \in PublishCall /\ pub[p].pc = "post" /\ t \in Remaining(pub[p])
  BY CallIsCall DEF PublishPost
<1>2. pub[p].item \in Content /\ pub[p].results \in Results
  BY <1>1 DEF PublishCall
<1> DEFINE pc == IF outcome = "accepted" THEN "saveOk" ELSE "saveFailed"
           rs == [pub[p].results EXCEPT ![t] = ResultOf(outcome)]
           next == [pub[p] EXCEPT !.pc = pc, !.results = rs]
<1>3. pub' = [pub EXCEPT ![p] = next]
  BY DEF PublishPost
<1>4. Succeeded(rs) = IF outcome = "accepted" THEN Succeeded(pub[p].results) \cup {t}
                                              ELSE Succeeded(pub[p].results)
  BY <1>1, <1>2 DEF Succeeded, ResultOf, Results, Remaining
<1>5. /\ next.item = pub[p].item /\ next.edition = pub[p].edition
      /\ next.targets = pub[p].targets /\ next.pc = pc /\ next.results = rs
  <2> HIDE DEF pc, rs
  <2> QED BY <1>1 DEF PublishCall
<1>6. /\ \A q \in Publisher \ {p} : pub'[q] = pub[q]
      /\ pub'[p] = next
  <2> HIDE DEF next
  <2> QED BY <1>3 DEF TypeOK
<1>7. /\ outcome = "rejected" => posts' = posts
      /\ outcome # "rejected" =>
            posts' = [posts EXCEPT ![c][t][pub[p].edition] = UpToTwo(@)]
      /\ outcome = "lost" => c \in disturbed'
      /\ UNCHANGED content
  BY DEF PublishPost, itemVars
<1>8. posts \in [Content -> [Target -> [0 .. MaxEdition -> 0 .. 2]]]
  BY DEF TypeOK
<1>9. /\ \A b \in Content \ {c} : posts'[b] = posts[b]
      /\ outcome # "rejected" =>
            posts'[c] = [posts[c] EXCEPT ![t][pub[p].edition] = UpToTwo(@)]
  BY <1>2, <1>7, <1>8
<1>10. t \in pub[p].targets /\ pub[p].results[t] # "SUCCEEDED"
  BY <1>1 DEF Remaining
<1> HIDE DEF next, rs
<1> QED BY <1>1, <1>2, <1>4, <1>5, <1>6, <1>7, <1>9, <1>10 DEF AfterPost, Publishes, InFlight

\* A post is of a target that the present edition was not posted to.
LEMMA PostKeepsOrder ==
    ASSUME TypeOK, NEW p \in Publisher, NEW t \in Target, NEW outcome \in MetaOutcome,
           PublishPost(p, t, outcome), NEW c \in Content \ disturbed', Orderly(c),
           NEW k, k = pub[p].item
    PROVE  Orderly(c)'
<1>0. AfterPost(p, t, outcome, k)
  BY PostIs, Z3
<1>1. /\ k \in Content /\ Publishes(p, k) /\ pub[p].pc = "post" /\ pub[p] \in PublishCall
      /\ pub[p].results[t] # "SUCCEEDED" /\ UNCHANGED content
      /\ \A q \in Publisher \ {p} : pub'[q] = pub[q]
      /\ pub'[p].item = k /\ pub'[p].edition = pub[p].edition
      /\ pub'[p].targets = pub[p].targets
      /\ pub'[p].pc = IF outcome = "accepted" THEN "saveOk" ELSE "saveFailed"
      /\ Succeeded(pub'[p].results) = IF outcome = "accepted"
                                      THEN Succeeded(pub[p].results) \cup {t}
                                      ELSE Succeeded(pub[p].results)
      /\ \A b \in Content \ {k} : posts'[b] = posts[b]
      /\ outcome = "rejected" => posts' = posts
      /\ outcome # "rejected" =>
            posts'[k] = [posts[k] EXCEPT ![t][pub[p].edition] = UpToTwo(@)]
      /\ outcome = "lost" => k \in disturbed'
  BY <1>0 DEF AfterPost
<1>2. CASE k # c
  <2>1. \A q \in Publisher : Publishes(q, c)' <=> Publishes(q, c)
    BY <1>1, <1>2 DEF Publishes, InFlight
  <2>2. \A q \in Publisher : Publishes(q, c) => q # p
    BY <1>2 DEF Publishes
  <2> QED BY <1>1, <1>2, <2>1, <2>2, Quiet
<1>3. CASE k = c
  <2>1. \A q \in Publisher : Publishes(q, c) => q = p
    BY <1>1, <1>3 DEF Orderly, OneCall
  <2>2. \A q \in Publisher : Publishes(q, c)' => q = p
    BY <1>1, <2>1 DEF Publishes, InFlight
  <2>3. /\ pub[p].edition = content[c].edition /\ pub[p].targets # {}
        /\ \A u \in Target : posts[c][u][content[c].edition] =
                                IF u \in Succeeded(pub[p].results) THEN 1 ELSE 0
        /\ Succeeded(pub[p].results) = Succeeded(content[c].results)
    BY <1>1, <1>3 DEF Orderly, CopyAgrees
  <2>4. t \notin Succeeded(pub[p].results) /\ posts[c][t][content[c].edition] = 0
    BY <1>1, <2>3 DEF Succeeded
  <2>5. /\ posts \in [Content -> [Target -> [0 .. MaxEdition -> 0 .. 2]]]
        /\ content[c].edition \in 0 .. MaxEdition
    BY <1>1, <2>3 DEF TypeOK, PublishCall
  <2>6. CASE outcome = "accepted"
    <3>1. posts'[c] = [posts[c] EXCEPT ![t][content[c].edition] = 1]
      BY <1>1, <1>3, <2>3, <2>4, <2>6 DEF UpToTwo
    <3>2. \A u \in Target, e \in 0 .. MaxEdition :
             posts'[c][u][e] = IF u = t /\ e = content[c].edition THEN 1 ELSE posts[c][u][e]
      <4>1. posts[c] \in [Target -> [0 .. MaxEdition -> 0 .. 2]]
        BY <2>5
      <4>2. \A u \in Target : posts'[c][u] =
               IF u = t THEN [posts[c][t] EXCEPT ![content[c].edition] = 1] ELSE posts[c][u]
        BY <3>1, <4>1
      <4>3. \A u \in Target : posts[c][u] \in [0 .. MaxEdition -> 0 .. 2]
        BY <4>1
      <4> QED BY <2>5, <4>2, <4>3
    <3>3. OneCall(c)' /\ NoneAhead(c)'
      <4>1. OneCall(c)'
        BY <2>2 DEF OneCall
      <4>2. NoneAhead(c)'
        <5>1. \A u \in Target, e \in 0 .. MaxEdition :
                /\ posts[c][u][e] <= 1
                /\ e > content[c].edition => posts[c][u][e] = 0
          BY DEF Orderly, NoneAhead
        <5>2. content[c].edition \in Int /\ content'[c].edition = content[c].edition
          BY <1>1, <2>5
        <5>3. \A u \in Target, e \in 0 .. MaxEdition :
                /\ posts'[c][u][e] <= 1
                /\ e > content[c].edition => posts'[c][u][e] = 0
          BY <3>2, <5>1, <5>2
        <5> QED BY <5>2, <5>3 DEF NoneAhead
      <4> QED BY <4>1, <4>2
    <3>4. CopyAgrees(c)'
      <4>1. Succeeded(pub'[p].results) = Succeeded(content[c].results) \cup {t}
        BY <1>1, <2>3, <2>6
      <4>2. \A u \in Target : posts'[c][u][content[c].edition] =
                                 IF u \in Succeeded(pub'[p].results) THEN 1 ELSE 0
        BY <2>3, <2>5, <3>2, <4>1
      <4> QED BY <1>1, <2>2, <2>3, <2>6, <4>1, <4>2 DEF CopyAgrees
    <3>5. RowAgrees(c)'
      <4>1. Publishes(p, c)' /\ pub'[p].pc = "saveOk"
        BY <1>1, <1>3, <2>6 DEF Publishes, InFlight
      <4> QED BY <4>1 DEF RowAgrees
    <3> QED BY <3>3, <3>4, <3>5 DEF Orderly
  <2>7. CASE outcome = "rejected"
    <3>1. posts' = posts /\ pub'[p].pc = "saveFailed"
          /\ Succeeded(pub'[p].results) = Succeeded(content[c].results)
      BY <1>1, <2>3, <2>7
    <3>2. OneCall(c)' /\ NoneAhead(c)'
      BY <1>1, <2>2, <3>1 DEF Orderly, OneCall, NoneAhead
    <3>3. CopyAgrees(c)'
      BY <1>1, <2>2, <2>3, <3>1 DEF CopyAgrees
    <3>4. RowAgrees(c)'
      BY <1>1, <2>3, <3>1 DEF RowAgrees
    <3> QED BY <3>2, <3>3, <3>4 DEF Orderly
  <2> QED BY <1>1, <1>3, <2>6, <2>7, MetaOutcomeAssumption
<1> QED BY <1>2, <1>3

\* What the save of a call's results leaves, and the last write of the call.
AfterSave(p, c) ==
    /\ c \in Content /\ Publishes(p, c) /\ pub[p] \in PublishCall
    /\ \A b \in Content \ {c} : content'[b] = content[b]
    /\ content'[c].results = pub[p].results /\ content'[c].targets = pub[p].targets
    /\ content'[c].edition = content[c].edition
    /\ UNCHANGED <<posts, disturbed, byHand, edit, crashes>>
    /\ \A q \in Publisher \ {p} : pub'[q] = pub[q]

LEMMA SaveIs ==
    ASSUME TypeOK, NEW p \in Publisher, PublishSave(p) \/ PublishFinish(p),
           NEW c, c = pub[p].item
    PROVE  /\ AfterSave(p, c)
           /\ content'[c].status = IF pub[p].pc = "post" THEN "PUBLISHED"
                                                         ELSE content[c].status
           /\ IF pub[p].pc = "saveOk"
              THEN /\ pub'[p].pc = "post" /\ pub'[p].item = c
                   /\ pub'[p].edition = content[c].edition
                   /\ pub'[p].targets = pub[p].targets
                   /\ pub'[p].results = pub[p].results
              ELSE ~Publishes(p, c)' /\ ~InFlight(p)'
<1>1. /\ pub[p] \in PublishCall /\ pub[p].item = c /\ c \in Content
      /\ pub[p].pc \in {"post", "saveOk", "saveFailed"}
      /\ content \in [Content -> Row] /\ content[c] \in Row
  BY CallIsCall DEF PublishSave, PublishFinish, PublishCall, TypeOK, ItemsTypeOK
<1> DEFINE next == [pub[p] EXCEPT !.pc = "post",
                             !.edition = content[pub[p].item].edition]
           saved == SavedRow(pub[p], content[c])
           final == [saved EXCEPT !.status = "PUBLISHED"]
           row == IF pub[p].pc = "post" THEN final ELSE saved
           new == IF pub[p].pc = "post" THEN Return(p, c, "done")
                  ELSE IF pub[p].pc = "saveOk" THEN next ELSE Return(p, c, "thrown")
<1>2. content' = [content EXCEPT ![c] = row] /\ pub' = [pub EXCEPT ![p] = new]
  <2>1. CASE PublishSave(p)
    BY <1>1, <2>1 DEF PublishSave
  <2>2. CASE PublishFinish(p)
    BY <1>1, <2>2 DEF PublishFinish
  <2> QED BY <2>1, <2>2
<1>3. UNCHANGED <<posts, disturbed, byHand, edit, crashes>>
  BY DEF PublishSave, PublishFinish
<1>4. /\ saved.results = pub[p].results /\ saved.targets = pub[p].targets
      /\ saved.edition = content[c].edition /\ saved.status = content[c].status
      /\ final.results = pub[p].results /\ final.targets = pub[p].targets
      /\ final.edition = content[c].edition /\ final.status = "PUBLISHED"
  BY <1>1 DEF SavedRow, Row
<1>5. /\ next.pc = "post" /\ next.item = c /\ next.edition = content[c].edition
      /\ next.targets = pub[p].targets /\ next.results = pub[p].results
  BY <1>1 DEF PublishCall
<1>6. /\ Return(p, c, "done").pc \in {"idle", "done", "thrown"}
      /\ Return(p, c, "thrown").pc \in {"idle", "done", "thrown"}
  BY <1>1, ReturnIsOver
<1>7. pub'[p] = new /\ \A q \in Publisher \ {p} : pub'[q] = pub[q]
  <2> HIDE DEF new
  <2> QED BY <1>2 DEF TypeOK
<1>8. content'[c] = row /\ \A b \in Content \ {c} : content'[b] = content[b]
  <2> HIDE DEF row
  <2> QED BY <1>1, <1>2
<1> HIDE DEF next, saved, final
<1>9. AfterSave(p, c)
  BY <1>1, <1>3, <1>4, <1>7, <1>8 DEF AfterSave, Publishes, InFlight
<1>10. content'[c].status = IF pub[p].pc = "post" THEN "PUBLISHED" ELSE content[c].status
  BY <1>4, <1>8
<1>11. pub[p].pc = "saveOk" => /\ pub'[p].pc = "post" /\ pub'[p].item = c
                               /\ pub'[p].edition = content[c].edition
                               /\ pub'[p].targets = pub[p].targets
                               /\ pub'[p].results = pub[p].results
  BY <1>5, <1>7
<1>12. pub[p].pc # "saveOk" => ~Publishes(p, c)' /\ ~InFlight(p)'
  BY <1>1, <1>6, <1>7 DEF Publishes, InFlight
<1> QED BY <1>9, <1>10, <1>11, <1>12

\* A save writes into the row what the copy says.
LEMMA SaveKeepsOrder ==
    ASSUME TypeOK, NEW p \in Publisher, PublishSave(p) \/ PublishFinish(p),
           NEW c \in Content, Orderly(c), NEW k, k = pub[p].item
    PROVE  Orderly(c)'
<1>1. /\ AfterSave(p, k)
      /\ IF pub[p].pc = "saveOk"
         THEN /\ pub'[p].pc = "post" /\ pub'[p].item = k
              /\ pub'[p].edition = content[k].edition
              /\ pub'[p].targets = pub[p].targets
              /\ pub'[p].results = pub[p].results
         ELSE ~Publishes(p, k)' /\ ~InFlight(p)'
  BY SaveIs, Z3
<1>2. CASE k # c
  <2>1. /\ posts' = posts /\ content'[c] = content[c]
        /\ \A q \in Publisher \ {p} : pub'[q] = pub[q]
        /\ ~Publishes(p, c) /\ ~Publishes(p, c)'
    BY <1>1, <1>2 DEF AfterSave, Publishes
  <2> QED BY <2>1, Quiet DEF Publishes, InFlight
<1>3. CASE k = c
  <2>1. /\ Publishes(p, c) /\ posts' = posts
        /\ content'[c].results = pub[p].results
        /\ content'[c].edition = content[c].edition
        /\ \A q \in Publisher : Publishes(q, c)' => q = p
    BY <1>1, <1>3 DEF AfterSave, Orderly, OneCall, Publishes, InFlight
  <2>2. /\ pub[p].edition = content[c].edition /\ pub[p].targets # {}
        /\ \A t \in Target : posts[c][t][content[c].edition] =
                                IF t \in Succeeded(pub[p].results) THEN 1 ELSE 0
    BY <2>1 DEF Orderly, CopyAgrees
  <2>3. OneCall(c)' /\ NoneAhead(c)'
    BY <2>1 DEF Orderly, OneCall, NoneAhead
  <2>4. RowAgrees(c)'
    BY <2>1, <2>2 DEF RowAgrees
  <2>5. CopyAgrees(c)'
    <3>1. ASSUME Publishes(p, c)'
          PROVE  /\ pub'[p].pc = "post" /\ pub'[p].edition = content[c].edition
                 /\ pub'[p].targets = pub[p].targets /\ pub'[p].results = pub[p].results
      BY <1>1, <1>3, <3>1
    <3> QED BY <2>1, <2>2, <3>1 DEF CopyAgrees
  <2> QED BY <2>3, <2>4, <2>5 DEF Orderly
<1> QED BY <1>2, <1>3

LEMMA PublishStepKeepsOrder ==
    ASSUME TypeOK, NEW p \in Publisher, PublishStep(p),
           NEW c \in Content \ disturbed', Orderly(c)
    PROVE  Orderly(c)'
<1>1. CASE PublishCheck(p)
  BY <1>1, CheckKeepsOrder
<1>2. ASSUME NEW t \in Target, NEW outcome \in MetaOutcome, PublishPost(p, t, outcome)
      PROVE  Orderly(c)'
  BY <1>2, PostKeepsOrder
<1>3. CASE PublishSave(p) \/ PublishFinish(p)
  BY <1>3, SaveKeepsOrder
<1> QED BY <1>1, <1>2, <1>3 DEF PublishStep
-----------------------------------------------------------------------------
(***************************************************************************)
(* Sweeps, crashes, and every step.                                        *)
(***************************************************************************)

\* A publisher that leaves what it was doing: of a call whose post was not
\* saved, the item is disturbed.
LEMMA LeaveKeepsOrder ==
    ASSUME TypeOK, NEW p \in Publisher, UNCHANGED posts,
           \A q \in Publisher \ {p} : pub'[q] = pub[q], ~InFlight(p)',
           pub[p].pc # "saveOk",
           NEW c \in Content, Orderly(c),
           content'[c].edition = content[c].edition, content'[c].results = content[c].results
    PROVE  Orderly(c)'
BY Quiet DEF Publishes, InFlight

LEMMA SweepKeepsOrder ==
    ASSUME SweepInv, NEW i \in Instance, SweepStep(i),
           NEW c \in Content \ disturbed', Orderly(c)
    PROVE  Orderly(c)'
<1>1. i \in Publisher /\ TypeOK /\ SweepAttempts /\ OneSweep /\ content \in [Content -> Row]
  BY DEF Publisher, SweepInv, TypeOK, ItemsTypeOK
<1>2. CASE SweepStart(i) \/ SweepFilter(i) \/ SweepEnd(i)
  BY <1>2, NoCallStep DEF SweepStart, SweepFilter, SweepEnd, itemVars
<1>3. ASSUME NEW b \in Content, SweepPublish(i, b)
      PROVE  Orderly(c)'
  <2>1. sweep[i] # Idle /\ PublishRead(i, b) /\ UNCHANGED <<content, posts>>
    BY <1>3 DEF SweepPublish, Idle, itemVars
  <2>2. \A q \in Instance \ {i} : pub[q] = Idle
    BY <1>1, <2>1, OthersIdle DEF OneSweep
  <2> QED BY <1>1, <2>1, <2>2, ReadKeepsOrder
<1>4. CASE PublishStep(i)
  BY <1>1, <1>4, PublishStepKeepsOrder
<1>5. CASE SweepSucceeded(i) \/ SweepLog(i)
  <2>1. /\ \A q \in Publisher \ {i} : pub'[q] = pub[q]
        /\ ~InFlight(i)' /\ pub[i].pc # "saveOk" /\ UNCHANGED <<posts, content>>
    BY <1>1, <1>5 DEF SweepSucceeded, SweepLog, TypeOK, InFlight, Idle, itemVars
  <2> QED BY <1>1, <2>1, LeaveKeepsOrder
<1>6. CASE SweepFailure(i)
  <2>1. pub[i] \in PublishReturn
    BY <1>1, <1>6, ReturnIsReturn DEF SweepFailure
  <2>2. /\ \A q \in Publisher \ {i} : pub'[q] = pub[q]
        /\ ~InFlight(i)' /\ pub[i].pc # "saveOk" /\ UNCHANGED posts
    BY <1>1, <1>6, <2>1 DEF SweepFailure, TypeOK, InFlight, PublishReturn
  <2>3. content'[c].edition = content[c].edition /\ content'[c].results = content[c].results
    BY <1>1, <1>6 DEF SweepFailure, FailedRow, Row
  <2> QED BY <1>1, <2>2, <2>3, LeaveKeepsOrder
<1> QED BY <1>2, <1>3, <1>4, <1>5, <1>6 DEF SweepStep

\* What a step of a sweep that is none of publish's leaves alone.
Attends(i) ==
    /\ UNCHANGED <<posts, disturbed, byHand, edit, crashes>>
    /\ \A c \in Content : /\ content'[c].results = content[c].results
                          /\ content'[c].edition = content[c].edition
                          /\ content'[c].targets = content[c].targets
                          /\ content'[c].status = content[c].status
    /\ \A q \in Publisher :
          pub'[q] = pub[q] \/ (q = i /\ pub[i].pc # "post" /\ ~InFlight(i)')

LEMMA SweepIs ==
    ASSUME TypeOK, NEW i \in Instance, SweepStep(i)
    PROVE  \/ Attends(i)
           \/ PublishStep(i)
           \/ \E b \in Content : PublishRead(i, b) /\ UNCHANGED <<itemVars, posts, crashes>>
<1>1. i \in Publisher /\ content \in [Content -> Row]
  BY DEF Publisher, TypeOK, ItemsTypeOK
<1>2. CASE SweepStart(i) \/ SweepFilter(i) \/ SweepEnd(i)
  <2>1. UNCHANGED <<posts, disturbed, byHand, edit, crashes, content, pub>>
    BY <1>2 DEF SweepStart, SweepFilter, SweepEnd, itemVars
  <2> QED BY <2>1 DEF Attends
<1>3. CASE SweepSucceeded(i) \/ SweepLog(i)
  <2>1. /\ \A q \in Publisher \ {i} : pub'[q] = pub[q]
        /\ ~InFlight(i)' /\ pub[i].pc # "post"
    BY <1>1, <1>3 DEF SweepSucceeded, SweepLog, TypeOK, InFlight, Idle
  <2>2. UNCHANGED <<posts, disturbed, byHand, edit, crashes, content>>
    BY <1>3 DEF SweepSucceeded, SweepLog, itemVars
  <2> QED BY <2>1, <2>2 DEF Attends
<1>4. CASE SweepFailure(i)
  <2>1. pub[i] \in PublishReturn
    BY <1>1, <1>4, ReturnIsReturn DEF SweepFailure
  <2>2. /\ \A q \in Publisher \ {i} : pub'[q] = pub[q]
        /\ ~InFlight(i)' /\ pub[i].pc # "post"
    BY <1>1, <1>4, <2>1 DEF SweepFailure, TypeOK, InFlight, PublishReturn
  <2>3. \A c \in Content : /\ content'[c].results = content[c].results
                           /\ content'[c].edition = content[c].edition
                           /\ content'[c].targets = content[c].targets
                           /\ content'[c].status = content[c].status
    BY <1>1, <1>4 DEF SweepFailure, FailedRow, Row
  <2> QED BY <1>4, <2>2, <2>3 DEF Attends, SweepFailure
<1>5. ASSUME NEW b \in Content, SweepPublish(i, b)
      PROVE  PublishRead(i, b) /\ UNCHANGED <<itemVars, posts, crashes>>
  BY <1>5 DEF SweepPublish
<1> QED BY <1>2, <1>3, <1>4, <1>5 DEF SweepStep

\* A call that ends before its time: its process stops, or it fails.
CutsOff(p) == Crash(p) \/ StatementFails(p)

\* What the end of such a call leaves alone.
LEMMA CutOffIs ==
    ASSUME TypeOK, NEW p \in Publisher, CutsOff(p)
    PROVE  /\ \A q \in Publisher \ {p} : pub'[q] = pub[q]
           /\ ~InFlight(p)' /\ UNCHANGED <<posts, content, byHand, edit>>
           /\ crashes' # crashes
           /\ disturbed' = IF pub[p].pc = "saveOk"
                           THEN disturbed \cup {pub[p].item} ELSE disturbed
<1>1. crashes \in Nat
  BY MaxCrashesAssumption DEF TypeOK
<1>2. crashes' # crashes
  BY <1>1 DEF CutsOff, Crash, StatementFails
<1>3. \A q \in Publisher \ {p} : pub'[q] = pub[q]
  BY DEF CutsOff, Crash, StatementFails, TypeOK
<1>4. ~InFlight(p)'
  <2>1. CASE Crash(p)
    BY <2>1 DEF Crash, TypeOK, InFlight, Idle
  <2>2. CASE StatementFails(p)
    <3>1. pub[p].item \in Content
      BY <2>2, CallIsCall DEF StatementFails, InFlight, PublishCall
    <3>2. pub'[p] = Return(p, pub[p].item, "thrown")
      BY <2>2 DEF StatementFails, TypeOK
    <3> QED BY <3>1, <3>2, ReturnIsOver DEF InFlight
  <2> QED BY <2>1, <2>2 DEF CutsOff
<1> QED BY <1>2, <1>3, <1>4 DEF CutsOff, Crash, StatementFails, itemVars

LEMMA CutOffKeepsOrder ==
    ASSUME TypeOK, NEW p \in Publisher, CutsOff(p),
           NEW c \in Content \ disturbed', Orderly(c)
    PROVE  Orderly(c)'
<1>1. /\ \A q \in Publisher \ {p} : pub'[q] = pub[q]
      /\ ~InFlight(p)' /\ UNCHANGED <<posts, content>>
  BY CutOffIs
<1>2. CASE pub[p].pc # "saveOk"
  BY <1>1, <1>2, LeaveKeepsOrder
<1>3. CASE pub[p].pc = "saveOk"
  <2>1. pub[p].item # c
    BY <1>3, CutOffIs
  <2> QED BY <1>1, <2>1, Quiet DEF Publishes, InFlight
<1> QED BY <1>2, <1>3

\* What the start of a call leaves alone.
LEMMA ReadIs ==
    ASSUME TypeOK, NEW p \in Publisher, NEW b \in Content, PublishRead(p, b)
    PROVE  /\ \A q \in Publisher \ {p} : pub'[q] = pub[q]
           /\ pub[p] = Idle
           /\ InFlight(p)' => pub'[p].item = b /\ pub'[p].results = content[b].results
           /\ disturbed' = disturbed \/ disturbed' = disturbed \cup {b}
<1> DEFINE call == [pc |-> "check", item |-> b, targets |-> content[b].targets,
                    results |-> content[b].results, edition |-> content[b].edition]
           new == IF content[b].targets = {} THEN Return(p, b, "thrown") ELSE call
<1>1. pub' = [pub EXCEPT ![p] = new] /\ pub[p] = Idle
  BY DEF PublishRead
<1>2. new = call \/ new.pc \in {"idle", "done", "thrown"}
  BY ReturnIsOver
<1>3. call.item = b /\ call.results = content[b].results
  OBVIOUS
<1> HIDE DEF new, call
<1>4. pub'[p] = new /\ \A q \in Publisher \ {p} : pub'[q] = pub[q]
  BY <1>1 DEF TypeOK
<1>5. disturbed' = disturbed \/ disturbed' = disturbed \cup {b}
  BY DEF PublishRead
<1> QED BY <1>1, <1>2, <1>3, <1>4, <1>5 DEF InFlight

\* What the check of the connections leaves alone.
LEMMA CheckIs ==
    ASSUME TypeOK, NEW p \in Publisher, PublishCheck(p)
    PROVE  /\ UNCHANGED <<content, posts, edit, byHand, disturbed, crashes>>
           /\ \A q \in Publisher \ {p} : pub'[q] = pub[q]
           /\ Publishes(p, pub[p].item) /\ pub[p].pc = "check"
           /\ InFlight(p)' => pub'[p].item = pub[p].item /\ pub'[p].results = pub[p].results
<1>1. pub[p] \in PublishCall /\ UNCHANGED <<content, posts, edit, byHand, disturbed, crashes>>
  BY CallIsCall DEF PublishCheck, itemVars
<1> DEFINE next == [pub[p] EXCEPT !.pc = "post"]
           new == IF pub[p].targets \subseteq connected THEN next
                                                        ELSE Return(p, pub[p].item, "thrown")
<1>2. pub' = [pub EXCEPT ![p] = new]
  BY DEF PublishCheck
<1>3. next.item = pub[p].item /\ next.results = pub[p].results /\ pub[p].item \in Content
  BY <1>1 DEF PublishCall
<1>4. new = next \/ new.pc \in {"idle", "done", "thrown"}
  BY <1>3, ReturnIsOver
<1> HIDE DEF next, new
<1>5. pub'[p] = new /\ \A q \in Publisher \ {p} : pub'[q] = pub[q]
  BY <1>2 DEF TypeOK
<1> QED BY <1>1, <1>3, <1>4, <1>5 DEF InFlight, Publishes, PublishCheck

LEMMA DisturbedStays ==
    ASSUME TypeOK, [Next]_vars
    PROVE  disturbed \subseteq disturbed'
<1>1. ASSUME NEW p \in Publisher, PublishStep(p)
      PROVE  disturbed \subseteq disturbed'
  BY <1>1 DEF PublishStep, PublishCheck, PublishPost, PublishSave, PublishFinish
<1>2. ASSUME NEW i \in Instance, SweepStep(i)
      PROVE  disturbed \subseteq disturbed'
  <2>1. i \in Publisher
    BY DEF Publisher
  <2> QED BY <1>1, <1>2, <2>1, SweepIs DEF Attends, PublishRead
<1>3. CASE (ItemsNext /\ UNCHANGED pubVars) \/ EditStep \/ UNCHANGED vars
  BY <1>3 DEF pubVars, vars, EditStep
<1>4. ASSUME NEW q \in Caller, (\E c \in Content : PublishRequest(q, c)) \/ PublishStep(q)
      PROVE  disturbed \subseteq disturbed'
  BY <1>1, <1>4 DEF PublishRequest, PublishRead, Publisher
<1>5. ASSUME NEW p \in Publisher, CutsOff(p)
      PROVE  disturbed \subseteq disturbed'
  BY <1>5, CutOffIs
<1> QED BY <1>2, <1>3, <1>4, <1>5 DEF Next, CutsOff

LEMMA UndisturbedStep == SweepInv /\ UndisturbedInv /\ [Next]_vars => UndisturbedInv'
<1> SUFFICES ASSUME SweepInv, UndisturbedInv, [Next]_vars, NEW c \in Content \ disturbed'
             PROVE  Orderly(c)'
  BY DEF UndisturbedInv
<1>1. TypeOK /\ ItemsTypeOK /\ Orderly(c)
  BY DisturbedStays DEF SweepInv, TypeOK, UndisturbedInv
<1>2. CASE ItemsNext /\ UNCHANGED pubVars
  <2>1. UNCHANGED <<pub, posts>>
    BY <1>2 DEF pubVars
  <2>2. content'[c].results = content[c].results /\ content'[c].edition = content[c].edition
    BY <1>1, <1>2, ItemsKeepResults
  <2> QED BY <1>1, <2>1, <2>2, NoCallStep
<1>3. CASE EditStep
  BY <1>1, <1>3, EditKeepsOrder
<1>4. ASSUME NEW i \in Instance, SweepStep(i)
      PROVE  Orderly(c)'
  BY <1>1, <1>4, SweepKeepsOrder
<1>5. ASSUME NEW q \in Caller, NEW b \in Content, PublishRequest(q, b)
      PROVE  Orderly(c)'
  BY <1>1, <1>5, ReadKeepsOrder, PublisherAssumption DEF PublishRequest, Publisher, itemVars
<1>6. ASSUME NEW q \in Caller, PublishStep(q)
      PROVE  Orderly(c)'
  BY <1>1, <1>6, PublishStepKeepsOrder DEF Publisher
<1>7. ASSUME NEW p \in Publisher, CutsOff(p)
      PROVE  Orderly(c)'
  BY <1>1, <1>7, CutOffKeepsOrder
<1>8. CASE UNCHANGED vars
  BY <1>1, <1>8, NoCallStep DEF vars, itemVars, pubVars
<1> QED BY <1>2, <1>3, <1>4, <1>5, <1>6, <1>7, <1>8 DEF Next, CutsOff

LEMMA UndisturbedInvariant == Spec => []UndisturbedInv
BY UndisturbedInit, UndisturbedStep, SweepInvariant, PTL DEF Spec

(***************************************************************************)
(* No edition of an item that was not disturbed is posted to a target      *)
(* twice, for any number of items, instances, requests, edits and crashes. *)
(***************************************************************************)
THEOREM PostedAtMostOnce == Spec => []PostedOnce
<1>1. UndisturbedInv => PostedOnce
  BY DEF UndisturbedInv, Orderly, NoneAhead, PostedOnce
<1> QED BY <1>1, UndisturbedInvariant, PTL
-----------------------------------------------------------------------------
(***************************************************************************)
(* What makes an item PUBLISHED.                                           *)
(***************************************************************************)

\* Only the last write ends a call that is about to post.
LEMMA FinishIsLast ==
    ASSUME TypeOK, [Next]_vars, NEW p \in Publisher, NEW c \in Content, FinishesWith(p, c)
    PROVE  PublishFinish(p)
<1>1. /\ InFlight(p) /\ pub[p].pc = "post" /\ ~InFlight(p)' /\ crashes' = crashes
      /\ pub[p] # Idle
  BY DEF FinishesWith, Publishes, Idle
<1>2. pub'[p] # pub[p]
  BY <1>1 DEF InFlight
<1>3. ASSUME NEW q \in Publisher, NEW b \in Content, PublishRead(q, b)
      PROVE  FALSE
  BY <1>1, <1>2, <1>3, ReadIs
<1>4. ASSUME NEW q \in Publisher, PublishStep(q)
      PROVE  PublishFinish(p)
  <2>1. q = p
    BY <1>2, <1>4, PublishKeepsItem
  <2>2. ASSUME NEW t \in Target, NEW outcome \in MetaOutcome, PublishPost(p, t, outcome)
        PROVE  FALSE
    <3>1. AfterPost(p, t, outcome, pub[p].item)
      BY <2>2, PostIs
    <3> QED BY <1>1, <3>1 DEF AfterPost, InFlight
  <2> QED BY <1>1, <1>4, <2>1, <2>2 DEF PublishStep, PublishCheck, PublishSave
<1>5. ASSUME NEW i \in Instance, SweepStep(i)
      PROVE  PublishFinish(p)
  <2>1. i \in Publisher
    BY DEF Publisher
  <2>2. ~Attends(i)
    BY <1>1, <1>2 DEF Attends
  <2> QED BY <1>3, <1>4, <1>5, <2>1, <2>2, SweepIs
<1>6. CASE (ItemsNext /\ UNCHANGED pubVars) \/ EditStep \/ UNCHANGED vars
  BY <1>2, <1>6 DEF pubVars, vars, EditStep
<1>7. ASSUME NEW q \in Publisher, CutsOff(q)
      PROVE  FALSE
  BY <1>1, <1>7, CutOffIs
<1> QED BY <1>3, <1>4, <1>5, <1>6, <1>7 DEF Next, CutsOff, PublishRequest, Publisher

LEMMA FinishIsWhole ==
    ASSUME TypeOK, NEW p \in Publisher, PublishFinish(p), NEW c, c = pub[p].item
    PROVE  /\ AfterSave(p, c) /\ content'[c].status = "PUBLISHED"
           /\ pub[p].targets \subseteq Succeeded(pub[p].results)
           /\ pub[p].pc = "post"
<1>1. pub[p].pc = "post" /\ Remaining(pub[p]) = {} /\ pub[p] \in PublishCall
  BY CallIsCall DEF PublishFinish
<1>2. pub[p].targets \subseteq Succeeded(pub[p].results)
  BY <1>1 DEF Remaining, Succeeded, PublishCall
<1>3. AfterSave(p, c) /\ content'[c].status = IF pub[p].pc = "post" THEN "PUBLISHED"
                                                            ELSE content[c].status
  BY SaveIs, Z3
<1> QED BY <1>1, <1>2, <1>3

(***************************************************************************)
(* When publish marks an undisturbed item PUBLISHED, every target that the *)
(* row names was posted to in the edition the row holds.                   *)
(***************************************************************************)
THEOREM PublishedIsPosted == Spec => PublishedEverywhere
<1>1. ASSUME SweepInv, UndisturbedInv, [Next]_vars,
             NEW p \in Publisher, NEW c \in Content \ disturbed, FinishesWith(p, c)
      PROVE  /\ content'[c].status = "PUBLISHED" /\ content'[c].targets # {}
             /\ \A t \in content'[c].targets : posts[c][t][content'[c].edition] > 0
  <2>1. TypeOK /\ PublishFinish(p) /\ Publishes(p, c) /\ c = pub[p].item
    BY <1>1, FinishIsLast DEF SweepInv, FinishesWith, Publishes
  <2>2. /\ AfterSave(p, c) /\ content'[c].status = "PUBLISHED"
        /\ pub[p].targets \subseteq Succeeded(pub[p].results)
        /\ pub[p].pc = "post"
    BY <2>1, FinishIsWhole, Z3
  <2>3. /\ pub[p].targets # {}
        /\ \A t \in Target : posts[c][t][content[c].edition] =
                                IF t \in Succeeded(pub[p].results) THEN 1 ELSE 0
    BY <1>1, <2>1 DEF UndisturbedInv, Orderly, CopyAgrees
  <2> QED BY <2>2, <2>3 DEF AfterSave, Succeeded
<1>2. SweepInv /\ UndisturbedInv /\ [Next]_vars =>
        [\A p \in Publisher, c \in Content \ disturbed :
            FinishesWith(p, c) =>
               /\ content'[c].status = "PUBLISHED"
               /\ content'[c].targets # {}
               /\ \A t \in content'[c].targets :
                     posts[c][t][content'[c].edition] > 0]_vars
  BY <1>1
<1> QED BY <1>2, SweepInvariant, UndisturbedInvariant, PTL DEF Spec, PublishedEverywhere
-----------------------------------------------------------------------------
(***************************************************************************)
(* What a result that says SUCCEEDED is worth.  Whoever claims a post, the *)
(* row, a call or an edit, had the claim from another or made the post;    *)
(* and nothing that was posted is undone.                                  *)
(***************************************************************************)
WasPosted(c, t) == \E e \in 0 .. MaxEdition : posts[c][t][e] > 0

CallSays(p, c, t) == Publishes(p, c) /\ pub[p].results[t] = "SUCCEEDED"

EditSays(r, c, t) ==
    edit[r] # Idle /\ edit[r].item = c /\ edit[r].results[t] = "SUCCEEDED"

Claimed(c, t) ==
    \/ content[c].results[t] = "SUCCEEDED"
    \/ \E p \in Publisher : CallSays(p, c, t)
    \/ \E r \in Editor : EditSays(r, c, t)

ClaimedInv == \A c \in Content, t \in Target : Claimed(c, t) => WasPosted(c, t)

\* A post adds to Meta what it adds to the call.
LEMMA PostClaims ==
    ASSUME TypeOK, NEW p \in Publisher, NEW u \in Target, NEW outcome \in MetaOutcome,
           PublishPost(p, u, outcome), NEW c \in Content, NEW t \in Target
    PROVE  /\ WasPosted(c, t) => WasPosted(c, t)'
           /\ Claimed(c, t)' => Claimed(c, t) \/ WasPosted(c, t)'
<1>1. PICK k : k = pub[p].item
  OBVIOUS
<1>2. AfterPost(p, u, outcome, k)
  BY <1>1, PostIs, Z3
<1>3. /\ posts \in [Content -> [Target -> [0 .. MaxEdition -> 0 .. 2]]]
      /\ k \in Content /\ pub[p].edition \in 0 .. MaxEdition
  BY <1>2 DEF TypeOK, AfterPost, PublishCall
<1>4. /\ k # c \/ outcome = "rejected" => posts'[c] = posts[c]
      /\ k = c /\ outcome # "rejected" =>
            posts'[c] = [posts[c] EXCEPT ![u][pub[p].edition] = UpToTwo(@)]
  BY <1>2 DEF AfterPost
<1>5. ASSUME posts'[c] = posts[c], WasPosted(c, t) PROVE WasPosted(c, t)'
  BY <1>5 DEF WasPosted
<1>6. ASSUME k = c, outcome # "rejected"
      PROVE  /\ WasPosted(c, t) => WasPosted(c, t)'
             /\ WasPosted(c, u)'
  <2>1. posts[c] \in [Target -> [0 .. MaxEdition -> 0 .. 2]]
    BY <1>3
  <2> DEFINE new == UpToTwo(posts[c][u][pub[p].edition])
  <2>2. posts[c][u][pub[p].edition] \in 0 .. 2
    BY <1>3, <2>1
  <2>3. new > 0
    BY <2>2 DEF UpToTwo
  <2>4. posts'[c] = [posts[c] EXCEPT ![u][pub[p].edition] = new]
    BY <1>4, <1>6
  <2> HIDE DEF new
  <2>5. posts'[c][u] = [posts[c][u] EXCEPT ![pub[p].edition] = new]
        /\ (t # u => posts'[c][t] = posts[c][t])
    BY <2>1, <2>4
  <2>6. posts[c][u] \in [0 .. MaxEdition -> 0 .. 2]
    BY <2>1
  <2>7. /\ posts'[c][u][pub[p].edition] > 0
        /\ \A e \in 0 .. MaxEdition : e # pub[p].edition => posts'[c][u][e] = posts[c][u][e]
    BY <1>3, <2>3, <2>5, <2>6
  <2>8. WasPosted(c, u)'
    BY <1>3, <2>7 DEF WasPosted
  <2>9. CASE t = u
    BY <2>8, <2>9
  <2>10. CASE t # u
    BY <2>5, <2>8, <2>10 DEF WasPosted
  <2> QED BY <2>8, <2>9, <2>10
<1>7. WasPosted(c, t) => WasPosted(c, t)'
  BY <1>4, <1>5, <1>6
<1>8. ASSUME Claimed(c, t)', ~Claimed(c, t)
      PROVE  WasPosted(c, t)'
  <2>1. UNCHANGED <<content, edit>>
    BY DEF PublishPost, itemVars
  <2>2. PICK q \in Publisher : CallSays(q, c, t)'
    BY <1>8, <2>1 DEF Claimed, EditSays
  <2>3. q = p /\ k = c
    BY <1>2, <1>8, <2>2 DEF AfterPost, Claimed, CallSays, Publishes, InFlight
  <2>4. t \notin Succeeded(pub[p].results) /\ t \in Succeeded(pub'[p].results)
    BY <1>2, <1>8, <2>2, <2>3 DEF AfterPost, Claimed, CallSays, Succeeded
  <2>5. outcome = "accepted" /\ t = u
    BY <1>2, <2>4 DEF AfterPost
  <2> QED BY <1>6, <2>3, <2>5
<1> QED BY <1>7, <1>8

\* Nothing else than a post changes what was posted, or claims more.
LEMMA OthersClaim ==
    ASSUME NEW c \in Content, NEW t \in Target, UNCHANGED posts,
           content'[c].results[t] = "SUCCEEDED" => Claimed(c, t),
           \A p \in Publisher : CallSays(p, c, t)' => Claimed(c, t),
           \A r \in Editor : EditSays(r, c, t)' => Claimed(c, t)
    PROVE  /\ WasPosted(c, t) => WasPosted(c, t)'
           /\ Claimed(c, t)' => Claimed(c, t) \/ WasPosted(c, t)'
BY DEF Claimed, WasPosted

LEMMA EditClaims ==
    ASSUME TypeOK, EditStep, NEW c \in Content, NEW t \in Target
    PROVE  /\ WasPosted(c, t) => WasPosted(c, t)'
           /\ Claimed(c, t)' => Claimed(c, t) \/ WasPosted(c, t)'
<1>1. /\ UNCHANGED <<posts, pub>> /\ ItemsTypeOK
      /\ edit \in [Editor -> EditCall \cup {Idle}]
  BY DEF EditStep, TypeOK, ItemsTypeOK
<1>2. \A p \in Publisher : CallSays(p, c, t)' => Claimed(c, t)
  BY <1>1 DEF Claimed, CallSays, Publishes, InFlight
<1>3. ASSUME NEW e \in Editor, NEW b \in Content, NEW input \in EditInput,
             EditRead(e, b, input)
      PROVE  /\ content' = content
             /\ \A r \in Editor : EditSays(r, c, t)' => Claimed(c, t)
  <2> DEFINE s == EditedTargets(input, content[b])
             call == [pc |-> "write", item |-> b, input |-> input, targets |-> s,
                      results |-> content[b].results]
  <2>1. edit' = [edit EXCEPT ![e] = call] /\ content' = content
    BY <1>3 DEF EditRead
  <2>2. call.item = b /\ call.results = content[b].results
    OBVIOUS
  <2> HIDE DEF call
  <2>3. edit'[e] = call /\ \A r \in Editor \ {e} : edit'[r] = edit[r]
    BY <1>1, <2>1
  <2> QED BY <2>1, <2>2, <2>3 DEF Claimed, EditSays
<1>4. ASSUME NEW e \in Editor, EditWrite(e)
      PROVE  /\ content'[c].results[t] = "SUCCEEDED" => Claimed(c, t)
             /\ \A r \in Editor : EditSays(r, c, t)' => Claimed(c, t)
  <2>1. edit[e] # Idle /\ edit' = [edit EXCEPT ![e] = Idle]
    BY <1>4 DEF EditWrite, Idle
  <2>2. \A r \in Editor : edit'[r] = Idle \/ edit'[r] = edit[r]
    BY <1>1, <2>1
  <2>3. \/ content'[c] = content[c]
        \/ content'[c].results = NoResults
        \/ edit[e].item = c /\ content'[c].results = edit[e].results
    BY <1>1, <1>4, EditedRowIs
  <2>4. NoResults[t] # "SUCCEEDED"
    BY DEF NoResults
  <2> QED BY <2>1, <2>2, <2>3, <2>4 DEF Claimed, EditSays
<1>5. /\ content'[c].results[t] = "SUCCEEDED" => Claimed(c, t)
      /\ \A r \in Editor : EditSays(r, c, t)' => Claimed(c, t)
  <2>1. content' = content => (content'[c].results[t] = "SUCCEEDED" => Claimed(c, t))
    BY DEF Claimed, EditSays
  <2> QED BY <1>3, <1>4, <2>1 DEF EditStep, EditNext
<1> QED BY <1>1, <1>2, <1>5, OthersClaim

LEMMA PublishClaims ==
    ASSUME TypeOK, NEW p \in Publisher, PublishStep(p), NEW c \in Content, NEW t \in Target
    PROVE  /\ WasPosted(c, t) => WasPosted(c, t)'
           /\ Claimed(c, t)' => Claimed(c, t) \/ WasPosted(c, t)'
<1>1. CASE PublishCheck(p)
  <2>1. /\ UNCHANGED <<content, posts, edit>>
        /\ \A q \in Publisher \ {p} : pub'[q] = pub[q]
        /\ Publishes(p, pub[p].item)
        /\ InFlight(p)' => pub'[p].item = pub[p].item /\ pub'[p].results = pub[p].results
    BY <1>1, CheckIs
  <2>2. \A q \in Publisher : CallSays(q, c, t)' => Claimed(c, t)
    BY <2>1 DEF Claimed, CallSays, Publishes, InFlight
  <2>3. /\ content'[c].results[t] = "SUCCEEDED" => Claimed(c, t)
        /\ \A r \in Editor : EditSays(r, c, t)' => Claimed(c, t)
    BY <2>1 DEF Claimed, EditSays
  <2> QED BY <2>1, <2>2, <2>3, OthersClaim
<1>2. ASSUME NEW u \in Target, NEW outcome \in MetaOutcome, PublishPost(p, u, outcome)
      PROVE  /\ WasPosted(c, t) => WasPosted(c, t)'
             /\ Claimed(c, t)' => Claimed(c, t) \/ WasPosted(c, t)'
  BY <1>2, PostClaims
<1>3. CASE PublishSave(p) \/ PublishFinish(p)
  <2>1. PICK k : k = pub[p].item
    OBVIOUS
  <2>2. /\ AfterSave(p, k)
        /\ IF pub[p].pc = "saveOk"
           THEN /\ pub'[p].pc = "post" /\ pub'[p].item = k
                /\ pub'[p].edition = content[k].edition
                /\ pub'[p].targets = pub[p].targets
                /\ pub'[p].results = pub[p].results
           ELSE ~Publishes(p, k)' /\ ~InFlight(p)'
    BY <1>3, <2>1, SaveIs, Z3
  <2>3. content'[c].results[t] = "SUCCEEDED" => Claimed(c, t)
    BY <2>2 DEF AfterSave, Claimed, CallSays, EditSays
  <2>4. \A q \in Publisher : CallSays(q, c, t)' => Claimed(c, t)
    BY <2>2 DEF AfterSave, Claimed, CallSays, Publishes, InFlight
  <2>5. \A r \in Editor : EditSays(r, c, t)' => Claimed(c, t)
    BY <2>2 DEF AfterSave, Claimed, CallSays, EditSays
  <2> QED BY <2>2, <2>3, <2>4, <2>5, OthersClaim DEF AfterSave
<1> QED BY <1>1, <1>2, <1>3 DEF PublishStep

LEMMA ClaimStep ==
    ASSUME TypeOK, [Next]_vars, NEW c \in Content, NEW t \in Target
    PROVE  /\ WasPosted(c, t) => WasPosted(c, t)'
           /\ Claimed(c, t)' => Claimed(c, t) \/ WasPosted(c, t)'
<1> DEFINE Goal == /\ WasPosted(c, t) => WasPosted(c, t)'
                   /\ Claimed(c, t)' => Claimed(c, t) \/ WasPosted(c, t)'
<1>1. ASSUME UNCHANGED <<posts, edit>>, content'[c].results = content[c].results,
             \A q \in Publisher : pub'[q] = pub[q] \/ ~InFlight(q)'
                   \/ (pub'[q].item = c => pub'[q].results = content[c].results)
      PROVE  Goal
  <2>1. content'[c].results[t] = "SUCCEEDED" => Claimed(c, t)
    BY <1>1 DEF Claimed, EditSays
  <2>2. \A p \in Publisher : CallSays(p, c, t)' => Claimed(c, t)
    BY <1>1 DEF Claimed, CallSays, Publishes, InFlight
  <2>3. \A r \in Editor : EditSays(r, c, t)' => Claimed(c, t)
    BY <1>1 DEF Claimed, EditSays
  <2> QED BY <1>1, <2>1, <2>2, <2>3, OthersClaim
<1>2. CASE ItemsNext /\ UNCHANGED pubVars
  <2>1. UNCHANGED <<posts, pub>>
    BY <1>2 DEF pubVars
  <2>2. UNCHANGED edit
    BY <1>2 DEF ItemsNext, DecideNext, Create, Schedule, CreateApproval, TimePasses,
                DecideRead, DecideWrite, Disconnect, Reconnect
  <2>3. content'[c].results = content[c].results
    BY <1>2, ItemsKeepResults DEF TypeOK
  <2> QED BY <1>1, <2>1, <2>2, <2>3
<1>3. CASE EditStep
  BY <1>3, EditClaims
<1>4. ASSUME NEW p \in Publisher, PublishStep(p)
      PROVE  Goal
  BY <1>4, PublishClaims
<1>5. ASSUME NEW p \in Publisher, NEW b \in Content, PublishRead(p, b),
             UNCHANGED <<itemVars, posts>>
      PROVE  Goal
  <2>1. /\ \A q \in Publisher \ {p} : pub'[q] = pub[q]
        /\ InFlight(p)' => pub'[p].item = b /\ pub'[p].results = content[b].results
    BY <1>5, ReadIs
  <2>2. \A q \in Publisher : pub'[q] = pub[q] \/ ~InFlight(q)'
                   \/ (pub'[q].item = c => pub'[q].results = content[c].results)
    BY <2>1
  <2>3. UNCHANGED <<posts, edit, content>>
    BY <1>5 DEF itemVars
  <2> QED BY <1>1, <2>2, <2>3
<1>6. ASSUME NEW i \in Instance, SweepStep(i)
      PROVE  Goal
  <2>1. i \in Publisher
    BY DEF Publisher
  <2>2. Attends(i) => Goal
    BY <1>1 DEF Attends
  <2> HIDE DEF Goal
  <2> QED BY <1>4, <1>5, <1>6, <2>1, <2>2, SweepIs
<1>7. ASSUME NEW p \in Publisher, CutsOff(p)
      PROVE  Goal
  <2>1. /\ \A q \in Publisher : pub'[q] = pub[q] \/ ~InFlight(q)'
        /\ UNCHANGED <<posts, content, edit>>
    BY <1>7, CutOffIs
  <2> QED BY <1>1, <2>1
<1>8. CASE UNCHANGED vars
  BY <1>1, <1>8 DEF vars, itemVars, pubVars
<1>9. ASSUME NEW q \in Caller, PublishStep(q)
      PROVE  Goal
  BY <1>4, <1>9 DEF Publisher
<1>10. ASSUME NEW q \in Caller, NEW b \in Content, PublishRequest(q, b)
       PROVE  Goal
  BY <1>5, <1>10 DEF PublishRequest, Publisher
<1> QED BY <1>2, <1>3, <1>6, <1>7, <1>8, <1>9, <1>10 DEF Next, CutsOff

LEMMA ClaimedInvariant == Spec => []ClaimedInv
<1>1. Init => ClaimedInv
  <2> SUFFICES ASSUME Init, NEW c \in Content, NEW t \in Target PROVE ~Claimed(c, t)
    BY DEF ClaimedInv
  <2>1. content[c].results[t] = "NONE"
    BY DEF Init, ItemsInit, NoResults
  <2>2. \A p \in Publisher : ~Publishes(p, c)
    BY DEF Init, Publishes, InFlight, Idle
  <2>3. \A r \in Editor : edit[r] = Idle
    BY DEF Init, ItemsInit
  <2> QED BY <2>1, <2>2, <2>3 DEF Claimed, CallSays, EditSays
<1>2. TypeOK /\ ClaimedInv /\ [Next]_vars => ClaimedInv'
  <2> SUFFICES ASSUME TypeOK, ClaimedInv, [Next]_vars, NEW c \in Content, NEW t \in Target
               PROVE  Claimed(c, t)' => WasPosted(c, t)'
    BY DEF ClaimedInv
  <2> QED BY ClaimStep DEF ClaimedInv
<1> QED BY <1>1, <1>2, TypeCorrect, PTL DEF Spec

\* In the present edition too, if the item was not disturbed.
LEMMA RowIsPosted ==
    ASSUME UndisturbedInv, NEW c \in Content \ disturbed, NEW t \in Target,
           content[c].results[t] = "SUCCEEDED"
    PROVE  posts[c][t][content[c].edition] > 0
<1>1. t \in Succeeded(content[c].results) /\ Orderly(c)
  BY DEF Succeeded, UndisturbedInv
<1>2. CASE \E p \in Publisher : Publishes(p, c) /\ pub[p].pc = "saveOk"
  <2>1. PICK p \in Publisher : Publishes(p, c) /\ pub[p].pc = "saveOk"
    BY <1>2
  <2>2. t \in Succeeded(pub[p].results)
    BY <1>1, <2>1 DEF Orderly, CopyAgrees
  <2>3. posts[c][t][content[c].edition] = 1
    BY <1>1, <2>1, <2>2 DEF Orderly, CopyAgrees
  <2> QED BY <2>3
<1>3. CASE \A p \in Publisher : Publishes(p, c) => pub[p].pc # "saveOk"
  <2>1. posts[c][t][content[c].edition] = 1
    BY <1>1, <1>3 DEF Orderly, RowAgrees
  <2> QED BY <2>1
<1> QED BY <1>2, <1>3

(***************************************************************************)
(* A result that says SUCCEEDED, in the row or in any copy of it that may  *)
(* yet be written back, is that of a real post: of the present edition, if *)
(* the row of an undisturbed item says it.                                 *)
(***************************************************************************)
THEOREM ResultsAreEarned == Spec => []SucceededWasPosted
<1>1. ClaimedInv /\ UndisturbedInv => SucceededWasPosted
  <2> SUFFICES ASSUME ClaimedInv, UndisturbedInv, NEW c \in Content, NEW t \in Target
               PROVE  /\ content[c].results[t] = "SUCCEEDED" =>
                            /\ WasPosted(c, t)
                            /\ c \notin disturbed => posts[c][t][content[c].edition] > 0
                      /\ \A p \in Publisher : CallSays(p, c, t) => WasPosted(c, t)
                      /\ \A r \in Editor : EditSays(r, c, t) => WasPosted(c, t)
    BY DEF SucceededWasPosted, WasPosted, CallSays, EditSays
  <2> QED BY RowIsPosted DEF ClaimedInv, Claimed
<1> QED BY <1>1, ClaimedInvariant, UndisturbedInvariant, PTL
-----------------------------------------------------------------------------
(***************************************************************************)
(* The promise.  View(c) is the row of PublishOnce that the item c stands  *)
(* for; a step changes that of one item at most.                           *)
(***************************************************************************)
IsPublished(c) == content[c].status = "PUBLISHED" /\ c \notin byHand

View(c) == [posts |-> posts[c], edition |-> content[c].edition,
            targets |-> content[c].targets, recorded |-> Succeeded(content[c].results),
            published |-> IsPublished(c)]

Allowed(row, next) ==
    \/ Promise!Posted(row, next) \/ Promise!Recorded(row, next) \/ Promise!Published(row, next)
    \/ Promise!Edited(row, next) \/ Promise!Renewed(row, next)

\* A step on c alone, as the promise has it.
Kept(c) ==
    /\ \A b \in Content \ {c} : View(b)' = View(b)
    /\ \/ c \in disturbed' /\ disturbed' = disturbed \cup {c}
       \/ c \notin disturbed /\ UNCHANGED disturbed /\ Allowed(View(c), View(c)')

LEMMA KeptIsNext ==
    ASSUME NEW c \in Content, Kept(c)
    PROVE  Promise!Next
<1> DEFINE now == [b \in Content |-> View(b)]
           next == [b \in Content |-> View(b)']
<1>1. \A b \in Content : now[b] = View(b) /\ next[b] = View(b)'
  OBVIOUS
<1> HIDE DEF now, next
<1>2. /\ \A b \in Content \ {c} : next[b] = now[b]
      /\ \/ c \in disturbed' /\ disturbed' = disturbed \cup {c}
         \/ c \notin disturbed /\ UNCHANGED disturbed /\ Allowed(now[c], next[c])
  BY <1>1 DEF Kept
<1> QED BY <1>2 DEF now, next, Promise!Next, View, IsPublished, Succeeded, Allowed

ViewRow == [posts : [Target -> [0 .. MaxEdition -> 0 .. 2]], edition : 0 .. MaxEdition,
            targets : SUBSET Target, recorded : SUBSET Target, published : BOOLEAN]

LEMMA ViewIsRow ==
    ASSUME TypeOK, NEW c \in Content
    PROVE  View(c) \in ViewRow
<1>1. /\ posts[c] \in [Target -> [0 .. MaxEdition -> 0 .. 2]]
      /\ content[c].edition \in 0 .. MaxEdition /\ content[c].targets \in SUBSET Target
  BY DEF TypeOK, ItemsTypeOK, Row
<1>2. Succeeded(content[c].results) \in SUBSET Target /\ IsPublished(c) \in BOOLEAN
  BY DEF Succeeded, IsPublished
<1> QED BY <1>1, <1>2 DEF View, ViewRow

LEMMA NextIsRow ==
    ASSUME TypeOK', NEW c \in Content
    PROVE  View(c)' \in ViewRow
<1>1. /\ posts'[c] \in [Target -> [0 .. MaxEdition -> 0 .. 2]]
      /\ content'[c].edition \in 0 .. MaxEdition /\ content'[c].targets \in SUBSET Target
  BY DEF TypeOK, ItemsTypeOK, Row
<1>2. Succeeded(content[c].results)' \in SUBSET Target /\ IsPublished(c)' \in BOOLEAN
  BY DEF Succeeded, IsPublished
<1> QED BY <1>1, <1>2 DEF View, ViewRow

\* Two such rows are one when their fields are.
LEMMA SameRow ==
    ASSUME NEW r \in ViewRow, NEW n \in ViewRow,
           r.posts = n.posts, r.edition = n.edition, r.targets = n.targets,
           r.recorded = n.recorded, r.published = n.published
    PROVE  r = n
BY DEF ViewRow

\* The rows that the promise allows, by their fields.
LEMMA EditedMember ==
    ASSUME NEW r \in ViewRow, NEW n \in ViewRow, n.posts = r.posts, n.edition = r.edition,
           n.recorded = r.recorded, n.published \in {r.published, FALSE}
    PROVE  Promise!Edited(r, n)
<1>0. PICK s \in SUBSET Target, q \in {r.published, FALSE} :
         s = n.targets /\ q = n.published
  BY DEF ViewRow
<1> DEFINE m == [r EXCEPT !.targets = s, !.published = q]
<1>1. /\ m \in ViewRow /\ m.posts = r.posts /\ m.edition = r.edition
      /\ m.recorded = r.recorded /\ m.targets = s /\ m.published = q
  BY <1>0 DEF ViewRow
<1>2. Promise!Edited(r, m)
  BY DEF Promise!Edited
<1> HIDE DEF m
<1> QED BY <1>0, <1>1, <1>2, SameRow

LEMMA RenewedMember ==
    ASSUME NEW r \in ViewRow, NEW n \in ViewRow, n.posts = r.posts,
           n.edition = r.edition + 1, n.recorded = {}, n.published \in {r.published, FALSE}
    PROVE  Promise!Renewed(r, n)
<1> DEFINE e == [r EXCEPT !.edition = @ + 1, !.recorded = {}]
<1>1. r.edition + 1 \in 0 .. MaxEdition
  BY DEF ViewRow
<1>2. /\ e \in ViewRow /\ e.posts = r.posts /\ e.edition = r.edition + 1
      /\ e.recorded = {} /\ e.published = r.published
  BY <1>1 DEF ViewRow
<1> HIDE DEF e
<1>3. Promise!Edited(e, n)
  BY <1>2, EditedMember
<1> QED BY <1>3 DEF Promise!Renewed, e

LEMMA PostedMember ==
    ASSUME NEW r \in ViewRow, NEW n \in ViewRow, NEW t \in Target, r.posts[t][r.edition] = 0,
           n.posts = [r.posts EXCEPT ![t][r.edition] = 1], n.edition = r.edition,
           n.targets = r.targets, n.recorded = r.recorded, n.published = r.published
    PROVE  Promise!Posted(r, n)
<1> DEFINE m == [r EXCEPT !.posts[t][r.edition] = 1]
<1>1. n.posts \in [Target -> [0 .. MaxEdition -> 0 .. 2]]
  BY DEF ViewRow
<1>2. /\ m \in ViewRow /\ m.posts = n.posts /\ m.edition = r.edition
      /\ m.recorded = r.recorded /\ m.targets = r.targets /\ m.published = r.published
  BY <1>1 DEF ViewRow
<1>3. Promise!Posted(r, m)
  BY DEF Promise!Posted
<1> HIDE DEF m
<1> QED BY <1>2, <1>3, SameRow

LEMMA RecordedMember ==
    ASSUME NEW r \in ViewRow, NEW n \in ViewRow, NEW t \in Target, r.posts[t][r.edition] = 1,
           n.posts = r.posts, n.edition = r.edition, n.recorded = r.recorded \cup {t},
           n.published = r.published
    PROVE  Promise!Recorded(r, n)
<1>1. PICK s \in SUBSET Target : s = n.targets
  BY DEF ViewRow
<1> DEFINE m == [r EXCEPT !.recorded = @ \cup {t}, !.targets = s]
<1>2. /\ m \in ViewRow /\ m.posts = r.posts /\ m.edition = r.edition
      /\ m.recorded = n.recorded /\ m.targets = n.targets /\ m.published = r.published
  BY <1>1 DEF ViewRow
<1>3. Promise!Recorded(r, m)
  BY DEF Promise!Recorded
<1> HIDE DEF m
<1> QED BY <1>2, <1>3, SameRow

LEMMA PublishedMember ==
    ASSUME NEW r \in ViewRow, NEW n \in ViewRow, n.posts = r.posts, n.edition = r.edition,
           n.recorded = r.recorded, n.published = TRUE,
           n.targets \subseteq r.recorded, n.targets # {}
    PROVE  Promise!Published(r, n)
<1>0. PICK s \in SUBSET r.recorded : s = n.targets /\ s # {}
  OBVIOUS
<1> DEFINE m == [r EXCEPT !.published = TRUE, !.targets = s]
<1>1. /\ m \in ViewRow /\ m.posts = r.posts /\ m.edition = r.edition
      /\ m.recorded = r.recorded /\ m.targets = n.targets /\ m.published = TRUE
  BY <1>0 DEF ViewRow
<1>2. Promise!Published(r, m)
  BY <1>0 DEF Promise!Published
<1> HIDE DEF m
<1> QED BY <1>1, <1>2, SameRow

\* The fields of a view.
LEMMA ViewFields ==
    ASSUME NEW c
    PROVE  /\ View(c).posts = posts[c] /\ View(c).edition = content[c].edition
           /\ View(c).targets = content[c].targets
           /\ View(c).recorded = Succeeded(content[c].results)
           /\ View(c).published = IsPublished(c)
BY DEF View

\* A step that touches neither the row nor the posts of an item.
Untouched(b) == /\ posts'[b] = posts[b]
                /\ content'[b].results = content[b].results
                /\ content'[b].edition = content[b].edition
                /\ content'[b].targets = content[b].targets
                /\ content'[b].status = content[b].status
                /\ b \in byHand' <=> b \in byHand

LEMMA UntouchedView ==
    ASSUME NEW b, Untouched(b)
    PROVE  View(b)' = View(b)
<1>1. IsPublished(b)' = IsPublished(b)
  BY DEF Untouched, IsPublished
<1>2. Succeeded(content[b].results)' = Succeeded(content[b].results)
  BY DEF Untouched, Succeeded
<1> QED BY <1>1, <1>2 DEF Untouched, View

LEMMA AllUntouched ==
    ASSUME \A b \in Content : Untouched(b), UNCHANGED disturbed
    PROVE  UNCHANGED Promise!promiseVars
<1>1. \A b \in Content : View(b)' = View(b)
  BY UntouchedView
<1> DEFINE now == [b \in Content |-> View(b)]
           next == [b \in Content |-> View(b)']
<1>2. next = now
  BY <1>1
<1> QED BY <1>2 DEF Promise!promiseVars, View, IsPublished, Succeeded

\* A step that touches one item, or disturbs it.
LEMMA TouchesOne ==
    ASSUME NEW c \in Content, \A b \in Content \ {c} : Untouched(b),
           \/ c \in disturbed' /\ disturbed' = disturbed \cup {c}
           \/ c \notin disturbed /\ UNCHANGED disturbed /\ Allowed(View(c), View(c)')
    PROVE  Promise!Next
BY UntouchedView, KeptIsNext DEF Kept

LEMMA NextFields ==
    ASSUME NEW c
    PROVE  /\ View(c)'.posts = posts'[c] /\ View(c)'.edition = content'[c].edition
           /\ View(c)'.targets = content'[c].targets
           /\ View(c)'.recorded = Succeeded(content'[c].results)
           /\ View(c)'.published = IsPublished(c)'
BY DEF View, Succeeded

\* What a step makes of the view of an item, by the fields.
Seen(c, r, n) ==
    /\ r = View(c) /\ n = View(c)'
    /\ r.posts = posts[c] /\ r.edition = content[c].edition
    /\ r.targets = content[c].targets /\ r.recorded = Succeeded(content[c].results)
    /\ r.published = IsPublished(c)
    /\ n.posts = posts'[c] /\ n.edition = content'[c].edition
    /\ n.targets = content'[c].targets /\ n.recorded = Succeeded(content'[c].results)
    /\ n.published = IsPublished(c)'

LEMMA ViewStep ==
    ASSUME TypeOK, TypeOK', NEW c \in Content
    PROVE  \E r, n \in ViewRow : Seen(c, r, n)
<1>1. View(c) \in ViewRow /\ View(c)' \in ViewRow
  BY ViewIsRow, NextIsRow
<1>2. Seen(c, View(c), View(c)')
  BY ViewFields, NextFields DEF Seen
<1> QED BY <1>1, <1>2

\* A step that edits, schedules or decides the item.
LEMMA EditedView ==
    ASSUME TypeOK, TypeOK', NEW c \in Content, posts'[c] = posts[c],
           content'[c].edition = content[c].edition,
           Succeeded(content'[c].results) = Succeeded(content[c].results),
           IsPublished(c)' => IsPublished(c)
    PROVE  Allowed(View(c), View(c)')
<1>1. PICK r, n \in ViewRow : Seen(c, r, n)
  BY ViewStep
<1>2. IsPublished(c)' \in {IsPublished(c), FALSE}
  BY DEF IsPublished
<1>3. n.published \in {r.published, FALSE}
  BY <1>1, <1>2 DEF Seen
<1>4. Promise!Edited(r, n)
  BY <1>1, <1>3, EditedMember DEF Seen
<1> QED BY <1>1, <1>4 DEF Allowed, Seen
-----------------------------------------------------------------------------
(***************************************************************************)
(* Every step, mapped.                                                     *)
(***************************************************************************)

\* The requests of the content module edit one item, as the promise sees it.
LEMMA ItemsMap ==
    ASSUME TypeOK, TypeOK', ItemsNext, UNCHANGED pubVars
    PROVE  [Promise!Next]_Promise!promiseVars
<1>1. content \in [Content -> Row] /\ UNCHANGED <<posts, disturbed>>
  BY DEF TypeOK, ItemsTypeOK, pubVars
<1>2. ASSUME NEW c \in Content, NEW status \in CreateStatus, NEW when \in When,
             NEW targets \in SUBSET Target, Create(c, status, when, targets)
      PROVE  /\ \A b \in Content \ {c} : Untouched(b)
             /\ IsPublished(c)' => IsPublished(c)
  <2>1. \A b \in Content \ {c} : content'[b] = content[b] /\ (b \in byHand' <=> b \in byHand)
    BY <1>1, <1>2 DEF Create
  <2>2. content'[c].status = status /\ (status = "IDEA" \/ c \in byHand')
    BY <1>1, <1>2 DEF Create, Row
  <2> QED BY <1>1, <2>1, <2>2 DEF Untouched, IsPublished
<1>3. ASSUME NEW c \in Content, NEW when \in When, Schedule(c, when)
      PROVE  /\ \A b \in Content \ {c} : Untouched(b)
             /\ IsPublished(c)' => IsPublished(c)
  <2>1. \A b \in Content \ {c} : content'[b] = content[b] /\ byHand' = byHand
    BY <1>1, <1>3 DEF Schedule
  <2>2. content'[c].status = "SCHEDULED"
    BY <1>1, <1>3 DEF Schedule, Scheduled, Row
  <2> QED BY <1>1, <2>1, <2>2 DEF Untouched, IsPublished
<1>4. ASSUME NEW c \in Content, CreateApproval(c) \/ TimePasses(c)
      PROVE  /\ \A b \in Content \ {c} : Untouched(b)
             /\ IsPublished(c)' => IsPublished(c)
  <2>1. \A b \in Content \ {c} : content'[b] = content[b] /\ byHand' = byHand
    BY <1>1, <1>4 DEF CreateApproval, TimePasses
  <2>2. byHand' = byHand
    BY <1>4 DEF CreateApproval, TimePasses
  <2>3. content'[c].status \in {"CLIENT_APPROVAL", content[c].status}
    BY <1>1, <1>4 DEF CreateApproval, TimePasses, Row
  <2> QED BY <1>1, <2>1, <2>2, <2>3 DEF Untouched, IsPublished
<1>5. ASSUME NEW d \in Decider, DecideWrite(d)
      PROVE  \E c \in Content : /\ \A b \in Content \ {c} : Untouched(b)
                                /\ IsPublished(c)' => IsPublished(c)
  <2>1. PICK c \in Content : c = decide[d].item
    BY <1>5, DecideIsCall DEF DecideWrite, TypeOK, ItemsTypeOK, DecideCall
  <2>2. content' = [content EXCEPT ![c].status = DecidedStatus(decide[d].decision)]
        /\ byHand' = byHand
    BY <1>5, <2>1 DEF DecideWrite
  <2>3. \A b \in Content \ {c} : content'[b] = content[b]
    BY <1>1, <2>2
  <2>4. content'[c].status # "PUBLISHED"
    BY <1>1, <2>2 DEF Row, DecidedStatus
  <2> QED BY <1>1, <2>2, <2>3, <2>4 DEF Untouched, IsPublished
<1>6. ASSUME NEW c \in Content, \A b \in Content \ {c} : Untouched(b),
             IsPublished(c)' => IsPublished(c)
      PROVE  Promise!Next
  <2>1. content'[c].results = content[c].results /\ content'[c].edition = content[c].edition
    BY ItemsKeepResults DEF TypeOK
  <2>2. Allowed(View(c), View(c)')
    BY <1>1, <1>6, <2>1, EditedView
  <2>3. c \in disturbed => c \in disturbed' /\ disturbed' = disturbed \cup {c}
    BY <1>1
  <2> QED BY <1>1, <1>6, <2>2, <2>3, TouchesOne
<1>7. CASE UNCHANGED <<content, byHand>>
  BY <1>1, <1>7, AllUntouched DEF Untouched
<1>8. ASSUME \/ \E d \in Decider, c \in Content, decision \in Decision :
                   \E k \in 1 .. Len(approvals[c]) : DecideRead(d, c, k, decision)
             \/ \E t \in Target : Disconnect(t) \/ Reconnect(t)
      PROVE  UNCHANGED <<content, byHand>>
  BY <1>8 DEF DecideRead, Disconnect, Reconnect
<1> QED BY <1>2, <1>3, <1>4, <1>5, <1>6, <1>7, <1>8 DEF ItemsNext, DecideNext

\* An edit publishes nothing: a body that sets the status sets it by hand.
LEMMA EditUnpublishes ==
    ASSUME ItemsTypeOK, NEW e \in Editor, EditWrite(e), NEW c, c = edit[e].item
    PROVE  /\ IsPublished(c)' => IsPublished(c)
           /\ \A b \in Content \ {c} : b \in byHand' <=> b \in byHand
<1>1. content \in [Content -> Row] /\ edit[e] \in EditCall /\ c \in Content
  BY EditIsCall DEF EditWrite, ItemsTypeOK, EditCall
<1> DEFINE row == EditedRow(edit[e], content[c])
           st == IF edit[e].input.status = "keep" THEN content[c].status
                                                  ELSE edit[e].input.status
           wh == IF edit[e].input.when = "keep" THEN content[c].when ELSE edit[e].input.when
           ed == IF ClearsResults(edit[e].input) THEN content[c].edition + 1
                                                 ELSE content[c].edition
           rs == EditedResults(edit[e])
<1>2. /\ content' = [content EXCEPT ![c] = row]
      /\ byHand' = IF edit[e].input.status = "keep" THEN byHand ELSE byHand \cup {c}
  BY DEF EditWrite
<1>3. row = [content[c] EXCEPT !.status = st, !.when = wh, !.targets = edit[e].targets,
                               !.results = rs, !.edition = ed]
  BY DEF EditedRow
<1> HIDE DEF row, st, wh, ed, rs
<1>4. content'[c].status = st
  BY <1>1, <1>2, <1>3 DEF Row
<1> QED BY <1>2, <1>4 DEF IsPublished, st

\* Among the edits, only the one that writes disturbs its item.
LEMMA EditDisturbs ==
    ASSUME ItemsTypeOK, EditStep, NEW e \in Editor, EditWrite(e), NEW c, c = edit[e].item
    PROVE  disturbed' = IF Disturbs(edit[e]) THEN disturbed \cup {c} ELSE disturbed
<1>1. c \in Content /\ edit[e].pc = "write" /\ edit' = [edit EXCEPT ![e] = Idle]
  BY EditIsCall DEF EditWrite, EditCall
<1>2. edit'[e] = Idle /\ \A r \in Editor \ {e} : edit'[r] = edit[r]
  BY <1>1 DEF ItemsTypeOK
<1>3. \A r \in Editor : edit[r].pc = "write" /\ edit'[r] = Idle => r = e
  BY <1>2 DEF Idle
<1> DEFINE more == {b \in Content : \E r \in Editor :
                       /\ edit[r].pc = "write" /\ edit'[r] = Idle
                       /\ edit[r].item = b /\ Disturbs(edit[r])}
<1>4. more = IF Disturbs(edit[e]) THEN {c} ELSE {}
  BY <1>1, <1>2, <1>3
<1>5. disturbed' = disturbed \cup more
  BY DEF EditStep
<1> HIDE DEF more
<1> QED BY <1>4, <1>5

LEMMA EditMap ==
    ASSUME TypeOK, TypeOK', EditStep
    PROVE  [Promise!Next]_Promise!promiseVars
<1>1. ItemsTypeOK /\ content \in [Content -> Row] /\ UNCHANGED posts
  BY DEF TypeOK, ItemsTypeOK, EditStep
<1>2. ASSUME NEW e \in Editor, NEW b \in Content, NEW input \in EditInput,
             EditRead(e, b, input)
      PROVE  UNCHANGED Promise!promiseVars
  <2> DEFINE s == EditedTargets(input, content[b])
             call == [pc |-> "write", item |-> b, input |-> input, targets |-> s,
                      results |-> content[b].results]
  <2>1. /\ edit[e] = Idle /\ edit' = [edit EXCEPT ![e] = call] /\ UNCHANGED <<content, byHand>>
    BY <1>2 DEF EditRead
  <2>2. \A r \in Editor : edit[r].pc = "write" => edit'[r] # Idle
    <3> HIDE DEF call
    <3> QED BY <1>1, <2>1 DEF ItemsTypeOK, Idle
  <2>3. disturbed' = disturbed
    BY <2>2 DEF EditStep
  <2> QED BY <1>1, <2>1, <2>3, AllUntouched DEF Untouched
<1>3. ASSUME NEW e \in Editor, EditWrite(e)
      PROVE  Promise!Next
  <2>1. PICK c \in Content : c = edit[e].item
    BY <1>1, <1>3, EditedRowIs
  <2>2. /\ \A b \in Content \ {c} : content'[b] = content[b]
        /\ IF ClearsResults(edit[e].input)
           THEN /\ content'[c].results = NoResults
                /\ content'[c].edition = content[c].edition + 1
           ELSE /\ content'[c].results = edit[e].results
                /\ content'[c].edition = content[c].edition
    BY <1>1, <1>3, <2>1, EditedRowIs
  <2>3. /\ IsPublished(c)' => IsPublished(c)
        /\ \A b \in Content \ {c} : b \in byHand' <=> b \in byHand
    BY <1>1, <1>3, <2>1, EditUnpublishes, Z3
  <2>4. disturbed' = IF Disturbs(edit[e]) THEN disturbed \cup {c} ELSE disturbed
    BY <1>1, <1>3, <2>1, EditDisturbs, Z3
  <2>5. \A b \in Content \ {c} : Untouched(b)
    BY <1>1, <2>2, <2>3 DEF Untouched
  <2>6. CASE c \in disturbed \/ Disturbs(edit[e])
    <3>1. c \in disturbed' /\ disturbed' = disturbed \cup {c}
      BY <2>4, <2>6
    <3> QED BY <2>5, <3>1, TouchesOne
  <2>7. CASE c \notin disturbed /\ ~Disturbs(edit[e])
    <3>1. CASE ~ClearsResults(edit[e].input)
      <4>1. content'[c].results = content[c].results
        BY <2>1, <2>2, <2>7, <3>1 DEF Disturbs
      <4>2. Allowed(View(c), View(c)')
        BY <1>1, <2>2, <2>3, <3>1, <4>1, EditedView
      <4> QED BY <2>4, <2>5, <2>7, <4>2, TouchesOne
    <3>2. CASE ClearsResults(edit[e].input)
      <4>1. PICK r, n \in ViewRow : Seen(c, r, n)
        BY ViewStep
      <4>2. Succeeded(content'[c].results) = {}
        BY <2>2, <3>2 DEF Succeeded, NoResults
      <4>3. IsPublished(c)' \in {IsPublished(c), FALSE}
        BY <2>3 DEF IsPublished
      <4>4. n.published \in {r.published, FALSE}
        BY <4>1, <4>3 DEF Seen
      <4>5. Promise!Renewed(r, n)
        BY <1>1, <2>2, <3>2, <4>1, <4>2, <4>4, RenewedMember DEF Seen
      <4>6. Allowed(View(c), View(c)')
        BY <4>1, <4>5 DEF Allowed, Seen
      <4> QED BY <2>4, <2>5, <2>7, <4>6, TouchesOne
    <3> QED BY <3>1, <3>2
  <2> QED BY <2>6, <2>7
<1> QED BY <1>2, <1>3 DEF EditStep, EditNext

\* A step of publish that leaves the row and Meta.
LEMMA QuietMap ==
    ASSUME UNCHANGED <<content, posts, byHand>>, NEW c \in Content,
           disturbed' = disturbed \/ disturbed' = disturbed \cup {c}
    PROVE  [Promise!Next]_Promise!promiseVars
<1>1. \A b \in Content : Untouched(b)
  BY DEF Untouched
<1>2. CASE disturbed' = disturbed
  BY <1>1, <1>2, AllUntouched
<1>3. CASE disturbed' = disturbed \cup {c}
  BY <1>1, <1>3, TouchesOne
<1> QED BY <1>2, <1>3

\* A post of an undisturbed item is one that the promise allows.
LEMMA PostMap ==
    ASSUME TypeOK, TypeOK', UndisturbedInv, NEW p \in Publisher, NEW t \in Target,
           NEW outcome \in MetaOutcome, PublishPost(p, t, outcome), NEW c, c = pub[p].item
    PROVE  [Promise!Next]_Promise!promiseVars
<1>1. AfterPost(p, t, outcome, c)
  BY PostIs, Z3
<1>2. c \in Content /\ UNCHANGED <<content, byHand>>
      /\ disturbed' = IF outcome = "lost" THEN disturbed \cup {c} ELSE disturbed
  BY <1>1 DEF AfterPost, PublishPost, itemVars
<1>3. CASE outcome = "rejected"
  BY <1>1, <1>2, <1>3, QuietMap DEF AfterPost
<1>4. \A b \in Content \ {c} : Untouched(b)
  BY <1>1, <1>2 DEF AfterPost, Untouched
<1>5. CASE c \in disturbed'
  <2>1. disturbed' = disturbed \cup {c}
    BY <1>2, <1>5
  <2> QED BY <1>2, <1>4, <1>5, <2>1, TouchesOne
<1>6. CASE outcome = "accepted" /\ c \notin disturbed'
  <2>1. c \notin disturbed /\ UNCHANGED disturbed /\ Orderly(c)
    BY <1>2, <1>6 DEF UndisturbedInv
  <2>2. /\ pub[p].edition = content[c].edition
        /\ posts[c][t][content[c].edition] = 0
    <3>1. t \notin Succeeded(pub[p].results) /\ Publishes(p, c)
      BY <1>1 DEF AfterPost, Succeeded
    <3> QED BY <2>1, <3>1 DEF Orderly, CopyAgrees
  <2>3. posts'[c] = [posts[c] EXCEPT ![t][content[c].edition] = 1]
    BY <1>1, <1>6, <2>2 DEF AfterPost, UpToTwo
  <2>4. PICK r, n \in ViewRow : Seen(c, r, n)
    BY <1>2, ViewStep
  <2>5. IsPublished(c)' = IsPublished(c)
    BY <1>2 DEF IsPublished
  <2>6. Promise!Posted(r, n)
    BY <1>2, <2>2, <2>3, <2>4, <2>5, PostedMember DEF Seen
  <2>7. Allowed(View(c), View(c)')
    BY <2>4, <2>6 DEF Allowed, Seen
  <2> QED BY <1>2, <1>4, <2>1, <2>7, TouchesOne
<1>7. outcome \in {"accepted", "rejected", "lost"}
  BY MetaOutcomeAssumption
<1>8. CASE outcome = "lost"
  BY <1>2, <1>5, <1>8
<1> QED BY <1>3, <1>5, <1>6, <1>7, <1>8

\* A save records the post that was made; the last write publishes the item.
LEMMA SaveMap ==
    ASSUME TypeOK, TypeOK', UndisturbedInv, NEW p \in Publisher,
           PublishSave(p) \/ PublishFinish(p), NEW c, c = pub[p].item
    PROVE  Promise!Next
<1>1. /\ AfterSave(p, c)
      /\ content'[c].status = IF pub[p].pc = "post" THEN "PUBLISHED" ELSE content[c].status
  BY SaveIs, Z3
<1>2. /\ c \in Content /\ UNCHANGED <<posts, disturbed, byHand>> /\ Publishes(p, c)
      /\ content'[c].results = pub[p].results /\ content'[c].targets = pub[p].targets
      /\ content'[c].edition = content[c].edition
      /\ \A b \in Content \ {c} : Untouched(b)
  BY <1>1 DEF AfterSave, Untouched
<1>3. CASE c \in disturbed
  <2>1. c \in disturbed' /\ disturbed' = disturbed \cup {c}
    BY <1>2, <1>3
  <2> QED BY <1>2, <2>1, TouchesOne
<1>4. CASE c \notin disturbed
  <2>1. /\ pub[p].targets # {}
        /\ \A t \in Target : posts[c][t][content[c].edition] =
                                IF t \in Succeeded(pub[p].results) THEN 1 ELSE 0
        /\ IF pub[p].pc = "saveOk"
           THEN \E t \in Target :
                   Succeeded(pub[p].results) = Succeeded(content[c].results) \cup {t}
           ELSE Succeeded(pub[p].results) = Succeeded(content[c].results)
    BY <1>2, <1>4 DEF UndisturbedInv, Orderly, CopyAgrees
  <2>2. CASE pub[p].pc = "saveOk"
    <3>1. PICK t \in Target :
             Succeeded(pub[p].results) = Succeeded(content[c].results) \cup {t}
      BY <2>1, <2>2
    <3>2. posts[c][t][content[c].edition] = 1
      BY <2>1, <3>1
    <3>3. PICK r, n \in ViewRow : Seen(c, r, n)
      BY <1>2, ViewStep
    <3>4. IsPublished(c)' = IsPublished(c)
      BY <1>1, <1>2, <2>2 DEF IsPublished
    <3>5. Promise!Recorded(r, n)
      BY <1>2, <3>1, <3>2, <3>3, <3>4, RecordedMember DEF Seen
    <3>6. Allowed(View(c), View(c)')
      BY <3>3, <3>5 DEF Allowed, Seen
    <3> QED BY <1>2, <1>4, <3>6, TouchesOne
  <2>3. CASE pub[p].pc = "saveFailed" \/ c \in byHand
    <3>0. CASE pub[p].pc = "saveOk"
      BY <2>2, <3>0
    <3>1. CASE pub[p].pc # "saveOk"
      <4>1. IsPublished(c)' => IsPublished(c)
        BY <1>1, <1>2, <2>3 DEF IsPublished
      <4>2. Succeeded(content'[c].results) = Succeeded(content[c].results)
        BY <1>2, <2>1, <3>1
      <4>3. Allowed(View(c), View(c)')
        BY <1>2, <4>1, <4>2, EditedView
      <4> QED BY <1>2, <1>4, <4>3, TouchesOne
    <3> QED BY <3>0, <3>1
  <2>4. CASE pub[p].pc = "post" /\ c \notin byHand
    <3>1. PublishFinish(p)
      BY <2>4 DEF PublishSave
    <3>2. pub[p].targets \subseteq Succeeded(content[c].results)
      BY <2>1, <2>4, <3>1, FinishIsWhole
    <3>3. PICK r, n \in ViewRow : Seen(c, r, n)
      BY <1>2, ViewStep
    <3>4. IsPublished(c)' = TRUE
      BY <1>1, <1>2, <2>4 DEF IsPublished
    <3>5. Promise!Published(r, n)
      <4>1. /\ n.posts = r.posts /\ n.edition = r.edition
            /\ n.targets = pub[p].targets /\ r.recorded = Succeeded(content[c].results)
        BY <1>2, <3>3 DEF Seen
      <4>2. n.recorded = Succeeded(pub[p].results)
        BY <1>2, <3>3 DEF Seen
      <4>3. n.recorded = r.recorded
        BY <2>1, <2>4, <4>1, <4>2
      <4>4. n.published = TRUE
        BY <3>3, <3>4 DEF Seen
      <4>5. n.targets \subseteq r.recorded /\ n.targets # {}
        BY <2>1, <3>2, <4>1
      <4> QED BY <3>3, <4>1, <4>3, <4>4, <4>5, PublishedMember, Zenon
    <3>6. Allowed(View(c), View(c)')
      BY <3>3, <3>5 DEF Allowed, Seen
    <3> QED BY <1>2, <1>4, <3>6, TouchesOne
  <2>5. pub[p].pc \in {"post", "saveOk", "saveFailed"}
    BY DEF PublishSave, PublishFinish
  <2> QED BY <2>2, <2>3, <2>4, <2>5
<1> QED BY <1>3, <1>4

LEMMA PublishMap ==
    ASSUME TypeOK, TypeOK', UndisturbedInv, NEW p \in Publisher, PublishStep(p)
    PROVE  [Promise!Next]_Promise!promiseVars
<1>1. PICK c : c = pub[p].item
  OBVIOUS
<1>2. c \in Content
  BY <1>1, PublishKeepsItem DEF PublishCall
<1>3. CASE PublishCheck(p)
  <2>1. UNCHANGED <<content, posts, byHand>> /\ disturbed' = disturbed
    BY <1>3, CheckIs
  <2> QED BY <1>2, <2>1, QuietMap
<1>4. ASSUME NEW t \in Target, NEW outcome \in MetaOutcome, PublishPost(p, t, outcome)
      PROVE  [Promise!Next]_Promise!promiseVars
  BY <1>1, <1>4, PostMap, Z3
<1>5. CASE PublishSave(p) \/ PublishFinish(p)
  BY <1>1, <1>5, SaveMap, Z3
<1> QED BY <1>3, <1>4, <1>5 DEF PublishStep

\* The start of a call is seen only if it disturbs its item.
LEMMA ReadMap ==
    ASSUME TypeOK, NEW p \in Publisher, NEW b \in Content, PublishRead(p, b),
           UNCHANGED <<itemVars, posts>>
    PROVE  [Promise!Next]_Promise!promiseVars
<1>1. disturbed' = disturbed \/ disturbed' = disturbed \cup {b}
  BY ReadIs
<1> QED BY <1>1, QuietMap DEF itemVars

LEMMA PromiseStep ==
    ASSUME TypeOK, TypeOK', UndisturbedInv, [Next]_vars
    PROVE  [Promise!Next]_Promise!promiseVars
<1>1. CASE ItemsNext /\ UNCHANGED pubVars
  BY <1>1, ItemsMap
<1>2. CASE EditStep
  BY <1>2, EditMap
<1>3. ASSUME NEW i \in Instance, SweepStep(i)
      PROVE  [Promise!Next]_Promise!promiseVars
  <2>1. i \in Publisher
    BY DEF Publisher
  <2>2. CASE Attends(i)
    BY <2>2, AllUntouched DEF Attends, Untouched
  <2> QED BY <1>3, <2>1, <2>2, SweepIs, PublishMap, ReadMap
<1>4. ASSUME NEW q \in Caller, NEW b \in Content, PublishRequest(q, b)
      PROVE  [Promise!Next]_Promise!promiseVars
  BY <1>4, ReadMap DEF PublishRequest, Publisher
<1>5. ASSUME NEW q \in Caller, PublishStep(q)
      PROVE  [Promise!Next]_Promise!promiseVars
  BY <1>5, PublishMap DEF Publisher
<1>6. ASSUME NEW p \in Publisher, CutsOff(p)
      PROVE  [Promise!Next]_Promise!promiseVars
  <2>1. /\ UNCHANGED <<content, posts, byHand>>
        /\ disturbed' = IF pub[p].pc = "saveOk"
                        THEN disturbed \cup {pub[p].item} ELSE disturbed
    BY <1>6, CutOffIs
  <2>2. CASE pub[p].pc = "saveOk"
    <3>1. PICK c \in Content : c = pub[p].item
      BY <2>2, CallIsCall DEF PublishCall
    <3> QED BY <2>1, <2>2, <3>1, QuietMap
  <2>3. CASE pub[p].pc # "saveOk"
    BY <2>1, <2>3, AllUntouched DEF Untouched
  <2> QED BY <2>2, <2>3
<1>7. CASE UNCHANGED vars
  <2>1. UNCHANGED <<content, posts, byHand, disturbed>>
    BY <1>7 DEF vars, itemVars, pubVars
  <2> QED BY <2>1, AllUntouched DEF Untouched
<1> QED BY <1>1, <1>2, <1>3, <1>4, <1>5, <1>6, <1>7 DEF Next, CutsOff

LEMMA PromiseInit == Init => Promise!Init
<1> SUFFICES ASSUME Init PROVE Promise!Init
  OBVIOUS
<1>1. \A c \in Content : /\ posts[c] = [t \in Target |-> [e \in 0 .. MaxEdition |-> 0]]
                         /\ content[c].edition = 0 /\ content[c].targets = {}
                         /\ content[c].results = NoResults
                         /\ content[c].status = "ABSENT"
  BY DEF Init, ItemsInit
<1>2. \A t \in Target : NoResults[t] # "SUCCEEDED"
  BY DEF NoResults
<1>3. \A c \in Content : {t \in Target : content[c].results[t] = "SUCCEEDED"} = {}
  BY <1>1, <1>2
<1>4. \A c \in Content : (content[c].status = "PUBLISHED" /\ c \notin byHand) = FALSE
  BY <1>1
<1>5. disturbed = {}
  BY DEF Init
<1> QED BY <1>1, <1>3, <1>4, <1>5 DEF Promise!Init, Promise!NoPosts

(***************************************************************************)
(* The calls of publish, the sweeps, the edits and the crashes together    *)
(* implement PublishOnce: an item that was not disturbed is posted, then   *)
(* recorded, then published, though each call works on its own copy.       *)
(***************************************************************************)
THEOREM PublishingIsPromised == Spec => PublishesAsPromised
<1>1. TypeOK /\ TypeOK' /\ UndisturbedInv /\ [Next]_vars
         => [Promise!Next]_Promise!promiseVars
  BY PromiseStep
<1> QED BY <1>1, PromiseInit, TypeCorrect, UndisturbedInvariant, PTL
    DEF Spec, PublishesAsPromised, Promise!Spec
=============================================================================
