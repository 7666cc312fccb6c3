--------------------------- MODULE Services_proofs ---------------------------
(***************************************************************************)
(* Theorems about the catalogue, the tasks and the channels of the         *)
(* workspace, for any rows and any requests, and about the services        *)
(* together, the connections to Meta of MetaConnections_proofs among them. *)
(***************************************************************************)
EXTENDS MCServices, MetaConnections_proofs, FiniteSetTheorems, WellFoundedInduction

(***************************************************************************)
(* The catalogue.  A request holds rows that no operation removes; what it *)
(* will write of an item, or of the tags of an asset, agrees with the row, *)
(* unless the item has strayed or the request was overtaken.               *)
(***************************************************************************)
EditFits(r) ==
    call[r].sent.campaign \in Rows(campaign) =>
        campaign[call[r].sent.campaign] =
            IF call[r].sent.client = Nothing THEN item[call[r].row].client
                                             ELSE call[r].sent.client

\* Requests that will write an item, one that is there or a new one.
Writing(r) == call[r].next \in {"insert", "edit"}

EditsHold ==
    \A r \in Call : Writing(r) =>
        /\ call[r].row \in IF call[r].next = "edit" THEN Rows(item) ELSE Item \ Rows(item)
        /\ call[r].next = "insert" => call[r].sent \in ItemRow
        /\ call[r].row \notin strayed => EditFits(r)

EditedOnce ==
    \A q, r \in Call : q # r /\ Writing(q) /\ Writing(r) /\ call[q].row = call[r].row
                         => call[r].row \in strayed /\ call[r].next = "edit"

ItemsInv == EditsHold /\ EditedOnce /\ CampaignOfClient

\* The tags a request will write are those of the asset, and more.
TagsInv ==
    \A r \in Call : call[r].next \in {"suggest", "tag"} =>
        /\ call[r].row \in Rows(asset)
        /\ r \notin overtaken => asset[call[r].row].tags \subseteq call[r].tags

\* What a request has in hand of a report: it is there, of the client that was
\* read, and marked before the mail.
SendsHold ==
    \A r \in Call : call[r].next \in {"mark", "mail"} =>
        LET x == call[r].row IN
        /\ x \in Rows(report) /\ call[r].sent.client \in Client
        /\ report[x].client = call[r].sent.client \/ x \in given
        /\ call[r].next = "mail" => report[x].sentAt

ReportsInv == SendsHold /\ MailedIsMarked

CatalogueInv == CatalogueTypeOK /\ ItemsInv /\ TagsInv /\ ReportsInv

-----------------------------------------------------------------------------
(***************************************************************************)
(* What is common to the steps.                                            *)
(***************************************************************************)
LEMMA RowsOf ==
    ASSUME CatalogueTypeOK
    PROVE  /\ Rows(campaign) = {x \in Campaign : campaign[x] # Nothing}
           /\ Rows(item) = {x \in Item : item[x] # Nothing}
           /\ Rows(asset) = {x \in Asset : asset[x] # Nothing}
           /\ Rows(report) = {x \in Report : report[x] # Nothing}
BY DEF CatalogueTypeOK, Rows

LEMMA RowsOfNext ==
    ASSUME CatalogueTypeOK'
    PROVE  /\ Rows(campaign)' = {x \in Campaign : campaign'[x] # Nothing}
           /\ Rows(item)' = {x \in Item : item'[x] # Nothing}
           /\ Rows(asset)' = {x \in Asset : asset'[x] # Nothing}
           /\ Rows(report)' = {x \in Report : report'[x] # Nothing}
BY DEF CatalogueTypeOK, Rows

LEMMA RecordsAreRows ==
    /\ \A row \in ItemRow \cup AssetRow \cup ReportRow : row # Nothing
    /\ \A c \in Client \cup {Shared} : c # Nothing
BY CatalogueAssumption

LEMMA CallGoesOn ==
    ASSUME CatalogueTypeOK, NEW r \in Call, NEW row, Proceed(r, row)
    PROVE  /\ call'[r] = row
           /\ \A q \in Call \ {r} : call'[q] = call[q]
           /\ row \in CallRow => call' \in [Call -> CallRow]
BY DEF CatalogueTypeOK, Proceed

LEMMA OverIsRow ==
    /\ Uncalled \in CallRow /\ CallOver \in CallRow
    /\ Uncalled.next = "new" /\ CallOver.next = "over"
BY DEF Uncalled, CallOver, CallRow, UpdateContentItemDto

\* What a request holds at the statements that come after another one.
InsertCall(i, new) == [Uncalled EXCEPT !.next = "insert", !.row = i, !.sent = new]
EditCall(i, sent) == [Uncalled EXCEPT !.next = "edit", !.row = i, !.sent = sent]
SuggestCall(x, tags) == [Uncalled EXCEPT !.next = "suggest", !.row = x, !.tags = tags]
MarkCall(x, c) == [[Uncalled EXCEPT !.row = x, !.sent.client = c] EXCEPT !.next = "mark"]
TagCall(row, tags) == [row EXCEPT !.next = "tag", !.tags = tags]
MailCall(row) == [row EXCEPT !.next = "mail"]

LEMMA CallShapes ==
    /\ \A i \in Item, new \in ItemRow :
          /\ InsertCall(i, new) \in CallRow /\ InsertCall(i, new).next = "insert"
          /\ InsertCall(i, new).row = i /\ InsertCall(i, new).sent = new
    /\ \A i \in Item, sent \in UpdateContentItemDto :
          /\ EditCall(i, sent) \in CallRow /\ EditCall(i, sent).next = "edit"
          /\ EditCall(i, sent).row = i /\ EditCall(i, sent).sent = sent
    /\ \A x \in Asset, tags \in SUBSET Tag :
          /\ SuggestCall(x, tags) \in CallRow /\ SuggestCall(x, tags).next = "suggest"
          /\ SuggestCall(x, tags).row = x /\ SuggestCall(x, tags).tags = tags
    /\ \A x \in Report, c \in Client :
          /\ MarkCall(x, c) \in CallRow /\ MarkCall(x, c).next = "mark"
          /\ MarkCall(x, c).row = x /\ MarkCall(x, c).sent.client = c
    /\ \A row \in CallRow, tags \in SUBSET Tag :
          /\ TagCall(row, tags) \in CallRow /\ TagCall(row, tags).next = "tag"
          /\ TagCall(row, tags).row = row.row /\ TagCall(row, tags).tags = tags
    /\ \A row \in CallRow :
          /\ MailCall(row) \in CallRow /\ MailCall(row).next = "mail"
          /\ MailCall(row).row = row.row /\ MailCall(row).sent = row.sent
<1>1. \A i \in Item, new \in ItemRow :
          /\ InsertCall(i, new) \in CallRow /\ InsertCall(i, new).next = "insert"
          /\ InsertCall(i, new).row = i /\ InsertCall(i, new).sent = new
  BY DEF InsertCall, Uncalled, CallRow, ItemRow, UpdateContentItemDto
<1>2. \A i \in Item, sent \in UpdateContentItemDto :
          /\ EditCall(i, sent) \in CallRow /\ EditCall(i, sent).next = "edit"
          /\ EditCall(i, sent).row = i /\ EditCall(i, sent).sent = sent
  BY DEF EditCall, Uncalled, CallRow
<1>3. \A x \in Asset, tags \in SUBSET Tag :
          /\ SuggestCall(x, tags) \in CallRow /\ SuggestCall(x, tags).next = "suggest"
          /\ SuggestCall(x, tags).row = x /\ SuggestCall(x, tags).tags = tags
  BY DEF SuggestCall, Uncalled, CallRow, UpdateContentItemDto
<1>4. \A x \in Report, c \in Client :
          /\ MarkCall(x, c) \in CallRow /\ MarkCall(x, c).next = "mark"
          /\ MarkCall(x, c).row = x /\ MarkCall(x, c).sent.client = c
  BY DEF MarkCall, Uncalled, CallRow, UpdateContentItemDto
<1>5. \A row \in CallRow, tags \in SUBSET Tag :
          /\ TagCall(row, tags) \in CallRow /\ TagCall(row, tags).next = "tag"
          /\ TagCall(row, tags).row = row.row /\ TagCall(row, tags).tags = tags
  BY DEF TagCall, CallRow
<1>6. \A row \in CallRow :
          /\ MailCall(row) \in CallRow /\ MailCall(row).next = "mail"
          /\ MailCall(row).row = row.row /\ MailCall(row).sent = row.sent
  BY DEF MailCall, CallRow
<1> QED BY <1>1, <1>2, <1>3, <1>4, <1>5, <1>6

\* A step that is none of a part's leaves what is known of it.
ItemsAlone == /\ UNCHANGED <<campaign, item, strayed>>
              /\ \A q \in Call : call'[q] = call[q] \/ ~Writing(q)'
TagsAlone == /\ UNCHANGED <<asset, overtaken>>
             /\ \A q \in Call : call'[q] = call[q] \/ call'[q].next \notin {"suggest", "tag"}
ReportsAlone == /\ UNCHANGED <<report, mailed, given>>
                /\ \A q \in Call : call'[q] = call[q] \/ call'[q].next \notin {"mark", "mail"}

LEMMA ItemsUnmoved == ASSUME ItemsInv, ItemsAlone PROVE ItemsInv'
<1>1. EditsHold'
  BY DEF ItemsInv, ItemsAlone, EditsHold, EditFits, Writing, Rows
<1>2. EditedOnce'
  BY DEF ItemsInv, ItemsAlone, EditedOnce, Writing
<1>3. CampaignOfClient'
  BY DEF ItemsInv, ItemsAlone, CampaignOfClient, Rows
<1> QED BY <1>1, <1>2, <1>3 DEF ItemsInv

LEMMA TagsUnmoved == ASSUME TagsInv, TagsAlone PROVE TagsInv'
BY DEF TagsInv, TagsAlone, Rows

LEMMA ReportsUnmoved == ASSUME ReportsInv, ReportsAlone PROVE ReportsInv'
<1>1. SendsHold'
  BY DEF ReportsInv, SendsHold, ReportsAlone, Rows
<1>2. MailedIsMarked'
  BY DEF ReportsInv, ReportsAlone, MailedIsMarked, Rows
<1> QED BY <1>1, <1>2 DEF ReportsInv
-----------------------------------------------------------------------------
(***************************************************************************)
(* Campaigns.                                                              *)
(***************************************************************************)
LEMMA CampaignWrites ==
    ASSUME CatalogueInv, NEW k \in Campaign, NEW c \in Client,
           CreateCampaign(k, c) \/ UpdateCampaign(k, c)
    PROVE  CatalogueInv'
<1>1. /\ campaign \in [Campaign -> Client \cup {Nothing}]
      /\ campaign' = [campaign EXCEPT ![k] = c] /\ c # Nothing
  BY RecordsAreRows
     DEF CatalogueInv, CatalogueTypeOK, CreateCampaign, UpdateCampaign, Create, Update
<1>2. UNCHANGED <<item, call>> /\ strayed \subseteq strayed' /\ strayed' \subseteq Item
  BY DEF CreateCampaign, UpdateCampaign, itemVars, CatalogueInv, CatalogueTypeOK, Rows, Naming,
         Sending
<1>3. /\ campaign'[k] = c
      /\ \A j \in Campaign \ {k} : campaign'[j] = campaign[j]
      /\ campaign' \in [Campaign -> Client \cup {Nothing}]
  BY <1>1
<1>4. Rows(campaign)' = Rows(campaign) \cup {k}
  BY <1>1, <1>3 DEF Rows
<1>5. CatalogueTypeOK'
  <2>1. \A i \in Rows(item)' : item'[i].campaign \in Rows(campaign)' \cup {Nothing}
    BY <1>2, <1>4 DEF CatalogueInv, CatalogueTypeOK, Rows
  <2> QED BY <1>2, <1>3, <2>1
          DEF CatalogueInv, CatalogueTypeOK, CreateCampaign, UpdateCampaign, itemVars,
              assetVars, reportVars
<1>6. TagsInv' /\ ReportsInv'
  BY TagsUnmoved, ReportsUnmoved
     DEF CatalogueInv, TagsAlone, ReportsAlone, CreateCampaign, UpdateCampaign, assetVars,
         reportVars
<1>7. ASSUME NEW i \in Rows(item), item[i].campaign = k, i \notin strayed'
      PROVE  campaign'[k] = campaign[k]
  <2>1. campaign[k] # Nothing
    BY <1>7, CatalogueAssumption DEF CatalogueInv, CatalogueTypeOK, Rows
  <2> QED BY <1>1, <1>3, <1>7, <2>1 DEF CreateCampaign, UpdateCampaign, Create, Naming
<1>8. CampaignOfClient'
  <2>1. Rows(item)' = Rows(item)
    BY <1>2 DEF Rows
  <2> QED BY <1>2, <1>3, <1>7, <2>1
          DEF CatalogueInv, ItemsInv, CampaignOfClient, CatalogueTypeOK, Rows
<1>9. ASSUME NEW r \in Call, Writing(r), call[r].row \notin strayed'
      PROVE  EditFits(r)'
  <2>1. call[r].row \in Item /\ EditFits(r)
    BY <1>2, <1>9 DEF CatalogueInv, ItemsInv, EditsHold, CatalogueTypeOK, Rows
  <2>2. CASE call[r].sent.campaign = k
    <3>1. UpdateCampaign(k, c)
      BY <1>9, <2>2 DEF CreateCampaign
    <3>2. campaign'[k] = campaign[k] /\ k \in Rows(campaign)
      BY <1>1, <1>3, <1>9, <2>1, <2>2, <3>1 DEF UpdateCampaign, Update, Sending, Rows
    <3> QED BY <1>2, <2>1, <2>2, <3>2 DEF EditFits
  <2>3. CASE call[r].sent.campaign # k
    <3>1. call[r].sent.campaign \in Rows(campaign)' =>
             /\ call[r].sent.campaign \in Rows(campaign)
             /\ campaign'[call[r].sent.campaign] = campaign[call[r].sent.campaign]
      BY <1>1, <1>3, <1>4, <2>3 DEF Rows
    <3> QED BY <1>2, <2>1, <3>1 DEF EditFits
  <2> QED BY <2>2, <2>3
<1>10. EditsHold'
  BY <1>2, <1>9 DEF EditsHold, Writing, CatalogueInv, ItemsInv, Rows
<1>11. EditedOnce'
  BY <1>2 DEF CatalogueInv, ItemsInv, EditedOnce, Writing
<1> QED BY <1>5, <1>6, <1>8, <1>10, <1>11 DEF CatalogueInv, ItemsInv

LEMMA CampaignGoes ==
    ASSUME CatalogueInv, NEW k \in Campaign, RemoveCampaign(k)
    PROVE  CatalogueInv'
<1>1. /\ campaign \in [Campaign -> Client \cup {Nothing}]
      /\ item \in [Item -> ItemRow \cup {Nothing}]
      /\ UNCHANGED <<call, strayed>>
  BY DEF CatalogueInv, CatalogueTypeOK, RemoveCampaign
<1>2. /\ campaign'[k] = Nothing
      /\ \A j \in Campaign \ {k} : campaign'[j] = campaign[j]
      /\ campaign' \in [Campaign -> Client \cup {Nothing}]
  BY <1>1 DEF RemoveCampaign, Remove
<1>3. Rows(campaign)' = Rows(campaign) \ {k}
  BY <1>1, <1>2 DEF Rows
<1>4. \A i \in Rows(item) : /\ item[i] \in ItemRow /\ i \in Item
                            /\ item[i].campaign \in Rows(campaign) \cup {Nothing}
  BY <1>1 DEF CatalogueInv, CatalogueTypeOK, Rows
<1>5. \A i \in Item : i \in Naming(k) => i \in Rows(item) /\ item[i].campaign = k
  BY DEF Naming
<1>6. \A i \in Item : item'[i] = IF i \in Naming(k) THEN [item[i] EXCEPT !.campaign = Nothing]
                                                  ELSE item[i]
  BY DEF RemoveCampaign, ItemsWithout
<1>7. \A i \in Naming(k) : /\ item'[i] \in ItemRow /\ item'[i].campaign = Nothing
                           /\ item'[i].client = item[i].client
  BY <1>4, <1>6 DEF Naming, ItemRow
<1>8. \A i \in Item \ Naming(k) : item'[i] = item[i]
  BY <1>6
<1>9. item' \in [Item -> ItemRow \cup {Nothing}]
  BY <1>1, <1>5, <1>7, <1>8 DEF RemoveCampaign, ItemsWithout
<1>10. Rows(item)' = Rows(item)
  BY <1>1, <1>5, <1>7, <1>8, <1>9, RecordsAreRows DEF Rows
<1>11. \A i \in Rows(item) : \/ item'[i].campaign = Nothing
                             \/ i \notin Naming(k) /\ item'[i] = item[i] /\ item[i].campaign # k
  BY <1>4, <1>7, <1>8 DEF Naming
<1>12. \A i \in Rows(item)' : item'[i].campaign \in Rows(campaign)' \cup {Nothing}
  BY <1>3, <1>4, <1>10, <1>11
<1>13. CatalogueTypeOK'
  BY <1>1, <1>2, <1>9, <1>12
     DEF CatalogueInv, CatalogueTypeOK, RemoveCampaign, assetVars, reportVars
<1>14. TagsInv' /\ ReportsInv'
  BY TagsUnmoved, ReportsUnmoved
     DEF CatalogueInv, TagsAlone, ReportsAlone, RemoveCampaign, assetVars, reportVars
<1>15. CampaignOfClient'
  BY <1>1, <1>2, <1>3, <1>4, <1>10, <1>11, <1>12 DEF CatalogueInv, ItemsInv, CampaignOfClient, Rows
<1>16. EditsHold'
  <2>1. \A i \in Rows(item) : item'[i].client = item[i].client
    BY <1>4, <1>7, <1>8
  <2>2. \A j \in Rows(campaign)' : j \in Rows(campaign) /\ campaign'[j] = campaign[j]
    BY <1>1, <1>2, <1>3 DEF Rows
  <2>3. ASSUME NEW r \in Call, Writing(r), call[r].row \notin strayed
        PROVE  EditFits(r)'
    <3>1. EditFits(r) /\ (call[r].next = "edit" => call[r].row \in Rows(item))
      BY <2>3 DEF CatalogueInv, ItemsInv, EditsHold
    <3>2. call[r].next = "insert" => call[r].sent.client # Nothing
      BY <2>3, RecordsAreRows DEF CatalogueInv, ItemsInv, EditsHold, ItemRow
    <3> QED BY <1>1, <2>1, <2>2, <2>3, <3>1, <3>2 DEF EditFits, Writing
  <2> QED BY <1>1, <1>10, <2>3 DEF CatalogueInv, ItemsInv, EditsHold, Writing
<1>17. EditedOnce'
  BY <1>1 DEF CatalogueInv, ItemsInv, EditedOnce, Writing
<1> QED BY <1>13, <1>14, <1>15, <1>16, <1>17 DEF CatalogueInv, ItemsInv

LEMMA OthersWrite ==
    ASSUME CatalogueInv,
           (\E x \in Pillar : WritePillar(x)) \/ (\E x \in Template : WriteTemplate(x))
    PROVE  CatalogueInv'
<1>1. UNCHANGED <<campaign, item, asset, report, call, strayed, overtaken, mailed, given>>
  BY DEF WritePillar, WriteTemplate, itemVars, assetVars, reportVars
<1>2. pillar' \in [Pillar -> Client \cup {Nothing}]
      /\ template' \in [Template -> Client \cup {Shared, Nothing}]
  BY DEF WritePillar, WriteTemplate, Create, Update, Remove, CatalogueInv, CatalogueTypeOK
<1>3. CatalogueTypeOK'
  BY <1>1, <1>2 DEF CatalogueInv, CatalogueTypeOK, Rows
<1> QED BY <1>1, <1>3, ItemsUnmoved, TagsUnmoved, ReportsUnmoved
        DEF CatalogueInv, ItemsAlone, TagsAlone, ReportsAlone
-----------------------------------------------------------------------------
(***************************************************************************)
(* Items.                                                                  *)
(***************************************************************************)
\* A request that looks for the campaign of an item, and will write the item.
LEMMA WriteBegins ==
    ASSUME CatalogueInv, NEW r \in Call, NEW row \in CallRow, ~Writing(r), Proceed(r, row),
           UNCHANGED <<campaign, item>>, strayed \subseteq strayed',
           \/ row.next = "edit" /\ row.row \in Rows(item)
           \/ row.next = "insert" /\ row.row \in Item \ Rows(item) /\ row.sent \in ItemRow,
           row.sent.campaign \in Rows(campaign) =>
               campaign[row.sent.campaign] =
                 IF row.sent.client = Nothing THEN item[row.row].client ELSE row.sent.client,
           Editing(row.row) => row.next = "edit" /\ row.row \in strayed'
    PROVE  ItemsInv'
<1>1. /\ call'[r] = row
      /\ \A q \in Call \ {r} : call'[q] = call[q]
  BY CallGoesOn DEF CatalogueInv
<1>2. Rows(item)' = Rows(item) /\ Rows(campaign)' = Rows(campaign)
  BY DEF Rows
<1>3. CampaignOfClient'
  BY <1>2 DEF CatalogueInv, ItemsInv, CampaignOfClient
<1>4. ASSUME NEW q \in Call \ {r}
      PROVE  Writing(q)' = Writing(q) /\ EditFits(q)' = EditFits(q)
  BY <1>1, <1>2 DEF EditFits, Writing
<1>5. EditFits(r)'
  BY <1>1, <1>2 DEF EditFits
<1>6. EditsHold'
  <2>1. ASSUME NEW q \in Call \ {r}, Writing(q)'
        PROVE  /\ call'[q].row \in IF call'[q].next = "edit" THEN Rows(item)' ELSE Item \ Rows(item)'
               /\ call'[q].next = "insert" => call'[q].sent \in ItemRow
               /\ call'[q].row \notin strayed' => EditFits(q)'
    BY <1>1, <1>2, <1>4, <2>1 DEF CatalogueInv, ItemsInv, EditsHold
  <2>2. /\ call'[r].row \in IF call'[r].next = "edit" THEN Rows(item)' ELSE Item \ Rows(item)'
        /\ call'[r].next = "insert" => call'[r].sent \in ItemRow
    BY <1>1, <1>2
  <2> QED BY <1>5, <2>1, <2>2 DEF EditsHold
<1>7. EditedOnce'
  <2>1. ASSUME NEW p \in Call, NEW q \in Call, p # q, Writing(p)', Writing(q)',
               call'[p].row = call'[q].row
        PROVE  call'[q].row \in strayed' /\ call'[q].next = "edit"
    <3>1. CASE p = r
      <4>1. Editing(row.row) /\ call'[q] = call[q] /\ call[q].row = row.row
        BY <1>1, <2>1, <3>1 DEF Editing
      <4>2. row.row \in Rows(item) /\ row.row \in strayed'
        BY <4>1
      <4>3. call[q].next # "insert"
        BY <2>1, <3>1, <4>1, <4>2, <1>4 DEF CatalogueInv, ItemsInv, EditsHold
      <4> QED BY <2>1, <3>1, <4>1, <4>2, <4>3, <1>4 DEF Writing
    <3>2. CASE q = r
      BY <1>1, <2>1, <3>2 DEF Editing
    <3>3. CASE p # r /\ q # r
      BY <1>1, <1>4, <2>1, <3>3 DEF CatalogueInv, ItemsInv, EditedOnce
    <3> QED BY <3>1, <3>2, <3>3
  <2> QED BY <2>1 DEF EditedOnce
<1> QED BY <1>3, <1>6, <1>7 DEF ItemsInv

LEMMA NewItemIsChecked ==
    ASSUME CatalogueInv, NEW r \in Call, NEW i \in Item, NEW new \in ItemRow,
           CheckNewItem(r, i, new)
    PROVE  CatalogueInv'
<1> DEFINE row == InsertCall(i, new)
<1>1. /\ UNCHANGED <<campaign, item, strayed, asset, overtaken, report, mailed, given>>
      /\ call[r].next = "new" /\ i \notin Rows(item) /\ ~Editing(i) /\ Proceed(r, row)
  BY DEF CheckNewItem, InsertCall, itemVars, assetVars, reportVars
<1>2. /\ row \in CallRow /\ row.next = "insert" /\ row.row = i /\ row.sent = new
  BY CallShapes
<1> HIDE DEF row
<1>3. /\ call'[r] = row
      /\ \A q \in Call \ {r} : call'[q] = call[q]
      /\ call' \in [Call -> CallRow]
  BY <1>1, <1>2, CallGoesOn DEF CatalogueInv
<1>4. CatalogueTypeOK'
  BY <1>1, <1>3 DEF CatalogueInv, CatalogueTypeOK, CheckNewItem, Rows
<1>5. TagsInv' /\ ReportsInv'
  <2>1. TagsAlone /\ ReportsAlone
    BY <1>1, <1>2, <1>3 DEF TagsAlone, ReportsAlone
  <2> QED BY <2>1, TagsUnmoved, ReportsUnmoved DEF CatalogueInv
<1>6. new.campaign \in Rows(campaign) => campaign[new.campaign] = new.client
  BY CatalogueAssumption
     DEF CheckNewItem, CampaignFits, CatalogueInv, CatalogueTypeOK, Rows
<1>7. new.client # Nothing
  BY RecordsAreRows DEF ItemRow
<1>8. ItemsInv'
  BY <1>1, <1>2, <1>6, <1>7, WriteBegins DEF Writing
<1> QED BY <1>4, <1>5, <1>8 DEF CatalogueInv

LEMMA ItemIsChecked ==
    ASSUME CatalogueInv, NEW r \in Call, NEW i \in Item, NEW sent \in UpdateContentItemDto,
           CheckItem(r, i, sent)
    PROVE  CatalogueInv'
<1> DEFINE row == EditCall(i, sent)
<1>1. /\ UNCHANGED <<campaign, item, asset, overtaken, report, mailed, given>>
      /\ call[r].next = "new" /\ i \in Rows(item) /\ Proceed(r, row)
      /\ strayed' = IF Editing(i) THEN strayed \cup {i} ELSE strayed
  BY DEF CheckItem, EditCall, assetVars, reportVars
<1>2. /\ row \in CallRow /\ row.next = "edit" /\ row.row = i /\ row.sent = sent
  BY CallShapes
<1> HIDE DEF row
<1>3. /\ call'[r] = row
      /\ \A q \in Call \ {r} : call'[q] = call[q]
      /\ call' \in [Call -> CallRow]
  BY <1>1, <1>2, CallGoesOn DEF CatalogueInv
<1>4. strayed \subseteq strayed' /\ strayed' \subseteq Item
  BY <1>1 DEF CatalogueInv, CatalogueTypeOK
<1>5. CatalogueTypeOK'
  BY <1>1, <1>3, <1>4 DEF CatalogueInv, CatalogueTypeOK, CheckItem, Rows
<1>6. TagsInv' /\ ReportsInv'
  <2>1. TagsAlone /\ ReportsAlone
    BY <1>1, <1>2, <1>3 DEF TagsAlone, ReportsAlone
  <2> QED BY <2>1, TagsUnmoved, ReportsUnmoved DEF CatalogueInv
<1>7. sent.campaign \in Rows(campaign) =>
        campaign[sent.campaign] = IF sent.client = Nothing THEN item[i].client ELSE sent.client
  BY CatalogueAssumption
     DEF CheckItem, CampaignFits, CatalogueInv, CatalogueTypeOK, Rows
<1>8. Editing(i) => i \in strayed'
  BY <1>1
<1>9. ItemsInv'
  <2>1. ~Writing(r)
    BY <1>1 DEF Writing
  <2>2. /\ row.next = "edit" /\ row.row \in Rows(item)
        /\ Editing(row.row) => row.row \in strayed'
        /\ row.sent.campaign \in Rows(campaign) =>
              campaign[row.sent.campaign] =
                IF row.sent.client = Nothing THEN item[row.row].client ELSE row.sent.client
    BY <1>1, <1>2, <1>7, <1>8
  <2>3. /\ UNCHANGED <<campaign, item>> /\ strayed \subseteq strayed' /\ Proceed(r, row)
        /\ row \in CallRow
    BY <1>1, <1>2, <1>4
  <2> QED BY <2>1, <2>2, <2>3, WriteBegins
<1> QED BY <1>5, <1>6, <1>9 DEF CatalogueInv

\* The writes of two requests, once one of them is over.
LEMMA WriteEnds ==
    ASSUME CatalogueInv, NEW r \in Call, Writing(r), Proceed(r, CallOver),
           UNCHANGED campaign, strayed \subseteq strayed',
           Rows(item)' = Rows(item) \cup {call[r].row},
           \A j \in Rows(item) \ {call[r].row} : item'[j] = item[j]
    PROVE  EditsHold' /\ EditedOnce'
<1>1. /\ call'[r] = CallOver
      /\ \A q \in Call \ {r} : call'[q] = call[q]
  BY CallGoesOn DEF CatalogueInv
<1>2. Rows(campaign)' = Rows(campaign)
  BY DEF Rows
<1>3. ASSUME NEW q \in Call, Writing(q)'
      PROVE  /\ q # r /\ call'[q] = call[q] /\ Writing(q)
             /\ call[q].row = call[r].row => call[q].row \in strayed /\ call[q].next = "edit"
  BY <1>1, <1>3, OverIsRow DEF Writing, CatalogueInv, ItemsInv, EditedOnce
<1>4. ASSUME NEW q \in Call, Writing(q)', call[q].row \notin strayed'
      PROVE  EditFits(q)'
  <2>1. /\ EditFits(q) /\ call[q].row # call[r].row /\ call'[q] = call[q]
        /\ call[q].next = "edit" => call[q].row \in Rows(item)
    BY <1>3, <1>4 DEF CatalogueInv, ItemsInv, EditsHold
  <2>2. call[q].next = "insert" => call[q].sent.client # Nothing
    BY <1>3, <1>4, RecordsAreRows DEF CatalogueInv, ItemsInv, EditsHold, ItemRow
  <2> QED BY <1>2, <1>3, <1>4, <2>1, <2>2 DEF EditFits, Writing
<1>5. EditsHold'
  <2>1. ASSUME NEW q \in Call, Writing(q)'
        PROVE  /\ call'[q].row \in IF call'[q].next = "edit" THEN Rows(item)' ELSE Item \ Rows(item)'
               /\ call'[q].next = "insert" => call'[q].sent \in ItemRow
    BY <1>3, <2>1 DEF CatalogueInv, ItemsInv, EditsHold
  <2> QED BY <1>3, <1>4, <2>1 DEF EditsHold
<1>6. EditedOnce'
  BY <1>3 DEF CatalogueInv, ItemsInv, EditedOnce
<1> QED BY <1>5, <1>6

LEMMA ItemIsInserted ==
    ASSUME CatalogueInv, NEW r \in Call, InsertItem(r)
    PROVE  CatalogueInv'
<1> DEFINE i == call[r].row
           new == call[r].sent
<1>1. /\ UNCHANGED <<campaign, strayed, asset, overtaken, report, mailed, given>>
      /\ call[r].next = "insert" /\ Proceed(r, CallOver)
  BY DEF InsertItem, assetVars, reportVars
<1>2. /\ call'[r] = CallOver
      /\ \A q \in Call \ {r} : call'[q] = call[q]
      /\ call' \in [Call -> CallRow]
  BY <1>1, CallGoesOn, OverIsRow DEF CatalogueInv
<1>3. TagsInv' /\ ReportsInv'
  <2>1. TagsAlone /\ ReportsAlone
    BY <1>1, <1>2, OverIsRow DEF TagsAlone, ReportsAlone
  <2> QED BY <2>1, TagsUnmoved, ReportsUnmoved DEF CatalogueInv
<1>4. CASE UNCHANGED item
  <2>1. ItemsAlone
    BY <1>1, <1>2, <1>4, OverIsRow DEF ItemsAlone, Writing
  <2>2. CatalogueTypeOK'
    BY <1>1, <1>2, <1>4 DEF CatalogueInv, CatalogueTypeOK, InsertItem, Rows
  <2> QED BY <1>3, <2>1, <2>2, ItemsUnmoved DEF CatalogueInv
<1>5. CASE new.campaign \in Rows(campaign) \cup {Nothing}
  <2>1. /\ i \in Item /\ i \notin Rows(item) /\ new \in ItemRow
        /\ i \notin strayed => EditFits(r)
        /\ item \in [Item -> ItemRow \cup {Nothing}] /\ Rows(item) \subseteq Item
    BY <1>1 DEF CatalogueInv, CatalogueTypeOK, ItemsInv, EditsHold, Writing, Rows
  <2>2. item' = [item EXCEPT ![i] = new]
    BY <1>5 DEF InsertItem, Create
  <2>3. /\ item' \in [Item -> ItemRow \cup {Nothing}] /\ item'[i] = new
        /\ \A j \in Item \ {i} : item'[j] = item[j]
    BY <2>1, <2>2
  <2>4. Rows(item)' = Rows(item) \cup {i} /\ Rows(campaign)' = Rows(campaign)
    BY <1>1, <2>1, <2>3, RecordsAreRows DEF Rows
  <2>5. \A j \in Rows(item)' : item'[j].campaign \in Rows(campaign)' \cup {Nothing}
    BY <1>5, <2>1, <2>3, <2>4 DEF CatalogueInv, CatalogueTypeOK
  <2>6. CatalogueTypeOK'
    BY <1>1, <1>2, <2>3, <2>5 DEF CatalogueInv, CatalogueTypeOK, InsertItem
  <2>7. i \notin strayed /\ new.campaign # Nothing => campaign[new.campaign] = new.client
    BY <1>5, <2>1, RecordsAreRows DEF EditFits, ItemRow
  <2>8. CampaignOfClient'
    BY <1>1, <2>1, <2>3, <2>4, <2>7 DEF CatalogueInv, ItemsInv, CampaignOfClient
  <2>9. EditsHold' /\ EditedOnce'
    BY <1>1, <2>1, <2>3, <2>4, WriteEnds DEF Writing
  <2> QED BY <1>3, <2>6, <2>8, <2>9 DEF CatalogueInv, ItemsInv
<1> QED BY <1>4, <1>5 DEF InsertItem

LEMMA ItemIsEdited ==
    ASSUME CatalogueInv, NEW r \in Call, EditItem(r)
    PROVE  CatalogueInv'
<1> DEFINE i == call[r].row
           sent == call[r].sent
<1>1. /\ UNCHANGED <<campaign, asset, overtaken, report, mailed, given>>
      /\ call[r].next = "edit" /\ Proceed(r, CallOver)
  BY DEF EditItem, assetVars, reportVars
<1>2. /\ call'[r] = CallOver
      /\ \A q \in Call \ {r} : call'[q] = call[q]
      /\ call' \in [Call -> CallRow]
  BY <1>1, CallGoesOn, OverIsRow DEF CatalogueInv
<1>3. TagsInv' /\ ReportsInv'
  <2>1. TagsAlone /\ ReportsAlone
    BY <1>1, <1>2, OverIsRow DEF TagsAlone, ReportsAlone
  <2> QED BY <2>1, TagsUnmoved, ReportsUnmoved DEF CatalogueInv
<1>4. CASE UNCHANGED itemVars
  <2>1. ItemsAlone
    BY <1>1, <1>2, <1>4, OverIsRow DEF ItemsAlone, itemVars, Writing
  <2>2. CatalogueTypeOK'
    BY <1>1, <1>2, <1>4 DEF CatalogueInv, CatalogueTypeOK, EditItem, itemVars, Rows
  <2> QED BY <1>3, <2>1, <2>2, ItemsUnmoved DEF CatalogueInv
<1>5. CASE sent.campaign \in Rows(campaign) \cup {Nothing, Null}
  <2> DEFINE row == Edited(item[i], sent)
             moves == sent.client \notin {Nothing, item[i].client} /\ sent.campaign = Nothing
  <2>1. /\ i \in Rows(item) /\ i \in Item /\ item[i] \in ItemRow /\ sent \in UpdateContentItemDto
        /\ item \in [Item -> ItemRow \cup {Nothing}]
        /\ item[i].campaign \in Rows(campaign) \cup {Nothing}
        /\ i \notin strayed => EditFits(r)
    BY <1>1 DEF CatalogueInv, CatalogueTypeOK, ItemsInv, EditsHold, Writing, Rows, CallRow
  <2>2. /\ Null \notin Campaign \cup {Nothing} /\ Rows(campaign) \subseteq Campaign
        /\ Nothing \notin Client /\ Nothing \notin Campaign
    BY CatalogueAssumption DEF CatalogueInv, CatalogueTypeOK, Rows
  <2>3. /\ row \in ItemRow
        /\ row.client = IF sent.client = Nothing THEN item[i].client ELSE sent.client
        /\ sent.campaign = Nothing => row.campaign = item[i].campaign
        /\ sent.campaign = Null => row.campaign = Nothing
        /\ sent.campaign \in Rows(campaign) => row.campaign = sent.campaign
    BY <1>5, <2>1, <2>2 DEF Edited, ItemRow, UpdateContentItemDto
  <2>4. item' = [item EXCEPT ![i] = row]
    BY <1>5, <2>1 DEF EditItem
  <2>5. strayed' = IF moves THEN strayed \cup {i} ELSE strayed
    BY <1>5 DEF EditItem
  <2> HIDE DEF row
  <2>6. /\ item' \in [Item -> ItemRow \cup {Nothing}] /\ item'[i] = row
        /\ \A j \in Item \ {i} : item'[j] = item[j]
    BY <2>1, <2>3, <2>4
  <2>7. /\ Rows(item)' = Rows(item) /\ Rows(item) \subseteq Item
        /\ Rows(campaign)' = Rows(campaign)
    BY <1>1, <2>1, <2>3, <2>6, RecordsAreRows DEF Rows
  <2>8. \A j \in Rows(item)' : item'[j].campaign \in Rows(campaign)' \cup {Nothing}
    BY <1>5, <2>1, <2>3, <2>6, <2>7 DEF CatalogueInv, CatalogueTypeOK
  <2>9. strayed \subseteq strayed' /\ strayed' \subseteq Item
    BY <2>1, <2>5 DEF CatalogueInv, CatalogueTypeOK
  <2>10. CatalogueTypeOK'
    BY <1>1, <1>2, <2>6, <2>8, <2>9 DEF CatalogueInv, CatalogueTypeOK, EditItem
  <2>11. ASSUME i \notin strayed', row.campaign # Nothing
         PROVE  campaign[row.campaign] = row.client
    <3>1. CASE sent.campaign = Nothing
      <4>1. row.client = item[i].client /\ row.campaign = item[i].campaign
        BY <2>3, <2>5, <2>11, <3>1
      <4> QED BY <2>1, <2>9, <2>11, <4>1 DEF CatalogueInv, ItemsInv, CampaignOfClient
    <3>2. CASE sent.campaign \in Rows(campaign)
      BY <2>1, <2>3, <2>9, <2>11, <3>2 DEF EditFits
    <3> QED BY <1>5, <2>3, <2>11, <3>1, <3>2
  <2>12. CampaignOfClient'
    BY <1>1, <2>6, <2>7, <2>9, <2>11 DEF CatalogueInv, ItemsInv, CampaignOfClient
  <2>13. EditsHold' /\ EditedOnce'
    BY <1>1, <2>1, <2>6, <2>7, <2>9, WriteEnds DEF Writing
  <2> QED BY <1>3, <2>10, <2>12, <2>13 DEF CatalogueInv, ItemsInv
<1> QED BY <1>4, <1>5 DEF EditItem
-----------------------------------------------------------------------------
(***************************************************************************)
(* Assets and their tags.                                                  *)
(***************************************************************************)
LEMMA AssetIsWritten ==
    ASSUME CatalogueInv, NEW x \in Asset, NEW row \in AssetRow,
           CreateAsset(x, row) \/ UpdateAsset(x, row)
    PROVE  CatalogueInv'
<1>1. /\ asset \in [Asset -> AssetRow \cup {Nothing}] /\ asset' = [asset EXCEPT ![x] = row]
      /\ UNCHANGED <<campaign, item, strayed, report, mailed, given, call>>
      /\ overtaken \subseteq overtaken' /\ overtaken' \subseteq Call
  BY DEF CatalogueInv, CatalogueTypeOK, CreateAsset, UpdateAsset, Create, Update, itemVars,
         reportVars, Tagging
<1>2. /\ asset' \in [Asset -> AssetRow \cup {Nothing}] /\ asset'[x] = row
      /\ \A y \in Asset \ {x} : asset'[y] = asset[y]
  BY <1>1
<1>3. Rows(asset)' = Rows(asset) \cup {x} /\ Rows(asset) \subseteq Asset
  BY <1>1, <1>2, RecordsAreRows DEF Rows
<1>4. CatalogueTypeOK'
  BY <1>1, <1>2 DEF CatalogueInv, CatalogueTypeOK, CreateAsset, UpdateAsset, Rows
<1>5. ItemsInv' /\ ReportsInv'
  BY <1>1, ItemsUnmoved, ReportsUnmoved DEF CatalogueInv, ItemsAlone, ReportsAlone
<1>6. ASSUME NEW r \in Call, call[r].next \in {"suggest", "tag"}
      PROVE  /\ call[r].row \in Rows(asset)
             /\ r \notin overtaken' => call[r].row # x
  BY <1>1, <1>6 DEF CatalogueInv, TagsInv, CreateAsset, UpdateAsset, Create, Tagging, Rows
<1>7. TagsInv'
  BY <1>1, <1>2, <1>3, <1>6 DEF CatalogueInv, TagsInv
<1> QED BY <1>4, <1>5, <1>7 DEF CatalogueInv

LEMMA AssetIsRead ==
    ASSUME CatalogueInv, NEW r \in Call, NEW x \in Asset, AutoTag(r, x)
    PROVE  CatalogueInv'
<1> DEFINE row == SuggestCall(x, asset[x].tags)
<1>1. /\ UNCHANGED <<campaign, item, strayed, asset, overtaken, report, mailed, given>>
      /\ call[r].next = "new" /\ x \in Rows(asset) /\ Proceed(r, row)
  BY DEF AutoTag, SuggestCall, itemVars, assetVars, reportVars
<1>2. asset[x].tags \in SUBSET Tag
  BY <1>1 DEF CatalogueInv, CatalogueTypeOK, Rows, AssetRow
<1>3. row \in CallRow /\ row.next = "suggest" /\ row.row = x /\ row.tags = asset[x].tags
  BY <1>2, CallShapes
<1> HIDE DEF row
<1>4. /\ call'[r] = row
      /\ \A q \in Call \ {r} : call'[q] = call[q]
      /\ call' \in [Call -> CallRow]
  BY <1>1, <1>3, CallGoesOn DEF CatalogueInv
<1>5. CatalogueTypeOK'
  BY <1>1, <1>4 DEF CatalogueInv, CatalogueTypeOK, AutoTag, Rows
<1>6. ItemsInv' /\ ReportsInv'
  <2>1. ItemsAlone /\ ReportsAlone
    BY <1>1, <1>3, <1>4 DEF ItemsAlone, ReportsAlone, Writing
  <2> QED BY <2>1, ItemsUnmoved, ReportsUnmoved DEF CatalogueInv
<1>7. TagsInv'
  <2>1. Rows(asset)' = Rows(asset)
    BY <1>1 DEF Rows
  <2> QED BY <1>1, <1>3, <1>4, <2>1 DEF CatalogueInv, TagsInv
<1> QED BY <1>5, <1>6, <1>7 DEF CatalogueInv

LEMMA TagsAreSuggested ==
    ASSUME CatalogueInv, NEW r \in Call, NEW suggested \in SUBSET Tag,
           GenerateTags(r, suggested)
    PROVE  CatalogueInv'
<1> DEFINE row == TagCall(call[r], call[r].tags \cup suggested)
<1>1. /\ UNCHANGED <<campaign, item, strayed, asset, overtaken, report, mailed, given>>
      /\ call[r].next = "suggest" /\ Proceed(r, row)
  BY DEF GenerateTags, TagCall, Merged, itemVars, assetVars, reportVars
<1>2. call[r] \in CallRow /\ call[r].tags \in SUBSET Tag
  BY DEF CatalogueInv, CatalogueTypeOK, CallRow
<1>3. /\ row \in CallRow /\ row.next = "tag" /\ row.row = call[r].row
      /\ row.tags = call[r].tags \cup suggested
  BY <1>2, CallShapes
<1> HIDE DEF row
<1>4. /\ call'[r] = row
      /\ \A q \in Call \ {r} : call'[q] = call[q]
      /\ call' \in [Call -> CallRow]
  BY <1>1, <1>3, CallGoesOn DEF CatalogueInv
<1>5. CatalogueTypeOK'
  BY <1>1, <1>4 DEF CatalogueInv, CatalogueTypeOK, GenerateTags, Rows
<1>6. ItemsInv' /\ ReportsInv'
  <2>1. ItemsAlone /\ ReportsAlone
    BY <1>1, <1>3, <1>4 DEF ItemsAlone, ReportsAlone, Writing
  <2> QED BY <2>1, ItemsUnmoved, ReportsUnmoved DEF CatalogueInv
<1>7. TagsInv'
  <2>1. Rows(asset)' = Rows(asset)
    BY <1>1 DEF Rows
  <2> QED BY <1>1, <1>3, <1>4, <2>1 DEF CatalogueInv, TagsInv
<1> QED BY <1>5, <1>6, <1>7 DEF CatalogueInv

LEMMA TagsAreSaved ==
    ASSUME CatalogueInv, NEW r \in Call, SaveTags(r)
    PROVE  CatalogueInv'
<1> DEFINE x == call[r].row
           row == [asset[x] EXCEPT !.tags = call[r].tags]
<1>1. /\ UNCHANGED <<campaign, item, strayed, report, mailed, given>>
      /\ call[r].next = "tag" /\ Proceed(r, CallOver)
      /\ overtaken' = overtaken \cup (Tagging(x) \ {r})
      /\ asset' = [asset EXCEPT ![x] = row]
  BY DEF SaveTags, itemVars, reportVars
<1>2. /\ x \in Rows(asset) /\ x \in Asset /\ asset[x] \in AssetRow
      /\ asset \in [Asset -> AssetRow \cup {Nothing}] /\ call[r].tags \in SUBSET Tag
  BY <1>1 DEF CatalogueInv, CatalogueTypeOK, TagsInv, Rows, CallRow
<1>3. row \in AssetRow
  BY <1>2 DEF AssetRow
<1> HIDE DEF row
<1>4. /\ asset' \in [Asset -> AssetRow \cup {Nothing}]
      /\ \A y \in Asset \ {x} : asset'[y] = asset[y]
      /\ asset'[x] = row
  BY <1>1, <1>2, <1>3
<1>5. Rows(asset)' = Rows(asset) /\ Rows(asset) \subseteq Asset
  BY <1>2, <1>3, <1>4, RecordsAreRows DEF Rows
<1>6. /\ call'[r] = CallOver
      /\ \A q \in Call \ {r} : call'[q] = call[q]
      /\ call' \in [Call -> CallRow]
  BY <1>1, CallGoesOn, OverIsRow DEF CatalogueInv
<1>7. overtaken \subseteq overtaken' /\ overtaken' \subseteq Call
  BY <1>1 DEF CatalogueInv, CatalogueTypeOK, Tagging
<1>8. CatalogueTypeOK'
  BY <1>1, <1>4, <1>6, <1>7 DEF CatalogueInv, CatalogueTypeOK, SaveTags, Rows
<1>9. ItemsInv' /\ ReportsInv'
  <2>1. ItemsAlone /\ ReportsAlone
    BY <1>1, <1>6, OverIsRow DEF ItemsAlone, ReportsAlone, Writing
  <2> QED BY <2>1, ItemsUnmoved, ReportsUnmoved DEF CatalogueInv
<1>10. ASSUME NEW q \in Call, call'[q].next \in {"suggest", "tag"}
       PROVE  /\ call'[q] = call[q]
              /\ q \notin overtaken' => call[q].row # x
  BY <1>1, <1>6, <1>10, OverIsRow DEF Tagging
<1>11. TagsInv'
  BY <1>4, <1>5, <1>7, <1>10 DEF CatalogueInv, TagsInv
<1> QED BY <1>8, <1>9, <1>11 DEF CatalogueInv

-----------------------------------------------------------------------------
(***************************************************************************)
(* Reports and their mails.                                                *)
(***************************************************************************)
LEMMA ReportIsWritten ==
    ASSUME CatalogueInv, NEW x \in Report, NEW c \in Client,
           NEW s \in {"DRAFT", "READY", "SENT"},
           CreateReport(x, c, s) \/ UpdateReport(x, c, s)
    PROVE  CatalogueInv'
<1> DEFINE new == [client |-> c, status |-> s, sentAt |-> FALSE]
           old == [report[x] EXCEPT !.client = c, !.status = s]
<1>1. /\ UNCHANGED <<campaign, item, strayed, asset, overtaken, mailed, call>>
      /\ report \in [Report -> ReportRow \cup {Nothing}]
      /\ given \subseteq given' /\ given' \subseteq Report
  BY DEF CatalogueInv, CatalogueTypeOK, CreateReport, UpdateReport, itemVars, assetVars
<1>2. new \in ReportRow
  BY DEF ReportRow
<1>3. x \in Rows(report) => /\ report[x] \in ReportRow /\ old \in ReportRow
                            /\ old.sentAt = report[x].sentAt /\ old.client = c
  BY DEF CatalogueInv, CatalogueTypeOK, Rows, ReportRow
<1>4. PICK row : /\ report' = [report EXCEPT ![x] = row] /\ row \in ReportRow
                 /\ x \in Rows(report) => /\ row.sentAt = report[x].sentAt
                                          /\ row.client = report[x].client \/ x \in given'
  <2>1. CASE CreateReport(x, c, s)
    BY <1>1, <1>2, <2>1 DEF CreateReport, Create, Rows
  <2>2. CASE UpdateReport(x, c, s)
    BY <1>3, <2>2 DEF UpdateReport, Update
  <2> QED BY <2>1, <2>2
<1>5. /\ report' \in [Report -> ReportRow \cup {Nothing}] /\ report'[x] = row
      /\ \A y \in Report \ {x} : report'[y] = report[y]
  BY <1>1, <1>4
<1>6. Rows(report)' = Rows(report) \cup {x} /\ Rows(report) \subseteq Report
  BY <1>1, <1>4, <1>5, RecordsAreRows DEF Rows
<1>7. CatalogueTypeOK'
  BY <1>1, <1>5 DEF CatalogueInv, CatalogueTypeOK, CreateReport, UpdateReport, Rows
<1>8. ItemsInv' /\ TagsInv'
  BY <1>1, ItemsUnmoved, TagsUnmoved DEF CatalogueInv, ItemsAlone, TagsAlone
<1>9. \A y \in Rows(report) : /\ report'[y].sentAt = report[y].sentAt
                              /\ report'[y].client = report[y].client \/ y \in given'
  BY <1>4, <1>5, <1>6
<1>10. MailedIsMarked'
  BY <1>1, <1>6, <1>9 DEF CatalogueInv, ReportsInv, MailedIsMarked
<1>11. SendsHold'
  BY <1>1, <1>6, <1>9 DEF CatalogueInv, ReportsInv, SendsHold
<1> QED BY <1>7, <1>8, <1>10, <1>11 DEF CatalogueInv, ReportsInv

LEMMA ReportIsRead ==
    ASSUME CatalogueInv, NEW r \in Call, NEW x \in Report, Send(r, x)
    PROVE  CatalogueInv'
<1> DEFINE c == report[x].client
           row == MarkCall(x, c)
<1>1. /\ UNCHANGED <<campaign, item, strayed, asset, overtaken, report, mailed, given>>
      /\ call[r].next = "new" /\ x \in Rows(report) /\ Proceed(r, row)
  BY DEF Send, GoOn, Then, MarkCall, itemVars, assetVars, reportVars
<1>2. c \in Client
  BY <1>1 DEF CatalogueInv, CatalogueTypeOK, Rows, ReportRow
<1>3. row \in CallRow /\ row.next = "mark" /\ row.row = x /\ row.sent.client = c
  BY <1>2, CallShapes
<1> HIDE DEF row
<1>4. /\ call'[r] = row
      /\ \A q \in Call \ {r} : call'[q] = call[q]
      /\ call' \in [Call -> CallRow]
  BY <1>1, <1>3, CallGoesOn DEF CatalogueInv
<1>5. CatalogueTypeOK'
  BY <1>1, <1>4 DEF CatalogueInv, CatalogueTypeOK, Send, Rows
<1>6. ItemsInv' /\ TagsInv'
  <2>1. ItemsAlone /\ TagsAlone
    BY <1>1, <1>3, <1>4 DEF ItemsAlone, TagsAlone, Writing
  <2> QED BY <2>1, ItemsUnmoved, TagsUnmoved DEF CatalogueInv
<1>7. Rows(report)' = Rows(report)
  BY <1>1 DEF Rows
<1>8. MailedIsMarked'
  BY <1>1, <1>7 DEF CatalogueInv, ReportsInv, MailedIsMarked
<1>9. SendsHold'
  BY <1>1, <1>2, <1>3, <1>4, <1>7 DEF CatalogueInv, ReportsInv, SendsHold
<1> QED BY <1>5, <1>6, <1>8, <1>9 DEF CatalogueInv, ReportsInv

LEMMA ReportIsMarked ==
    ASSUME CatalogueInv, NEW r \in Call, MarkSent(r)
    PROVE  CatalogueInv'
<1> DEFINE x == call[r].row
           new == MailCall(call[r])
           row == [report[x] EXCEPT !.status = "SENT", !.sentAt = TRUE]
<1>1. /\ UNCHANGED <<campaign, item, strayed, asset, overtaken, mailed, given>>
      /\ call[r].next = "mark" /\ Proceed(r, new)
  BY DEF MarkSent, GoOn, Then, MailCall, itemVars, assetVars
<1>2. /\ x \in Rows(report) /\ x \in Report /\ report[x] \in ReportRow /\ call[r] \in CallRow
      /\ report \in [Report -> ReportRow \cup {Nothing}]
      /\ call[r].sent.client \in Client
      /\ report[x].client = call[r].sent.client \/ x \in given
  BY <1>1 DEF CatalogueInv, CatalogueTypeOK, ReportsInv, SendsHold, Rows
<1>3. report' = [report EXCEPT ![x] = row]
  BY <1>2 DEF MarkSent, ReportRow
<1>4. row \in ReportRow /\ row.sentAt /\ row.client = report[x].client
  BY <1>2 DEF ReportRow
<1>5. new \in CallRow /\ new.next = "mail" /\ new.row = x /\ new.sent = call[r].sent
  BY <1>2, CallShapes
<1> HIDE DEF row, new
<1>6. /\ report' \in [Report -> ReportRow \cup {Nothing}] /\ report'[x] = row
      /\ \A y \in Report \ {x} : report'[y] = report[y]
  BY <1>2, <1>3, <1>4
<1>7. Rows(report)' = Rows(report) /\ Rows(report) \subseteq Report
  BY <1>2, <1>3, <1>4, <1>6, RecordsAreRows DEF Rows
<1>8. \A y \in Rows(report) : /\ report'[y].client = report[y].client
                              /\ report[y].sentAt => report'[y].sentAt
  BY <1>4, <1>6, <1>7
<1>9. /\ call'[r] = new
      /\ \A q \in Call \ {r} : call'[q] = call[q]
      /\ call' \in [Call -> CallRow]
  BY <1>1, <1>5, CallGoesOn DEF CatalogueInv
<1>10. CatalogueTypeOK'
  BY <1>1, <1>6, <1>9 DEF CatalogueInv, CatalogueTypeOK, MarkSent, Rows
<1>11. ItemsInv' /\ TagsInv'
  <2>1. ItemsAlone /\ TagsAlone
    BY <1>1, <1>5, <1>9 DEF ItemsAlone, TagsAlone, Writing
  <2> QED BY <2>1, ItemsUnmoved, TagsUnmoved DEF CatalogueInv
<1>12. MailedIsMarked'
  <2>1. ASSUME NEW m \in mailed
        PROVE  /\ m[1] \in Rows(report) /\ report[m[1]].sentAt
               /\ report[m[1]].client = m[2] \/ m[1] \in given
    BY DEF CatalogueInv, ReportsInv, MailedIsMarked
  <2>2. ASSUME NEW m \in mailed
        PROVE  /\ m[1] \in Rows(report)' /\ report'[m[1]].sentAt
               /\ report'[m[1]].client = m[2] \/ m[1] \in given
    BY <1>7, <1>8, <2>1
  <2> QED BY <1>1, <2>2 DEF MailedIsMarked
<1>13. SendsHold'
  <2>1. ASSUME NEW q \in Call, q # r, call[q].next \in {"mark", "mail"}
        PROVE  LET y == call[q].row IN
               /\ y \in Rows(report)' /\ call[q].sent.client \in Client
               /\ report'[y].client = call[q].sent.client \/ y \in given
               /\ call[q].next = "mail" => report'[y].sentAt
    BY <1>7, <1>8, <2>1 DEF CatalogueInv, ReportsInv, SendsHold
  <2>2. x \in Rows(report)' /\ report'[x].sentAt /\ report'[x].client = report[x].client
    BY <1>2, <1>4, <1>6, <1>7
  <2> QED BY <1>1, <1>2, <1>5, <1>9, <2>1, <2>2 DEF SendsHold
<1> QED BY <1>10, <1>11, <1>12, <1>13 DEF CatalogueInv, ReportsInv

\* A request is over: it mailed, or it stopped.
LEMMA CallEnds ==
    ASSUME CatalogueInv, NEW r \in Call,
           (\E sent \in Delivery : NotifyUser(r, sent)) \/ StopCall(r)
    PROVE  CatalogueInv'
<1> DEFINE note == <<call[r].row, call[r].sent.client>>
<1>1. /\ UNCHANGED <<campaign, item, strayed, asset, overtaken, report, given>>
      /\ Proceed(r, CallOver)
      /\ \/ mailed' = mailed
         \/ call[r].next = "mail" /\ mailed' = mailed \cup {note}
  BY DEF NotifyUser, StopCall, GoOn, Then, itemVars, assetVars, reportVars
<1>2. call[r].next = "mail" =>
         /\ note \in Report \X Client /\ call[r].row \in Rows(report)
         /\ report[call[r].row].sentAt
         /\ report[call[r].row].client = call[r].sent.client \/ call[r].row \in given
  BY DEF CatalogueInv, CatalogueTypeOK, ReportsInv, SendsHold, Rows
<1>3. /\ call'[r] = CallOver
      /\ \A q \in Call \ {r} : call'[q] = call[q]
      /\ call' \in [Call -> CallRow]
  BY <1>1, CallGoesOn, OverIsRow DEF CatalogueInv
<1>4. CatalogueTypeOK'
  BY <1>1, <1>2, <1>3 DEF CatalogueInv, CatalogueTypeOK, NotifyUser, StopCall, Rows
<1>5. ItemsInv' /\ TagsInv'
  <2>1. ItemsAlone /\ TagsAlone
    BY <1>1, <1>3, OverIsRow DEF ItemsAlone, TagsAlone, Writing
  <2> QED BY <2>1, ItemsUnmoved, TagsUnmoved DEF CatalogueInv
<1>6. Rows(report)' = Rows(report)
  BY <1>1 DEF Rows
<1>7. MailedIsMarked'
  <2>1. ASSUME NEW m \in mailed
        PROVE  /\ m[1] \in Rows(report) /\ report[m[1]].sentAt
               /\ report[m[1]].client = m[2] \/ m[1] \in given
    BY DEF CatalogueInv, ReportsInv, MailedIsMarked
  <2>2. note[1] = call[r].row /\ note[2] = call[r].sent.client
    OBVIOUS
  <2> HIDE DEF note
  <2> QED BY <1>1, <1>2, <1>6, <2>1, <2>2 DEF MailedIsMarked
<1>8. SendsHold'
  BY <1>1, <1>3, <1>6, OverIsRow DEF CatalogueInv, ReportsInv, SendsHold
<1> QED BY <1>4, <1>5, <1>7, <1>8 DEF CatalogueInv, ReportsInv

-----------------------------------------------------------------------------
LEMMA CatalogueInitIsOK == CatalogueInit => CatalogueInv
<1> SUFFICES ASSUME CatalogueInit PROVE CatalogueInv
  OBVIOUS
<1>1. /\ Rows(campaign) = {} /\ Rows(item) = {} /\ Rows(asset) = {} /\ Rows(report) = {}
  BY DEF CatalogueInit, Rows
<1>2. \A r \in Call : call[r] = Uncalled
  BY DEF CatalogueInit
<1>3. CatalogueTypeOK
  BY <1>1, OverIsRow DEF CatalogueInit, CatalogueTypeOK
<1>4. ItemsInv
  BY <1>1, <1>2, OverIsRow DEF ItemsInv, EditsHold, EditedOnce, Writing, CampaignOfClient
<1>5. TagsInv /\ ReportsInv
  BY <1>1, <1>2, OverIsRow
     DEF TagsInv, ReportsInv, SendsHold, MailedIsMarked, CatalogueInit
<1> QED BY <1>3, <1>4, <1>5 DEF CatalogueInv

LEMMA CatalogueNextIsOK == CatalogueInv /\ [CatalogueNext]_catalogueVars => CatalogueInv'
<1> SUFFICES ASSUME CatalogueInv, [CatalogueNext]_catalogueVars PROVE CatalogueInv'
  OBVIOUS
<1>1. CASE CampaignRequests
  BY <1>1, CampaignWrites, CampaignGoes DEF CampaignRequests
<1>2. CASE ItemRequests
  BY <1>2, NewItemIsChecked, ItemIsChecked DEF ItemRequests
<1>3. CASE AssetRequests
  BY <1>3, AssetIsWritten, AssetIsRead DEF AssetRequests
<1>4. CASE ReportRequests
  BY <1>4, ReportIsWritten, ReportIsRead DEF ReportRequests
<1>5. CASE (\E x \in Pillar : WritePillar(x)) \/ (\E x \in Template : WriteTemplate(x))
  BY <1>5, OthersWrite
<1>6. CASE CallStep
  BY <1>6, ItemIsInserted, ItemIsEdited, TagsAreSuggested, TagsAreSaved, ReportIsMarked,
     CallEnds
     DEF CallStep
<1>7. CASE UNCHANGED catalogueVars
  <2>1. /\ UNCHANGED <<campaign, pillar, template, item, asset, report, call>>
        /\ UNCHANGED <<strayed, overtaken, mailed, given>>
    BY <1>7 DEF catalogueVars
  <2>2. CatalogueTypeOK'
    BY <2>1 DEF CatalogueInv, CatalogueTypeOK, Rows
  <2> QED BY <2>1, <2>2, ItemsUnmoved, TagsUnmoved, ReportsUnmoved
          DEF CatalogueInv, ItemsAlone, TagsAlone, ReportsAlone
<1> QED BY <1>1, <1>2, <1>3, <1>4, <1>5, <1>6, <1>7 DEF CatalogueNext

(***************************************************************************)
(* The inductive invariant of the catalogue: the rows have their types, no *)
(* request holds a row that has gone, and what it will write agrees with   *)
(* the row it read, for any rows, tags and requests.                       *)
(***************************************************************************)
THEOREM CatalogueIsSound == CatalogueSpec => []CatalogueInv
BY CatalogueInitIsOK, CatalogueNextIsOK, PTL DEF CatalogueSpec

(***************************************************************************)
(* An item and its campaign are of one client: ensureCampaignBelongsTo-    *)
(* Client looks before the row is inserted or updated, and what it saw     *)
(* still holds then, unless a request in between moved the item or the     *)
(* campaign.                                                               *)
(***************************************************************************)
THEOREM CampaignsFitTheirItems == CatalogueSpec => []CampaignOfClient
BY CatalogueIsSound, PTL DEF CatalogueInv, ItemsInv

(***************************************************************************)
(* No client is mailed about a report that does not say it was sent, or    *)
(* about another client's: send marks the report before it mails, no       *)
(* request takes the mark away, and the client it read is the report's,    *)
(* unless a PATCH gives the report to another one.                         *)
(***************************************************************************)
THEOREM MailedReportsAreMarked == CatalogueSpec => []MailedIsMarked
BY CatalogueIsSound, PTL DEF CatalogueInv, ReportsInv

(***************************************************************************)
(* autoTag writes back all the tags of an asset and takes none of them     *)
(* away, unless another request has written the asset in between.          *)
(***************************************************************************)
THEOREM NoTagIsLost == CatalogueSpec => TagsKept
<1> DEFINE Keeps(r, x) == call[r].next = "tag" /\ call[r].row = x /\ call'[r].next = "over"
                            => asset[x].tags \subseteq asset'[x].tags
<1>1. ASSUME CatalogueInv, [CatalogueNext]_catalogueVars,
             NEW r \in Call \ overtaken, NEW x \in Asset, call[r].next = "tag",
             call[r].row = x, call'[r].next = "over"
      PROVE  asset[x].tags \subseteq asset'[x].tags
  <2>1. CASE SaveTags(r)
    <3>1. asset[x] \in AssetRow /\ asset[x].tags \subseteq call[r].tags
      BY <1>1 DEF CatalogueInv, CatalogueTypeOK, TagsInv, Rows
    <3>2. asset'[x].tags = call[r].tags
      BY <1>1, <2>1, <3>1 DEF SaveTags, CatalogueInv, CatalogueTypeOK, AssetRow
    <3> QED BY <3>1, <3>2
  <2>2. CASE UNCHANGED asset
    BY <2>2
  <2>3. CASE asset' # asset /\ ~SaveTags(r)
    <3>1. \/ UNCHANGED call
          \/ \E q \in Call : SaveTags(q)
      BY <1>1, <2>3
         DEF CatalogueNext, CampaignRequests, ItemRequests, AssetRequests, ReportRequests,
             CallStep, CreateCampaign, UpdateCampaign, RemoveCampaign, CheckNewItem, InsertItem,
             CheckItem, EditItem, CreateAsset, UpdateAsset, AutoTag, GenerateTags, CreateReport,
             UpdateReport, Send, MarkSent, NotifyUser, StopCall, WritePillar, WriteTemplate,
             assetVars, catalogueVars
    <3>2. ASSUME NEW q \in Call, SaveTags(q) PROVE call'[r] = call[r]
      BY <2>3, <3>2, CallGoesOn, <1>1 DEF SaveTags, CatalogueInv
    <3> QED BY <1>1, <3>1, <3>2
  <2> QED BY <2>1, <2>2, <2>3
<1>2. CatalogueInv /\ [CatalogueNext]_catalogueVars =>
        [\A r \in Call \ overtaken, x \in Asset : Keeps(r, x)]_catalogueVars
  BY <1>1
<1> QED BY <1>2, CatalogueIsSound, PTL DEF CatalogueSpec, TagsKept, Keeps
-----------------------------------------------------------------------------
(***************************************************************************)
(* The tasks of the workspace.  An update remembers the status it read,    *)
(* which is the status of the task until it writes, unless two updates of  *)
(* the task overlap; each request completes a task, and announces it, once *)
(* at most.                                                                *)
(***************************************************************************)
OnTask == \A e \in Errand : errand[e].next \in {"write", "comment", "completed", "commented"} =>
                               errand[e].task \in Task

StatusSeen ==
    \A e \in Errand : errand[e].next = "write" /\ errand[e].task \in Tasks \ tangled =>
                         errand[e].seen = task[errand[e].task].status

OneAtATime ==
    \A e, f \in Errand : e # f /\ errand[e].next \in {"write", "completed"}
                           /\ errand[f].next \in {"write", "completed"}
                           /\ errand[e].task = errand[f].task => errand[e].task \in tangled

\* The requests that may still complete a task, or still announce that.
Unwritten == {e \in Errand : errand[e].next \in {"new", "write"}}
Unended == {e \in Errand : errand[e].next \notin {"over", "failed"}}
InBounds ==
    \A t \in Task : /\ turned[t] + Cardinality(Unwritten) <= Cardinality(Errand)
                    /\ announced[t] + Cardinality(Unended) <= Cardinality(Errand)

\* What the rows keep: all of TasksTypeOK but the bounds of the history.
TaskRowsOK ==
    /\ board \subseteq Board /\ page \subseteq WikiPage
    /\ task \in [Task -> TaskRow \cup {Nil}]
    /\ \A t \in Tasks : task[t].board \in board \cup {Nil}
    /\ comment \in [Comment -> Tasks \cup {Nil}]
    /\ errand \in [Errand -> ErrandRow]
    /\ turned \in [Task -> Nat] /\ announced \in [Task -> Nat]
    /\ tangled \subseteq Task

Completing(t) == {e \in Errand : errand[e].task = t /\ errand[e].next = "completed"}

TasksInv == /\ TaskRowsOK /\ OnTask /\ StatusSeen /\ OneAtATime
            /\ InBounds /\ AnnouncedExactly

-----------------------------------------------------------------------------
LEMMA ErrandSets ==
    /\ IsFiniteSet(Errand) /\ Cardinality(Errand) \in Nat
    /\ \A S \in SUBSET Errand : /\ IsFiniteSet(S) /\ Cardinality(S) \in Nat
                                /\ Cardinality(S) <= Cardinality(Errand)
    /\ \A S \in SUBSET Errand : \A e \in S :
          Cardinality(S \ {e}) \in Nat /\ Cardinality(S) = Cardinality(S \ {e}) + 1
    /\ \A S \in SUBSET Errand : \A e \in Errand \ S :
          Cardinality(S \cup {e}) = Cardinality(S) + 1
<1>1. IsFiniteSet(Errand)
  BY TasksAssumption
<1>2. \A S \in SUBSET Errand : IsFiniteSet(S) /\ Cardinality(S) <= Cardinality(Errand)
  BY <1>1, FS_Subset
<1>3. \A S \in SUBSET Errand : Cardinality(S) \in Nat
  BY <1>2, FS_CardinalityType
<1>4. ASSUME NEW S \in SUBSET Errand, NEW e \in S
      PROVE  Cardinality(S) = Cardinality(S \ {e}) + 1
  <2>1. Cardinality(S \ {e}) = Cardinality(S) - 1
    BY <1>2, FS_RemoveElement
  <2> QED BY <1>3, <2>1
<1>5. \A S \in SUBSET Errand : \A e \in Errand \ S : Cardinality(S \cup {e}) = Cardinality(S) + 1
  BY <1>2, FS_AddElement
<1> QED BY <1>1, <1>2, <1>3, <1>4, <1>5

LEMMA TasksTypeIs == TasksInv => TasksTypeOK
<1> SUFFICES ASSUME TasksInv PROVE TasksTypeOK
  OBVIOUS
<1>1. Cardinality(Unwritten) \in Nat /\ Cardinality(Unended) \in Nat /\ Cardinality(Errand) \in Nat
  BY ErrandSets DEF Unwritten, Unended
<1>2. \A t \in Task : /\ turned[t] \in 0 .. Cardinality(Errand)
                      /\ announced[t] \in 0 .. Cardinality(Errand)
  BY <1>1 DEF TasksInv, TaskRowsOK, InBounds
<1> QED BY <1>2 DEF TasksInv, TaskRowsOK, TasksTypeOK

LEMMA TasksAreRows ==
    ASSUME TaskRowsOK
    PROVE  \A t \in Task : /\ t \in Tasks <=> task[t] # Nil
                           /\ t \in Tasks <=> task[t] \in TaskRow
BY TasksAssumption DEF TaskRowsOK, Tasks

\* The requests stay as they are, and so do the statuses of the tasks there
\* were, but for one that may go.
LEMMA QuietTasks ==
    ASSUME TasksInv, TaskRowsOK', UNCHANGED <<errand, turned, announced>>,
           tangled \subseteq tangled',
           \A e \in Errand : errand[e].task \in Tasks' \ tangled' =>
               /\ errand[e].task \in Tasks
               /\ task'[errand[e].task].status = task[errand[e].task].status
    PROVE  TasksInv'
<1>1. OnTask' /\ OneAtATime'
  BY DEF TasksInv, OnTask, OneAtATime
<1>2. StatusSeen'
  BY DEF TasksInv, StatusSeen
<1>3. InBounds' /\ AnnouncedExactly'
  BY DEF TasksInv, InBounds, AnnouncedExactly, Unwritten, Unended
<1> QED BY <1>1, <1>2, <1>3 DEF TasksInv

LEMMA RowsWritten ==
    ASSUME TasksInv,
           \/ listBoards \/ listPages
           \/ \E b \in Board : createBoard(b) \/ deleteBoard(b)
           \/ \E p \in WikiPage : createPage(p) \/ deletePage(p)
           \/ \E k \in Comment : deleteTaskComment(k)
           \/ UNCHANGED taskVars
    PROVE  TasksInv'
<1>1. CASE listBoards \/ listPages
  BY <1>1, QuietTasks, TasksAssumption
     DEF TasksInv, TaskRowsOK, listBoards, listPages, history, Tasks
<1>2. CASE \E b \in Board : createBoard(b)
  BY <1>2, QuietTasks DEF TasksInv, TaskRowsOK, createBoard, history, Tasks
<1>3. CASE \E p \in WikiPage : createPage(p) \/ deletePage(p)
  BY <1>3, QuietTasks DEF TasksInv, TaskRowsOK, createPage, deletePage, history, Tasks
<1>4. CASE \E k \in Comment : deleteTaskComment(k)
  BY <1>4, QuietTasks DEF TasksInv, TaskRowsOK, deleteTaskComment, history, Tasks
<1>5. CASE UNCHANGED taskVars
  BY <1>5, QuietTasks DEF TasksInv, TaskRowsOK, taskVars, Tasks
<1>6. ASSUME NEW b \in Board, deleteBoard(b) PROVE TasksInv'
  <2>1. \A t \in Tasks : /\ task[t] \in TaskRow /\ [task[t] EXCEPT !.board = Nil] \in TaskRow
                         /\ [task[t] EXCEPT !.board = Nil].board = Nil
                         /\ [task[t] EXCEPT !.board = Nil].status = task[t].status
    BY TasksAreRows DEF TasksInv, TaskRowsOK, Tasks, TaskRow
  <2>2. \A t \in Task : task'[t] = IF t \in Tasks /\ task[t].board = b
                                   THEN [task[t] EXCEPT !.board = Nil] ELSE task[t]
    BY <1>6 DEF deleteBoard
  <2>3. \A t \in Task : \/ t \in Tasks /\ task'[t] \in TaskRow /\ task'[t].status = task[t].status
                           /\ (task'[t].board = Nil \/ (task'[t].board = task[t].board /\ task[t].board # b))
                        \/ t \notin Tasks /\ task'[t] = Nil
    BY <2>1, <2>2 DEF Tasks
  <2>4. Tasks' = Tasks
    BY <2>3, TasksAssumption DEF Tasks
  <2>5. task' \in [Task -> TaskRow \cup {Nil}]
    BY <1>6, <2>3 DEF deleteBoard
  <2>6. TaskRowsOK'
    BY <1>6, <2>3, <2>4, <2>5 DEF TasksInv, TaskRowsOK, deleteBoard, history, Tasks
  <2> QED BY <1>6, <2>3, <2>4, <2>6, QuietTasks DEF deleteBoard, history, Tasks
<1> QED BY <1>1, <1>2, <1>3, <1>4, <1>5, <1>6

LEMMA TaskIsCreated ==
    ASSUME TasksInv, NEW t \in Task, NEW row \in TaskRow, createTask(t, row)
    PROVE  TasksInv'
<1>1. /\ task' \in [Task -> TaskRow \cup {Nil}] /\ task'[t] = row
      /\ \A s \in Task \ {t} : task'[s] = task[s]
  BY DEF TasksInv, TaskRowsOK, createTask
<1>2. Tasks' = Tasks \cup {t}
  BY <1>1, TasksAssumption DEF Tasks
<1>3. TaskRowsOK'
  BY <1>1, <1>2 DEF TasksInv, TaskRowsOK, createTask, history, Tasks
<1> QED BY <1>1, <1>2, <1>3, QuietTasks DEF createTask, history, Tasks

LEMMA TaskIsDeleted ==
    ASSUME TasksInv, NEW t \in Task, deleteTask(t)
    PROVE  TasksInv'
<1>1. /\ task' \in [Task -> TaskRow \cup {Nil}] /\ task'[t] = Nil
      /\ \A s \in Task \ {t} : task'[s] = task[s]
  BY DEF TasksInv, TaskRowsOK, deleteTask
<1>2. Tasks' = Tasks \ {t}
  BY <1>1 DEF Tasks
<1>3. TaskRowsOK'
  BY <1>1, <1>2 DEF TasksInv, TaskRowsOK, deleteTask, Tasks
<1> QED BY <1>1, <1>2, <1>3, QuietTasks DEF deleteTask, Tasks
-----------------------------------------------------------------------------
(***************************************************************************)
(* The statements of a request.                                            *)
(***************************************************************************)
OnlyMoves(e) == \A f \in Errand \ {e} : errand'[f] = errand[f]

LEMMA BoundsKept ==
    ASSUME TasksInv, NEW e \in Errand, OnlyMoves(e),
           errand'[e].next \in {"new", "write"} => errand[e].next \in {"new", "write"},
           errand'[e].next \notin {"over", "failed"} => errand[e].next \notin {"over", "failed"},
           NEW s \in Task,
           \/ UNCHANGED turned
           \/ /\ turned' = [turned EXCEPT ![s] = @ + 1]
              /\ errand[e].next = "write" /\ errand'[e].next \notin {"new", "write"},
           NEW t \in Task,
           \/ UNCHANGED announced
           \/ /\ announced' = [announced EXCEPT ![t] = @ + 1]
              /\ errand[e].next = "completed" /\ errand'[e].next = "over"
    PROVE  InBounds'
<1>1. turned \in [Task -> Nat] /\ announced \in [Task -> Nat]
  BY DEF TasksInv, TaskRowsOK
<1>2. /\ Unwritten \subseteq Errand /\ Unwritten' \subseteq Errand
      /\ Unended \subseteq Errand /\ Unended' \subseteq Errand
  BY DEF Unwritten, Unended
<1>3. \/ Unwritten' = Unwritten
      \/ e \in Unwritten /\ Unwritten' = Unwritten \ {e}
  <2>1. CASE errand'[e].next \in {"new", "write"}
    BY <2>1 DEF OnlyMoves, Unwritten
  <2>2. CASE errand'[e].next \notin {"new", "write"} /\ errand[e].next \in {"new", "write"}
    BY <2>2 DEF OnlyMoves, Unwritten
  <2>3. CASE errand'[e].next \notin {"new", "write"} /\ errand[e].next \notin {"new", "write"}
    BY <2>3 DEF OnlyMoves, Unwritten
  <2> QED BY <2>1, <2>2, <2>3
<1>4. \/ Unended' = Unended
      \/ e \in Unended /\ Unended' = Unended \ {e}
  <2>1. CASE errand'[e].next \notin {"over", "failed"}
    BY <2>1 DEF OnlyMoves, Unended
  <2>2. CASE errand'[e].next \in {"over", "failed"} /\ errand[e].next \notin {"over", "failed"}
    BY <2>2 DEF OnlyMoves, Unended
  <2>3. CASE errand'[e].next \in {"over", "failed"} /\ errand[e].next \in {"over", "failed"}
    BY <2>3 DEF OnlyMoves, Unended
  <2> QED BY <2>1, <2>2, <2>3
<1>5. /\ Cardinality(Unwritten) \in Nat /\ Cardinality(Unwritten') \in Nat
      /\ Cardinality(Unended) \in Nat /\ Cardinality(Unended') \in Nat
      /\ Cardinality(Errand) \in Nat
  BY <1>2, ErrandSets
<1>6. /\ Cardinality(Unwritten') <= Cardinality(Unwritten)
      /\ Unwritten' # Unwritten => Cardinality(Unwritten) = Cardinality(Unwritten') + 1
      /\ Cardinality(Unended') <= Cardinality(Unended)
      /\ Unended' # Unended => Cardinality(Unended) = Cardinality(Unended') + 1
  BY <1>2, <1>3, <1>4, <1>5, ErrandSets
<1>7. \A x \in Task : /\ turned'[x] + Cardinality(Unwritten') <= Cardinality(Errand)
  <2>1. CASE UNCHANGED turned
    BY <1>1, <1>5, <1>6, <2>1 DEF TasksInv, InBounds
  <2>2. CASE turned' = [turned EXCEPT ![s] = @ + 1] /\ errand[e].next = "write"
               /\ errand'[e].next \notin {"new", "write"}
    <3>1. Unwritten' # Unwritten
      BY <2>2 DEF Unwritten
    <3>2. \A x \in Task : turned'[x] <= turned[x] + 1 /\ turned'[x] \in Nat
      BY <1>1, <2>2
    <3> QED BY <1>1, <1>5, <1>6, <3>1, <3>2 DEF TasksInv, InBounds
  <2> QED BY <2>1, <2>2
<1>8. \A x \in Task : /\ announced'[x] + Cardinality(Unended') <= Cardinality(Errand)
  <2>1. CASE UNCHANGED announced
    BY <1>1, <1>5, <1>6, <2>1 DEF TasksInv, InBounds
  <2>2. CASE announced' = [announced EXCEPT ![t] = @ + 1] /\ errand[e].next = "completed"
               /\ errand'[e].next = "over"
    <3>1. Unended' # Unended
      BY <2>2 DEF Unended
    <3>2. \A x \in Task : announced'[x] <= announced[x] + 1 /\ announced'[x] \in Nat
      BY <1>1, <2>2
    <3> QED BY <1>1, <1>5, <1>6, <3>1, <3>2 DEF TasksInv, InBounds
  <2> QED BY <2>1, <2>2
<1> QED BY <1>7, <1>8 DEF InBounds

LEMMA CompletingChanges ==
    ASSUME NEW e \in Errand, OnlyMoves(e), NEW t
    PROVE  /\ errand[e].next # "completed" /\ errand'[e].next # "completed" =>
                 Completing(t)' = Completing(t)
           /\ errand[e].next # "completed" /\ errand'[e].next = "completed" =>
                 /\ errand'[e].task = t => /\ Completing(t)' = Completing(t) \cup {e}
                                           /\ e \notin Completing(t)
                 /\ errand'[e].task # t => Completing(t)' = Completing(t)
           /\ errand[e].next = "completed" /\ errand'[e].next # "completed" =>
                 /\ errand[e].task = t => /\ Completing(t)' = Completing(t) \ {e}
                                          /\ e \in Completing(t)
                 /\ errand[e].task # t => Completing(t)' = Completing(t)
<1>1. CASE errand[e].next # "completed" /\ errand'[e].next # "completed"
  BY <1>1 DEF OnlyMoves, Completing
<1>2. CASE errand[e].next # "completed" /\ errand'[e].next = "completed"
  BY <1>2 DEF OnlyMoves, Completing
<1>3. CASE errand[e].next = "completed" /\ errand'[e].next # "completed"
  BY <1>3 DEF OnlyMoves, Completing
<1> QED BY <1>1, <1>2, <1>3

LEMMA Announced ==
    AnnouncedExactly <=> \A t \in Task \ tangled :
                             turned[t] = announced[t] + Cardinality(Completing(t))
BY DEF AnnouncedExactly, Completing

LEMMA AnnouncedNext ==
    AnnouncedExactly' <=> \A t \in Task \ tangled' :
                             turned'[t] = announced'[t] + Cardinality(Completing(t)')
BY DEF AnnouncedExactly, Completing

\* What becomes of a request.
MovedErrand(row, next) ==
    IF next \in {"over", "failed"} THEN [NewErrand EXCEPT !.next = next]
                                   ELSE [row EXCEPT !.next = next]

LEMMA MovesTo ==
    ASSUME TaskRowsOK, NEW e \in Errand, NEW next \in {"over", "failed", "completed", "commented"},
           Moves(e, next)
    PROVE  /\ errand' \in [Errand -> ErrandRow] /\ OnlyMoves(e)
           /\ errand'[e].next = next
           /\ next \in {"completed", "commented"} => errand'[e].task = errand[e].task
<1> DEFINE row == MovedErrand(errand[e], next)
<1>1. errand[e] \in ErrandRow /\ errand \in [Errand -> ErrandRow]
  BY DEF TaskRowsOK
<1>2. /\ row \in ErrandRow /\ row.next = next
      /\ next \in {"completed", "commented"} => row.task = errand[e].task
  <2>1. CASE next \in {"over", "failed"}
    BY <2>1 DEF MovedErrand, NewErrand, ErrandRow, UpdateWorkspaceTaskDto
  <2>2. CASE next \in {"completed", "commented"}
    BY <1>1, <2>2 DEF MovedErrand, ErrandRow
  <2> QED BY <2>1, <2>2
<1>3. errand' = [errand EXCEPT ![e] = row]
  BY DEF Moves, MovedErrand
<1> HIDE DEF row
<1> QED BY <1>1, <1>2, <1>3 DEF OnlyMoves
\* What the other requests have in hand stays right.
LEMMA HandsKept ==
    ASSUME TasksInv, NEW e \in Errand, OnlyMoves(e), errand'[e].next # "write",
           errand'[e].next = "completed" =>
              errand[e].next = "write" /\ errand'[e].task = errand[e].task,
           tangled \subseteq tangled', Tasks' = Tasks,
           \A f \in Errand \ {e} :
              errand[f].next = "write" /\ errand[f].task \in Tasks \ tangled' =>
                 task'[errand[f].task].status = task[errand[f].task].status
    PROVE  StatusSeen' /\ OneAtATime'
<1>1. StatusSeen'
  BY DEF TasksInv, StatusSeen, OnlyMoves
<1>2. ASSUME NEW f \in Errand, NEW g \in Errand, f # g,
             errand'[f].next \in {"write", "completed"},
             errand'[g].next \in {"write", "completed"}, errand'[f].task = errand'[g].task
      PROVE  errand'[f].task \in tangled'
  <2>1. /\ errand[f].next \in {"write", "completed"} /\ errand'[f].task = errand[f].task
        /\ errand[g].next \in {"write", "completed"} /\ errand'[g].task = errand[g].task
    BY <1>2 DEF OnlyMoves
  <2> QED BY <1>2, <2>1 DEF TasksInv, OneAtATime
<1> QED BY <1>1, <1>2 DEF OneAtATime

LEMMA UpdateBegins ==
    ASSUME TasksInv, NEW e \in Errand, NEW t \in Task, NEW sent \in UpdateWorkspaceTaskDto,
           updateTask(e, t, sent)
    PROVE  TasksInv'
<1> DEFINE row == [next |-> "write", task |-> t, sent |-> sent, seen |-> task[t].status]
<1>1. /\ errand[e].next = "new" /\ t \in Tasks /\ errand' = [errand EXCEPT ![e] = row]
      /\ tangled' = IF Pending(t) # {} THEN tangled \cup {t} ELSE tangled
      /\ UNCHANGED <<board, task, comment, page, turned, announced>>
  BY DEF updateTask
<1>2. task[t].status \in {"TODO", "DONE"}
  BY <1>1, TasksAreRows DEF TasksInv, TaskRow
<1>3. /\ row \in ErrandRow /\ row.next = "write" /\ row.task = t /\ row.seen = task[t].status
  BY <1>2 DEF ErrandRow
<1> HIDE DEF row
<1>4. /\ errand' \in [Errand -> ErrandRow] /\ errand'[e] = row /\ OnlyMoves(e)
  BY <1>1, <1>3 DEF TasksInv, TaskRowsOK, OnlyMoves
<1>5. tangled \subseteq tangled' /\ tangled' \subseteq Task /\ Tasks' = Tasks
  BY <1>1 DEF TasksInv, TaskRowsOK, Tasks
<1>6. TaskRowsOK'
  BY <1>1, <1>4, <1>5 DEF TasksInv, TaskRowsOK
<1>7. OnTask'
  BY <1>3, <1>4 DEF TasksInv, OnTask, OnlyMoves
<1>8. StatusSeen'
  BY <1>1, <1>3, <1>4, <1>5 DEF TasksInv, StatusSeen, OnlyMoves
<1>9. ASSUME NEW f \in Errand, NEW g \in Errand, f # g,
             errand'[f].next \in {"write", "completed"},
             errand'[g].next \in {"write", "completed"}, errand'[f].task = errand'[g].task
      PROVE  errand'[f].task \in tangled'
  <2>1. CASE f = e
    BY <1>1, <1>3, <1>4, <1>9, <2>1 DEF OnlyMoves, Pending
  <2>2. CASE g = e
    BY <1>1, <1>3, <1>4, <1>9, <2>2 DEF OnlyMoves, Pending
  <2>3. CASE f # e /\ g # e
    BY <1>4, <1>5, <1>9, <2>3 DEF TasksInv, OneAtATime, OnlyMoves
  <2> QED BY <2>1, <2>2, <2>3
<1>10. OneAtATime'
  BY <1>9 DEF OneAtATime
<1>11. InBounds'
  BY <1>1, <1>3, <1>4, BoundsKept
<1>12. \A s \in Task : Completing(s)' = Completing(s)
  BY <1>1, <1>3, <1>4, CompletingChanges
<1>13. AnnouncedExactly'
  BY <1>1, <1>5, <1>12, Announced, AnnouncedNext DEF TasksInv
<1> QED BY <1>6, <1>7, <1>8, <1>10, <1>11, <1>13 DEF TasksInv

LEMMA CommentBegins ==
    ASSUME TasksInv, NEW e \in Errand, NEW t \in Task, createTaskComment(e, t)
    PROVE  TasksInv'
<1> DEFINE row == [errand[e] EXCEPT !.next = "comment", !.task = t]
<1>1. /\ errand[e].next = "new" /\ errand[e] \in ErrandRow
      /\ errand \in [Errand -> ErrandRow]
      /\ UNCHANGED <<board, task, comment, page, turned, announced, tangled>>
  BY DEF createTaskComment, TasksInv, TaskRowsOK, history
<1>2. errand' = [errand EXCEPT ![e] = row]
  BY <1>1 DEF createTaskComment, ErrandRow
<1>3. row \in ErrandRow /\ row.next = "comment" /\ row.task = t
  BY <1>1 DEF ErrandRow
<1> HIDE DEF row
<1>4. errand' \in [Errand -> ErrandRow] /\ errand'[e] = row /\ OnlyMoves(e)
  BY <1>1, <1>2, <1>3 DEF OnlyMoves
<1>5. Tasks' = Tasks
  BY <1>1 DEF Tasks
<1>6. TaskRowsOK'
  BY <1>1, <1>4, <1>5 DEF TasksInv, TaskRowsOK
<1>7. OnTask'
  BY <1>3, <1>4 DEF TasksInv, OnTask, OnlyMoves
<1>8. StatusSeen' /\ OneAtATime'
  BY <1>1, <1>3, <1>4, <1>5, HandsKept
<1>9. InBounds'
  BY <1>1, <1>3, <1>4, BoundsKept
<1>10. \A s \in Task : Completing(s)' = Completing(s)
  BY <1>1, <1>3, <1>4, CompletingChanges
<1>11. AnnouncedExactly'
  BY <1>1, <1>10, Announced, AnnouncedNext DEF TasksInv
<1> QED BY <1>6, <1>7, <1>8, <1>9, <1>11 DEF TasksInv

\* A comment is inserted, or its task has gone.
LEMMA CommentIsInserted ==
    ASSUME TasksInv, NEW e \in Errand, InsertComment(e)
    PROVE  TasksInv'
<1>1. /\ errand[e].next = "comment"
      /\ UNCHANGED <<board, task, page, turned, announced, tangled>>
      /\ TaskRowsOK
  BY DEF InsertComment, history, TasksInv
<1>2. PICK next \in {"failed", "commented"} : Moves(e, next)
  BY DEF InsertComment
<1>3. /\ errand' \in [Errand -> ErrandRow] /\ OnlyMoves(e)
      /\ errand'[e].next = next
      /\ next = "commented" => errand'[e].task = errand[e].task
  BY <1>1, <1>2, MovesTo
<1>4. Tasks' = Tasks
  BY <1>1 DEF Tasks
<1>5. comment' \in [Comment -> Tasks \cup {Nil}]
  BY <1>1 DEF InsertComment, TaskRowsOK
<1>6. TaskRowsOK'
  BY <1>1, <1>3, <1>4, <1>5 DEF TaskRowsOK
<1>7. OnTask'
  BY <1>1, <1>3 DEF TasksInv, OnTask, OnlyMoves
<1>8. StatusSeen' /\ OneAtATime'
  BY <1>1, <1>3, <1>4, HandsKept
<1>9. InBounds'
  <2>1. \E t \in Task : TRUE
    BY <1>1 DEF TasksInv, OnTask
  <2> QED BY <1>1, <1>3, <2>1, BoundsKept
<1>10. \A s \in Task : Completing(s)' = Completing(s)
  BY <1>1, <1>3, CompletingChanges
<1>11. AnnouncedExactly'
  BY <1>1, <1>10, Announced, AnnouncedNext DEF TasksInv
<1> QED BY <1>6, <1>7, <1>8, <1>9, <1>11 DEF TasksInv

\* A completion, or a comment, is posted.
LEMMA ActivityIsPosted ==
    ASSUME TasksInv, NEW e \in Errand, Announce(e)
    PROVE  TasksInv'
<1> DEFINE t == errand[e].task
<1>1. /\ errand[e].next \in {"completed", "commented"} /\ Moves(e, "over")
      /\ UNCHANGED <<board, task, comment, page, turned, tangled>>
      /\ announced' = IF errand[e].next = "completed"
                      THEN [announced EXCEPT ![t] = @ + 1] ELSE announced
      /\ TaskRowsOK /\ t \in Task
  BY DEF Announce, TasksInv, OnTask
<1>2. errand' \in [Errand -> ErrandRow] /\ OnlyMoves(e) /\ errand'[e].next = "over"
  BY <1>1, MovesTo
<1>3. Tasks' = Tasks
  BY <1>1 DEF Tasks
<1>4. announced' \in [Task -> Nat]
  BY <1>1 DEF TaskRowsOK
<1>5. TaskRowsOK'
  BY <1>1, <1>2, <1>3, <1>4 DEF TaskRowsOK
<1>6. OnTask'
  BY <1>2 DEF TasksInv, OnTask, OnlyMoves
<1>7. StatusSeen' /\ OneAtATime'
  BY <1>1, <1>2, <1>3, HandsKept
<1>8. InBounds'
  BY <1>1, <1>2, BoundsKept
<1>9. AnnouncedExactly'
  <2>1. CASE errand[e].next = "commented"
    <3>1. \A s \in Task : Completing(s)' = Completing(s)
      BY <1>2, <2>1, CompletingChanges
    <3> QED BY <1>1, <2>1, <3>1, Announced, AnnouncedNext DEF TasksInv
  <2>2. CASE errand[e].next = "completed"
    <3>1. ASSUME NEW s \in Task \ tangled
          PROVE  turned'[s] = announced'[s] + Cardinality(Completing(s)')
      <4>1. /\ turned[s] = announced[s] + Cardinality(Completing(s))
            /\ turned'[s] = turned[s] /\ announced[s] \in Nat
        BY <1>1, Announced DEF TasksInv, TaskRowsOK
      <4>2. Completing(s) \in SUBSET Errand
        BY DEF Completing
      <4>3. CASE s = t
        <5>1. Completing(s)' = Completing(s) \ {e} /\ e \in Completing(s)
          BY <1>2, <2>2, <4>3, CompletingChanges
        <5>2. /\ Cardinality(Completing(s)) = Cardinality(Completing(s)') + 1
              /\ Cardinality(Completing(s)') \in Nat
          BY <4>2, <5>1, ErrandSets
        <5>3. announced'[s] = announced[s] + 1
          BY <1>1, <2>2, <4>3 DEF TaskRowsOK
        <5> QED BY <4>1, <5>2, <5>3
      <4>4. CASE s # t
        <5>1. Completing(s)' = Completing(s)
          BY <1>2, <2>2, <4>4, CompletingChanges
        <5>2. announced'[s] = announced[s]
          BY <1>1, <2>2, <4>4 DEF TaskRowsOK
        <5> QED BY <4>1, <5>1, <5>2
      <4> QED BY <4>3, <4>4
    <3> QED BY <1>1, <3>1, AnnouncedNext
  <2> QED BY <1>1, <2>1, <2>2
<1> QED BY <1>5, <1>6, <1>7, <1>8, <1>9 DEF TasksInv
\* The task, or the board that was sent, has gone: nothing is written.
LEMMA UpdateFails ==
    ASSUME TasksInv, NEW e \in Errand, errand[e].next = "write",
           NEW next \in {"over", "failed"}, Moves(e, next),
           UNCHANGED <<board, task, comment, page, turned, announced, tangled>>
    PROVE  TasksInv'
<1>1. /\ errand' \in [Errand -> ErrandRow] /\ OnlyMoves(e) /\ errand'[e].next = next
      /\ TaskRowsOK /\ errand[e].task \in Task
  BY MovesTo DEF TasksInv, OnTask
<1>2. Tasks' = Tasks
  BY DEF Tasks
<1>3. TaskRowsOK'
  BY <1>1, <1>2 DEF TaskRowsOK
<1>4. OnTask'
  BY <1>1 DEF TasksInv, OnTask, OnlyMoves
<1>5. StatusSeen' /\ OneAtATime'
  BY <1>1, <1>2, HandsKept
<1>6. InBounds'
  BY <1>1, BoundsKept
<1>7. \A s \in Task : Completing(s)' = Completing(s)
  BY <1>1, CompletingChanges
<1>8. AnnouncedExactly'
  BY <1>7, Announced, AnnouncedNext DEF TasksInv
<1> QED BY <1>3, <1>4, <1>5, <1>6, <1>8 DEF TasksInv

\* The update: a request that makes the task DONE is the one that found it
\* otherwise, and it announces that next.
LEMMA UpdateSucceeds ==
    ASSUME TasksInv, NEW e \in Errand, WriteTask(e),
           errand[e].task \in Tasks, errand[e].sent.board \in board \cup {Nil, Unset}
    PROVE  TasksInv'
<1> DEFINE t == errand[e].task
           sent == errand[e].sent
           row == UpdatedTask(task[t], sent)
           next == IF Completes(e) THEN "completed" ELSE "over"
           turns == task[t].status # "DONE" /\ row.status = "DONE"
<1>1. /\ errand[e].next = "write" /\ Moves(e, next) /\ next \in {"completed", "over"}
      /\ task' = [task EXCEPT ![t] = row]
      /\ tangled' = IF sent.status = " DONE " THEN tangled \cup {t} ELSE tangled
      /\ UNCHANGED <<board, comment, page, announced>>
  BY DEF WriteTask
<1>2. /\ TaskRowsOK /\ t \in Task /\ errand[e] \in ErrandRow
      /\ sent \in UpdateWorkspaceTaskDto /\ task \in [Task -> TaskRow \cup {Nil}]
      /\ t \in Tasks /\ task[t] \in TaskRow /\ task[t].board \in board \cup {Nil}
      /\ board \subseteq Board /\ turned \in [Task -> Nat]
  BY TasksAreRows DEF TasksInv, TaskRowsOK, Tasks, ErrandRow
<1>3. /\ row \in TaskRow /\ row.board \in board \cup {Nil}
      /\ row.status = IF sent.status = Nil THEN task[t].status ELSE Trimmed(sent.status)
  BY <1>2 DEF UpdatedTask, TaskRow, UpdateWorkspaceTaskDto, SentStatus, Trimmed
<1>4. /\ task' \in [Task -> TaskRow \cup {Nil}] /\ task'[t] = row
      /\ \A s \in Task \ {t} : task'[s] = task[s]
  BY <1>1, <1>2, <1>3
<1>5. turned' = IF turns THEN [turned EXCEPT ![t] = @ + 1] ELSE turned
  BY <1>4 DEF WriteTask
<1>6. Completes(e) <=> next = "completed"
  OBVIOUS
<1> HIDE DEF row, next
<1>7. /\ errand' \in [Errand -> ErrandRow] /\ OnlyMoves(e) /\ errand'[e].next = next
      /\ next = "completed" => errand'[e].task = t
  BY <1>1, <1>2, MovesTo
<1>8. Tasks' = Tasks
  BY <1>2, <1>3, <1>4, TasksAssumption DEF Tasks
<1>9. tangled \subseteq tangled' /\ tangled' \subseteq Task
  BY <1>1, <1>2 DEF TaskRowsOK
<1>10. turned' \in [Task -> Nat]
  BY <1>2, <1>5
<1>11. TaskRowsOK'
  BY <1>1, <1>2, <1>3, <1>4, <1>7, <1>8, <1>9, <1>10 DEF TaskRowsOK, Tasks
<1>12. OnTask'
  BY <1>1, <1>2, <1>7 DEF TasksInv, OnTask, OnlyMoves
<1>13. StatusSeen' /\ OneAtATime'
  <2>1. ASSUME NEW f \in Errand \ {e}, errand[f].next = "write",
               errand[f].task \in Tasks \ tangled'
        PROVE  task'[errand[f].task].status = task[errand[f].task].status
    <3>1. errand[f].task # t
      BY <1>1, <1>9, <2>1 DEF TasksInv, OneAtATime
    <3> QED BY <1>4, <2>1, <3>1 DEF Tasks
  <2> QED BY <1>1, <1>7, <1>8, <1>9, <2>1, HandsKept
<1>14. InBounds'
  BY <1>1, <1>2, <1>5, <1>7, BoundsKept
<1>15. t \notin tangled' => (turns <=> Completes(e))
  <2>1. t \notin tangled' => errand[e].seen = task[t].status
    BY <1>1, <1>2, <1>9 DEF TasksInv, StatusSeen
  <2>2. sent.status # " DONE " /\ sent.status # Nil => row.status = sent.status
    BY <1>3 DEF Trimmed
  <2>3. Nil # "DONE"
    BY TasksAssumption DEF SentStatus
  <2> QED BY <1>1, <1>2, <1>3, <2>1, <2>2, <2>3 DEF Completes
<1>16. ASSUME NEW s \in Task \ tangled'
       PROVE  turned'[s] = announced'[s] + Cardinality(Completing(s)')
  <2>1. /\ turned[s] = announced[s] + Cardinality(Completing(s))
        /\ announced'[s] = announced[s] /\ announced[s] \in Nat /\ turned[s] \in Nat
    BY <1>1, <1>2, <1>9, Announced DEF TasksInv, TaskRowsOK
  <2>2. Completing(s) \in SUBSET Errand /\ Cardinality(Completing(s)) \in Nat
    BY ErrandSets DEF Completing
  <2>3. CASE s = t /\ Completes(e)
    <3>1. Completing(s)' = Completing(s) \cup {e} /\ e \notin Completing(s)
      BY <1>1, <1>6, <1>7, <2>3, CompletingChanges
    <3>2. Cardinality(Completing(s)') = Cardinality(Completing(s)) + 1
      BY <2>2, <3>1, ErrandSets
    <3>3. turned'[s] = turned[s] + 1
      BY <1>2, <1>5, <1>15, <1>16, <2>3
    <3> QED BY <2>1, <2>2, <3>2, <3>3
  <2>4. CASE s # t \/ ~Completes(e)
    <3>1. Completing(s)' = Completing(s)
      BY <1>1, <1>6, <1>7, <2>4, CompletingChanges
    <3>2. turned'[s] = turned[s]
      BY <1>2, <1>5, <1>15, <1>16, <2>4
    <3> QED BY <2>1, <3>1, <3>2
  <2> QED BY <2>3, <2>4
<1>17. AnnouncedExactly'
  BY <1>16, AnnouncedNext
<1> QED BY <1>11, <1>12, <1>13, <1>14, <1>17 DEF TasksInv

LEMMA TaskIsUpdated ==
    ASSUME TasksInv, NEW e \in Errand, WriteTask(e)
    PROVE  TasksInv'
<1>1. CASE /\ errand[e].task \in Tasks
           /\ errand[e].sent.board \in board \cup {Nil, Unset}
  BY <1>1, UpdateSucceeds
<1>2. CASE ~(/\ errand[e].task \in Tasks
             /\ errand[e].sent.board \in board \cup {Nil, Unset})
  <2>1. \E next \in {"over", "failed"} : Moves(e, next)
    BY <1>2 DEF WriteTask
  <2> QED BY <1>2, <2>1, UpdateFails DEF WriteTask
<1> QED BY <1>1, <1>2

-----------------------------------------------------------------------------
LEMMA TasksInitIsOK == TasksInit => TasksInv
<1> SUFFICES ASSUME TasksInit PROVE TasksInv
  OBVIOUS
<1>1. NewErrand \in ErrandRow /\ NewErrand.next = "new"
  BY DEF NewErrand, ErrandRow, UpdateWorkspaceTaskDto
<1>2. Tasks = {} /\ \A e \in Errand : errand[e] = NewErrand
  BY DEF TasksInit, Tasks
<1>3. TaskRowsOK
  BY <1>1, <1>2 DEF TasksInit, TaskRowsOK
<1>4. OnTask /\ StatusSeen /\ OneAtATime
  BY <1>1, <1>2 DEF OnTask, StatusSeen, OneAtATime
<1>5. InBounds
  <2>1. Unwritten = Errand /\ Unended = Errand
    BY <1>1, <1>2 DEF Unwritten, Unended
  <2> QED BY <2>1, ErrandSets DEF TasksInit, InBounds
<1>6. AnnouncedExactly
  <2>1. \A t \in Task : Completing(t) = {}
    BY <1>1, <1>2 DEF Completing
  <2> QED BY <2>1, FS_EmptySet, Announced DEF TasksInit
<1> QED BY <1>3, <1>4, <1>5, <1>6 DEF TasksInv

LEMMA TasksNextIsOK == TasksInv /\ [TasksNext]_taskVars => TasksInv'
BY RowsWritten, TaskIsCreated, TaskIsDeleted, UpdateBegins, CommentBegins, TaskIsUpdated,
   CommentIsInserted, ActivityIsPosted
DEF TasksNext

(***************************************************************************)
(* The inductive invariant of the tasks, for any boards, tasks, comments,  *)
(* pages and requests: an update that overlaps no other writes over the    *)
(* status it read.                                                         *)
(***************************************************************************)
THEOREM TasksAreSound == TasksSpec => []TasksInv
BY TasksInitIsOK, TasksNextIsOK, PTL DEF TasksSpec

(***************************************************************************)
(* Each update that makes a task DONE is announced once, and nothing else  *)
(* is: updateTask announces what it found undone and wrote as done, which  *)
(* is what happened to the row as long as updates of it do not overlap.    *)
(***************************************************************************)
THEOREM CompletionsAreAnnounced == TasksSpec => []AnnouncedExactly
BY TasksAreSound, PTL DEF TasksInv
-----------------------------------------------------------------------------
(***************************************************************************)
(* What a request has in hand, by the statement it is about to make.       *)
(***************************************************************************)
InHand(v) ==
    /\ visit[v].next \in {"find", "insert", "reread"} =>
          /\ visit[v].errand \in {"seed", "post"}
          /\ visit[v].errand = "post" => visit[v].name = "activity"
    /\ visit[v].next \in {"look", "welcome"} => visit[v].errand = "seed"
    /\ visit[v].next = "welcome" => At(v) \in Channel
    /\ visit[v].next = "append" => visit[v].errand = "post" /\ visit[v].at \in Channel
    /\ visit[v].next = "name" => visit[v].errand = "create" /\ visit[v].slug \in Slug

\* The default channels are of the type that keeps them, or made by hand.
ActivityKind ==
    \A c \in Channel : channel[c] # Absent /\ channel[c].slug = <<"activity", 1>>
                         /\ c \notin byHand => channel[c].type = "SYSTEM"

Holds(v) ==
    visit[v].next = "append" /\ visit[v].at \notin byHand =>
        channel[visit[v].at] # Absent /\ channel[visit[v].at].type = "SYSTEM"

RequestsOverlap ==
    \A u, v \in Visit : u # v /\ u \in Running /\ v \in Running => u \in clouded

\* A seeding request that nobody came across has the defaults it found.
Seeding(v) ==
    v \in Running \ clouded /\ visit[v].errand = "seed" =>
      /\ visit[v].next \in {"find", "insert", "reread"} /\ visit[v].name = "activity" =>
            visit[v].general \in Named("general")
      /\ visit[v].next = "reread" => Named(visit[v].name) # {}
      /\ visit[v].next \in {"look", "welcome"} =>
            /\ visit[v].general \in Named("general") /\ visit[v].at \in Named("activity")
            /\ visit[v].name = "activity" => Welcomes(visit[v].general) # {}

\* As long as no request was disturbed, a channel is welcomed once.
OneWelcome == \A c \in Channel : \A m, n \in Welcomes(c) : m = n
NotYetWelcomed(v) == visit[v].next = "welcome" => Welcomes(At(v)) = {}

ChannelsInv ==
    /\ ChannelsTypeOK /\ ActivityKind /\ RequestsOverlap
    /\ \A v \in Visit : InHand(v) /\ Holds(v) /\ Seeding(v)
    /\ clouded = {} => OneWelcome /\ \A v \in Visit : NotYetWelcomed(v)
-----------------------------------------------------------------------------
\* There is a free suffix: the taken ones are slugs of different channels.
LEMMA SlugIsFree ==
    ASSUME ChannelsTypeOK, NEW name \in DefaultSlug
    PROVE  \E n \in 1 .. Cardinality(Channel) + 1 : Free(<<name, n>>)
<1> SUFFICES ASSUME \A n \in 1 .. Cardinality(Channel) + 1 : ~Free(<<name, n>>)
             PROVE  FALSE
  OBVIOUS
<1> DEFINE S == 1 .. Cardinality(Channel) + 1
           Has(n, c) == channel[c] # Absent /\ channel[c].slug = <<name, n>>
           f == [n \in S |-> CHOOSE c \in Channel : Has(n, c)]
<1>1. IsFiniteSet(Channel) /\ Cardinality(Channel) \in Nat
  BY ChannelsAssumption, FS_CardinalityType
<1>2. IsFiniteSet(S) /\ Cardinality(S) = Cardinality(Channel) + 1
  BY <1>1, FS_Interval
<1>3. \A n \in S : \E c \in Channel : Has(n, c)
  BY DEF Free, Slugs
<1>4. \A n \in S : f[n] \in Channel /\ Has(n, f[n])
  BY <1>3
<1>5. f \in [S -> Channel]
  BY <1>4
<1>6. \E m, n \in S : m # n /\ f[m] = f[n]
  <2> HIDE DEF S, f
  <2> QED BY <1>1, <1>2, <1>5, FS_PigeonHole
<1>7. PICK m \in S, n \in S : m # n /\ f[m] = f[n]
  BY <1>6
<1>8. Has(m, f[m]) /\ Has(n, f[n])
  BY <1>4
<1> QED
  <2> HIDE DEF f, S
  <2> QED BY <1>7, <1>8

LEMMA UniqueSlugIsSlug ==
    ASSUME ChannelsTypeOK, NEW name \in DefaultSlug
    PROVE  UniqueSlug(name) \in Slug
<1> DEFINE S == 1 .. Cardinality(Channel) + 1
           T == {n \in S : Free(<<name, n>>)}
           First(n) == Free(<<name, n>>) /\ \A k \in 1 .. n - 1 : ~Free(<<name, k>>)
<1>1. IsFiniteSet(Channel) /\ Cardinality(Channel) \in Nat
  BY ChannelsAssumption, FS_CardinalityType
<1>2. T # {} /\ T \subseteq S /\ S \subseteq Nat
  <2>1. \E n \in S : Free(<<name, n>>)
    BY SlugIsFree
  <2>2. S \subseteq Nat
    BY <1>1
  <2> QED BY <2>1, <2>2
<1> DEFINE Less == OpToRel(<, Nat)
<1>3. \A k, m \in Nat : k < m => <<k, m>> \in Less
  BY DEF OpToRel
<1>4. IsWellFoundedOn(Less, Nat)
  BY NatLessThanWellFounded, Zenon
<1> HIDE DEF Less
<1>5. PICK n \in T : \A k \in T : <<k, n>> \notin Less
  <2> HIDE DEF T, S
  <2>1. T \subseteq Nat /\ T # {}
    BY <1>2
  <2> QED BY <1>4, <2>1, WFMin
<1>6. \A k \in T : ~(k < n)
  BY <1>2, <1>3, <1>5
<1>7. n \in S /\ Free(<<name, n>>)
  OBVIOUS
<1>8. \A k \in 1 .. n - 1 : k \in S /\ k < n
  BY <1>1, <1>7
<1>9. \A k \in 1 .. n - 1 : ~Free(<<name, k>>)
  BY <1>6, <1>8
<1>10. First(n)
  BY <1>7, <1>9
<1> DEFINE least == CHOOSE k \in S : First(k)
<1>11. least \in S
  <2> HIDE DEF S, First
  <2> QED BY <1>7, <1>10
<1>12. UniqueSlug(name) = <<name, least>>
  BY DEF UniqueSlug
<1> HIDE DEF least, First, T
<1> QED BY <1>11, <1>12 DEF Slug

-----------------------------------------------------------------------------
(***************************************************************************)
(* The step of one request.                                                *)
(***************************************************************************)
Others(v) == \A u \in Visit \ {v} : visit'[u] = visit[u]

LEMMA TurnsTo ==
    ASSUME visit \in [Visit -> VisitRow], NEW v \in Visit, NEW row \in VisitRow, Turns(v, row)
    PROVE  visit' \in [Visit -> VisitRow] /\ visit'[v] = row /\ Others(v)
BY DEF Turns, Others

LEMMA GoesTo ==
    ASSUME visit \in [Visit -> VisitRow], NEW v \in Visit,
           NEW next \in {"new", "find", "insert", "reread", "look", "welcome",
                         "append", "name", "over", "failed"}, Goes(v, next)
    PROVE  /\ visit' \in [Visit -> VisitRow] /\ Others(v)
           /\ visit'[v].next = next /\ visit'[v].errand = visit[v].errand
           /\ visit'[v].name = visit[v].name /\ visit'[v].slug = visit[v].slug
           /\ visit'[v].general = visit[v].general /\ visit'[v].at = visit[v].at
<1>1. visit[v] \in VisitRow /\ visit' = [visit EXCEPT ![v] = [visit[v] EXCEPT !.next = next]]
  BY DEF Goes
<1>2. [visit[v] EXCEPT !.next = next] \in VisitRow
  BY <1>1 DEF VisitRow
<1> QED BY <1>1, <1>2 DEF Others, VisitRow

LEMMA HoldingIs ==
    ASSUME visit \in [Visit -> VisitRow], NEW v \in Visit, NEW c \in Channel \cup {Absent},
           visit[v].errand = "post" => visit[v].name = "activity"
    PROVE  /\ Holding(v, c) \in VisitRow /\ Holding(v, c).errand = visit[v].errand
           /\ visit[v].errand = "post" =>
                 Holding(v, c).next = "append" /\ Holding(v, c).at = c
           /\ visit[v].errand # "post" /\ visit[v].name = "general" =>
                 /\ Holding(v, c).next = "find" /\ Holding(v, c).name = "activity"
                 /\ Holding(v, c).general = c
           /\ visit[v].errand # "post" /\ visit[v].name # "general" =>
                 /\ Holding(v, c).next = "look" /\ Holding(v, c).name = "general"
                 /\ Holding(v, c).general = visit[v].general /\ Holding(v, c).at = c
<1>1. visit[v] \in VisitRow
  OBVIOUS
<1>2. CASE visit[v].errand = "post"
  <2>1. Holding(v, c) = [visit[v] EXCEPT !.at = c, !.next = "append"]
    BY <1>2 DEF Holding
  <2> QED BY <1>1, <1>2, <2>1 DEF VisitRow
<1>3. CASE visit[v].errand # "post" /\ visit[v].name = "general"
  <2>1. Holding(v, c) = [visit[v] EXCEPT !.general = c, !.name = "activity", !.next = "find"]
    BY <1>3 DEF Holding
  <2> QED BY <1>1, <1>3, <2>1 DEF VisitRow, DefaultSlug
<1>4. CASE visit[v].errand # "post" /\ visit[v].name # "general"
  <2>1. Holding(v, c) = [visit[v] EXCEPT !.at = c, !.name = "general", !.next = "look"]
    BY <1>4 DEF Holding
  <2> QED BY <1>1, <1>4, <2>1 DEF VisitRow, DefaultSlug
<1> QED BY <1>2, <1>3, <1>4

LEMMA AfterWelcomeIs ==
    ASSUME visit \in [Visit -> VisitRow], NEW v \in Visit
    PROVE  /\ AfterWelcome(v) \in VisitRow /\ AfterWelcome(v).errand = visit[v].errand
           /\ AfterWelcome(v).general = visit[v].general /\ AfterWelcome(v).at = visit[v].at
           /\ visit[v].name = "general" =>
                 AfterWelcome(v).next = "look" /\ AfterWelcome(v).name = "activity"
           /\ visit[v].name # "general" => AfterWelcome(v).next = "over"
<1>1. visit[v] \in VisitRow
  OBVIOUS
<1>2. CASE visit[v].name = "general"
  BY <1>1, <1>2 DEF AfterWelcome, VisitRow, DefaultSlug
<1>3. CASE visit[v].name # "general"
  BY <1>1, <1>3 DEF AfterWelcome, VisitRow
<1> QED BY <1>2, <1>3

\* Whoever was running when this request took its step has been overlapped.
LEMMA OverlapIsSeen ==
    ASSUME ChannelsInv, NEW v \in Visit, Others(v), clouded' = clouded \cup Crowd',
           visit[v].next \notin {"over", "failed"},
           visit[v].next = "new" => v \in Running'
    PROVE  /\ RequestsOverlap' /\ clouded \subseteq clouded'
           /\ \A u \in Visit \ {v} : u \in Running => u \in clouded'
<1>1. RequestsOverlap'
  BY DEF RequestsOverlap, Crowd
<1>2. ASSUME NEW u \in Visit \ {v}, u \in Running PROVE u \in clouded'
  <2>1. u \in Running'
    BY <1>2 DEF Running, Others
  <2>2. CASE visit[v].next = "new"
    BY <2>1, <2>2 DEF Crowd
  <2>3. CASE visit[v].next # "new"
    <3>1. v \in Running
      BY <2>3 DEF Running
    <3> QED BY <1>2, <3>1 DEF ChannelsInv, RequestsOverlap
  <2> QED BY <2>2, <2>3
<1> QED BY <1>1, <1>2

\* What is left to show of a step of one request: what it has in hand.
LEMMA RequestSteps ==
    ASSUME ChannelsInv, NEW v \in Visit, Others(v), clouded' = clouded \cup Crowd',
           visit[v].next \notin {"over", "failed"},
           visit[v].next = "new" => v \in Running',
           ChannelsTypeOK', ActivityKind', byHand \subseteq byHand',
           \A c \in Channel : channel[c] # Absent => channel'[c] = channel[c],
           InHand(v)', Holds(v)', Seeding(v)',
           clouded = {} => OneWelcome' /\ NotYetWelcomed(v)'
    PROVE  ChannelsInv'
<1>1. /\ RequestsOverlap' /\ clouded \subseteq clouded'
      /\ \A u \in Visit \ {v} : u \in Running => u \in clouded'
  BY OverlapIsSeen
<1>2. ASSUME NEW u \in Visit \ {v} PROVE InHand(u)' /\ Holds(u)' /\ Seeding(u)'
  <2>1. visit'[u] = visit[u] /\ (u \in Running' <=> u \in Running)
    BY DEF Others, Running
  <2>2. InHand(u)'
    BY <2>1 DEF ChannelsInv, InHand, At
  <2>3. Holds(u)'
    BY <2>1 DEF ChannelsInv, Holds, InHand
  <2>4. Seeding(u)'
    BY <1>1, <2>1 DEF Seeding
  <2> QED BY <2>2, <2>3, <2>4
<1>3. ASSUME clouded' = {}, NEW u \in Visit PROVE OneWelcome' /\ NotYetWelcomed(u)'
  <2>1. clouded = {}
    BY <1>1, <1>3
  <2>2. CASE u = v
    BY <2>1, <2>2
  <2>3. CASE u # v
    <3>1. u \notin Running /\ visit'[u] = visit[u]
      BY <1>1, <1>3, <2>3 DEF Others
    <3>2. visit'[u].next # "welcome"
      BY <3>1 DEF Running
    <3> QED BY <2>1, <3>2 DEF NotYetWelcomed
  <2> QED BY <2>2, <2>3
<1>4. clouded' = {} => OneWelcome' /\ \A u \in Visit : NotYetWelcomed(u)'
  BY <1>3
<1>5. \A u \in Visit : InHand(u)' /\ Holds(u)' /\ Seeding(u)'
  BY <1>2
<1> QED BY <1>1, <1>4, <1>5 DEF ChannelsInv

\* A request takes a statement that writes no row.
LEMMA RequestReads ==
    ASSUME ChannelsInv, NEW v \in Visit, Others(v), clouded' = clouded \cup Crowd',
           visit[v].next \notin {"over", "failed"},
           visit[v].next = "new" => v \in Running',
           visit' \in [Visit -> VisitRow], UNCHANGED <<channel, message, byHand>>,
           InHand(v)', Holds(v)', Seeding(v)',
           visit'[v].next = "welcome" => Welcomes(At(v)') = {}
    PROVE  ChannelsInv'
<1>1. ChannelsTypeOK'
  <2>1. clouded' \subseteq Visit
    BY DEF ChannelsInv, ChannelsTypeOK, Crowd, Running
  <2> QED BY <2>1 DEF ChannelsInv, ChannelsTypeOK
<1>2. ActivityKind'
  BY DEF ChannelsInv, ActivityKind
<1>3. \A c : Welcomes(c)' = Welcomes(c)
  BY DEF Welcomes
<1>4. clouded = {} => OneWelcome' /\ NotYetWelcomed(v)'
  <2>1. Welcomes(At(v))' = Welcomes(At(v)')
    BY DEF Welcomes
  <2> QED BY <1>3, <2>1 DEF ChannelsInv, OneWelcome, NotYetWelcomed
<1> QED BY <1>1, <1>2, <1>4, RequestSteps

LEMMA RequestBegins ==
    ASSUME ChannelsInv, NEW v \in Visit, clouded' = clouded \cup Crowd', UNCHANGED byHand,
           \/ ensureDefaultsForOrganization(v) \/ postActivity(v)
           \/ \E name \in DefaultSlug : createChannel(v, name)
    PROVE  ChannelsInv'
<1>1. visit \in [Visit -> VisitRow] /\ visit[v] \in VisitRow
  BY DEF ChannelsInv, ChannelsTypeOK
<1>2. ASSUME NEW kind \in {"seed", "post"}, NEW name \in DefaultSlug,
             kind = "post" <=> name = "activity", Begin(v, kind, name, "find")
      PROVE  ChannelsInv'
  <2> DEFINE row == [visit[v] EXCEPT !.errand = kind, !.name = name, !.next = "find"]
  <2>1. row \in VisitRow /\ row.next = "find" /\ row.errand = kind /\ row.name = name
    BY <1>1 DEF VisitRow
  <2>2. Turns(v, row) /\ visit[v].next = "new" /\ UNCHANGED <<channel, message>>
    BY <1>2 DEF Begin
  <2> HIDE DEF row
  <2>3. visit' \in [Visit -> VisitRow] /\ visit'[v] = row /\ Others(v)
    BY <1>1, <2>1, <2>2, TurnsTo
  <2>4. v \in Running'
    BY <2>1, <2>3 DEF Running
  <2>5. InHand(v)' /\ Holds(v)' /\ Seeding(v)'
    BY <1>2, <2>1, <2>3 DEF InHand, Holds, Seeding
  <2> QED BY <2>1, <2>2, <2>3, <2>4, <2>5, RequestReads
<1>3. ASSUME NEW name \in DefaultSlug, createChannel(v, name)
      PROVE  ChannelsInv'
  <2> DEFINE slug == UniqueSlug(name)
             row == [visit[v] EXCEPT !.errand = "create", !.name = name, !.next = "name",
                                     !.slug = slug]
  <2>1. slug \in Slug
    BY UniqueSlugIsSlug DEF ChannelsInv
  <2>2. Turns(v, row) /\ visit[v].next = "new" /\ UNCHANGED <<channel, message>>
    BY <1>3 DEF createChannel
  <2> HIDE DEF slug
  <2>3. row \in VisitRow /\ row.next = "name" /\ row.errand = "create" /\ row.slug \in Slug
    BY <1>1, <2>1 DEF VisitRow
  <2> HIDE DEF row
  <2>4. visit' \in [Visit -> VisitRow] /\ visit'[v] = row /\ Others(v)
    BY <1>1, <2>2, <2>3, TurnsTo
  <2>5. v \in Running'
    BY <2>3, <2>4 DEF Running
  <2>6. Slug' = Slug
    BY DEF Slug
  <2>7. InHand(v)' /\ Holds(v)' /\ Seeding(v)'
    BY <2>3, <2>4, <2>6 DEF InHand, Holds, Seeding
  <2> QED BY <2>2, <2>3, <2>4, <2>5, <2>7, RequestReads
<1>4. \A name \in DefaultSlug : createChannel(v, name) => ChannelsInv'
  BY <1>3
<1>5. ensureDefaultsForOrganization(v) => ChannelsInv'
  BY <1>2 DEF ensureDefaultsForOrganization, DefaultSlug
<1>6. postActivity(v) => ChannelsInv'
  BY <1>2 DEF postActivity, DefaultSlug
<1> QED BY <1>4, <1>5, <1>6

\* The request ends without the row it was after.
LEMMA RequestEnds ==
    ASSUME ChannelsInv, NEW v \in Visit, clouded' = clouded \cup Crowd',
           UNCHANGED <<channel, message, byHand>>, v \in Running, Goes(v, "failed")
    PROVE  ChannelsInv'
<1>1. visit' \in [Visit -> VisitRow] /\ Others(v) /\ visit'[v].next = "failed"
  BY GoesTo DEF ChannelsInv, ChannelsTypeOK
<1>2. InHand(v)' /\ Holds(v)' /\ Seeding(v)'
  BY <1>1 DEF InHand, Holds, Seeding, Running
<1> QED BY <1>1, <1>2, RequestReads DEF Running

\* A default is in hand: the row that has its slug.
LEMMA DefaultIsHeld ==
    ASSUME ChannelsInv, NEW v \in Visit, visit[v].next \in {"find", "insert", "reread"},
           clouded \subseteq clouded', byHand' = byHand, NEW c \in Channel,
           channel'[c] # Absent, channel'[c].slug = <<visit[v].name, 1>>,
           ActivityKind',
           \A d \in Channel : channel[d] # Absent => channel'[d] = channel[d],
           Turns(v, Holding(v, c))
    PROVE  /\ visit' \in [Visit -> VisitRow] /\ Others(v)
           /\ visit'[v].next \in {"append", "find", "look"}
           /\ InHand(v)' /\ Holds(v)' /\ Seeding(v)'
<1> DEFINE row == Holding(v, c)
<1>1. visit \in [Visit -> VisitRow] /\ visit[v] \in VisitRow /\ InHand(v) /\ Seeding(v)
  BY DEF ChannelsInv, ChannelsTypeOK
<1>2. visit[v].errand = "post" => visit[v].name = "activity"
  BY <1>1 DEF InHand
<1>3. /\ row \in VisitRow /\ row.errand = visit[v].errand
      /\ visit[v].errand = "post" => row.next = "append" /\ row.at = c
      /\ visit[v].errand # "post" /\ visit[v].name = "general" =>
            row.next = "find" /\ row.name = "activity" /\ row.general = c
      /\ visit[v].errand # "post" /\ visit[v].name # "general" =>
            /\ row.next = "look" /\ row.name = "general"
            /\ row.general = visit[v].general /\ row.at = c
  BY <1>1, <1>2, HoldingIs
<1> HIDE DEF row
<1>4. visit' \in [Visit -> VisitRow] /\ visit'[v] = row /\ Others(v)
  <2>1. Turns(v, row)
    BY DEF row
  <2> QED BY <1>1, <1>3, <2>1, TurnsTo
<1>5. visit[v].name \in DefaultSlug
  BY <1>1 DEF VisitRow
<1>6. CASE visit[v].errand = "post"
  BY <1>2, <1>3, <1>4, <1>6 DEF InHand, Holds, Seeding, ActivityKind
<1>7. CASE visit[v].errand # "post" /\ visit[v].name = "general"
  <2>1. c \in Named("general")'
    BY <1>7 DEF Named
  <2> QED BY <1>1, <1>3, <1>4, <1>7, <2>1 DEF InHand, Holds, Seeding
<1>8. CASE visit[v].errand # "post" /\ visit[v].name # "general"
  <2>1. visit[v].name = "activity" /\ visit[v].errand = "seed"
    BY <1>1, <1>5, <1>8 DEF InHand, DefaultSlug
  <2>2. c \in Named("activity")'
    BY <2>1 DEF Named
  <2>3. v \notin clouded' => visit[v].general \in Named("general")'
    <3>1. v \in Running
      BY DEF Running
    <3>2. v \notin clouded' => visit[v].general \in Named("general")
      BY <1>1, <2>1, <3>1 DEF Seeding
    <3> QED BY <3>2 DEF Named
  <2> QED BY <1>3, <1>4, <1>8, <2>1, <2>2, <2>3 DEF InHand, Holds, Seeding
<1> QED BY <1>6, <1>7, <1>8, <1>3, <1>4

LEMMA DefaultIsFound ==
    ASSUME ChannelsInv, NEW v \in Visit, clouded' = clouded \cup Crowd', UNCHANGED byHand,
           FindDefault(v) \/ RereadDefault(v)
    PROVE  ChannelsInv'
<1>1. /\ visit[v].next \in {"find", "reread"} /\ v \in Running
      /\ UNCHANGED <<channel, message>>
  BY DEF FindDefault, RereadDefault, Running
<1>2. CASE \E c \in Named(visit[v].name) : Turns(v, Holding(v, c))
  <2>1. PICK c \in Named(visit[v].name) : Turns(v, Holding(v, c))
    BY <1>2
  <2>2. c \in Channel /\ channel[c] # Absent /\ channel[c].slug = <<visit[v].name, 1>>
    BY DEF Named
  <2>3. ActivityKind' /\ clouded \subseteq clouded'
    BY <1>1 DEF ChannelsInv, ActivityKind
  <2>4. /\ visit' \in [Visit -> VisitRow] /\ Others(v)
        /\ visit'[v].next \in {"append", "find", "look"}
        /\ InHand(v)' /\ Holds(v)' /\ Seeding(v)'
    BY <1>1, <2>1, <2>2, <2>3, DefaultIsHeld
  <2> QED BY <1>1, <2>4, RequestReads
<1>3. CASE Goes(v, "insert") /\ visit[v].next = "find"
  <2>1. /\ visit' \in [Visit -> VisitRow] /\ Others(v) /\ visit'[v].next = "insert"
        /\ visit'[v].errand = visit[v].errand /\ visit'[v].name = visit[v].name
        /\ visit'[v].general = visit[v].general
    BY <1>3, GoesTo DEF ChannelsInv, ChannelsTypeOK
  <2>2. InHand(v)' /\ Holds(v)'
    BY <1>3, <2>1 DEF ChannelsInv, InHand, Holds
  <2>3. Seeding(v)'
    BY <1>1, <1>3, <2>1 DEF ChannelsInv, Seeding, Named
  <2> QED BY <1>1, <2>1, <2>2, <2>3, RequestReads
<1>4. CASE Goes(v, "failed")
  BY <1>1, <1>4, RequestEnds
<1>5. CASE /\ visit[v].next = "reread" /\ Named(visit[v].name) = {}
           /\ visit[v].errand = "seed" /\ Turns(v, Holding(v, Absent))
  <2> DEFINE row == Holding(v, Absent)
  <2>1. visit \in [Visit -> VisitRow] /\ v \in clouded /\ clouded \subseteq clouded'
    BY <1>1, <1>5 DEF ChannelsInv, ChannelsTypeOK, Seeding
  <2>2. row \in VisitRow /\ row.errand = "seed" /\ row.next \in {"find", "look"}
    BY <1>5, <2>1, HoldingIs
  <2> HIDE DEF row
  <2>3. visit' \in [Visit -> VisitRow] /\ visit'[v] = row /\ Others(v)
    <3>1. Turns(v, row)
      BY <1>5 DEF row
    <3> QED BY <2>1, <2>2, <3>1, TurnsTo
  <2>4. InHand(v)' /\ Holds(v)' /\ Seeding(v)'
    BY <2>1, <2>2, <2>3 DEF InHand, Holds, Seeding
  <2> QED BY <1>1, <2>2, <2>3, <2>4, RequestReads
<1> QED BY <1>2, <1>3, <1>4, <1>5 DEF FindDefault, RereadDefault

\* A channel is inserted: its slug is free, and no request has its id.
LEMMA ChannelIsInserted ==
    ASSUME ChannelsInv, NEW c \in Channel, NEW slug \in Slug, NEW type \in {"GENERAL", "SYSTEM"},
           Insert(c, slug, type), Free(slug), visit' \in [Visit -> VisitRow],
           UNCHANGED message, byHand' \subseteq byHand \cup {c}, byHand \subseteq byHand',
           slug = <<"activity", 1>> => type = "SYSTEM" \/ c \in byHand',
           clouded' = clouded \cup Crowd'
    PROVE  /\ ChannelsTypeOK' /\ ActivityKind' /\ channel'[c] # Absent /\ channel'[c].slug = slug
           /\ \A d \in Channel : channel[d] # Absent => channel'[d] = channel[d]
<1>1. /\ channel[c] = Absent /\ channel' = [channel EXCEPT ![c] = [slug |-> slug, type |-> type]]
      /\ ChannelsTypeOK
  BY DEF Insert, ChannelsInv
<1>2. [slug |-> slug, type |-> type] \in ChannelRow
  BY DEF ChannelRow
<1>3. /\ channel' \in [Channel -> ChannelRow \cup {Absent}]
      /\ channel'[c] = [slug |-> slug, type |-> type]
      /\ \A d \in Channel \ {c} : channel'[d] = channel[d]
      /\ channel'[c] # Absent
  BY <1>1, <1>2, ChannelsAssumption DEF ChannelsTypeOK
<1>4. \A d \in Channel : channel[d] # Absent => channel[d].slug # slug
  BY DEF Free, Slugs
<1>5. ChannelRow' = ChannelRow /\ MessageRow' = MessageRow /\ VisitRow' = VisitRow
  BY DEF ChannelRow, MessageRow, VisitRow, Slug, DefaultSlug
<1>6. \A d, e \in Channel : d # e /\ channel'[d] # Absent /\ channel'[e] # Absent =>
                                channel'[d].slug # channel'[e].slug
  BY <1>1, <1>3, <1>4 DEF ChannelsTypeOK
<1>7. \A m \in Message : message'[m] # Absent => channel'[message'[m].channel] # Absent
  <2>1. ASSUME NEW m \in Message, message[m] # Absent PROVE channel'[message[m].channel] # Absent
    <3>1. message[m] \in MessageRow /\ channel[message[m].channel] # Absent
      BY <1>1, <2>1 DEF ChannelsTypeOK
    <3>2. message[m].channel \in Channel
      BY <3>1 DEF MessageRow
    <3> QED BY <1>1, <1>3, <3>1, <3>2
  <2> QED BY <2>1
<1>8. byHand' \subseteq Channel /\ clouded' \subseteq Visit
  BY <1>1 DEF ChannelsTypeOK, Crowd, Running
<1>9. ChannelsTypeOK'
  BY <1>1, <1>3, <1>5, <1>6, <1>7, <1>8 DEF ChannelsTypeOK
<1>10. ActivityKind'
  BY <1>1, <1>3 DEF ChannelsInv, ActivityKind
<1> QED BY <1>1, <1>3, <1>9, <1>10

LEMMA DefaultIsInserted ==
    ASSUME ChannelsInv, NEW v \in Visit, clouded' = clouded \cup Crowd', UNCHANGED byHand,
           InsertDefault(v)
    PROVE  ChannelsInv'
<1> DEFINE slug == <<visit[v].name, 1>>
<1>1. visit[v].next = "insert" /\ v \in Running /\ UNCHANGED message
  BY DEF InsertDefault, Running
<1>2. visit \in [Visit -> VisitRow] /\ visit[v] \in VisitRow /\ visit[v].name \in DefaultSlug
  BY DEF ChannelsInv, ChannelsTypeOK, VisitRow
<1>3. slug \in Slug
  <2>1. Cardinality(Channel) \in Nat
    BY ChannelsAssumption, FS_CardinalityType
  <2> QED BY <1>2, <2>1 DEF Slug
<1>4. ASSUME Free(slug), NEW c \in Channel, Insert(c, slug, Type(visit[v].name)),
             Turns(v, Holding(v, c))
      PROVE  ChannelsInv'
  <2>1. Type(visit[v].name) \in {"GENERAL", "SYSTEM"} /\ (slug = <<"activity", 1>> =>
            Type(visit[v].name) = "SYSTEM")
    BY DEF Type
  <2>2. Holding(v, c) \in VisitRow
    BY <1>1, <1>2, HoldingIs DEF ChannelsInv, InHand
  <2>3. visit' \in [Visit -> VisitRow]
    BY <1>2, <1>4, <2>2, TurnsTo
  <2>4. /\ ChannelsTypeOK' /\ ActivityKind' /\ channel'[c] # Absent /\ channel'[c].slug = slug
        /\ \A d \in Channel : channel[d] # Absent => channel'[d] = channel[d]
    BY <1>1, <1>3, <1>4, <2>1, <2>3, ChannelIsInserted
  <2>5. /\ Others(v) /\ visit'[v].next \in {"append", "find", "look"}
        /\ InHand(v)' /\ Holds(v)' /\ Seeding(v)'
    BY <1>1, <1>4, <2>4, DefaultIsHeld
  <2>6. clouded = {} => OneWelcome' /\ NotYetWelcomed(v)'
    <3>1. \A d : Welcomes(d)' = Welcomes(d)
      BY <1>1 DEF Welcomes
    <3> QED BY <2>5, <3>1 DEF ChannelsInv, OneWelcome, NotYetWelcomed
  <2> QED BY <1>1, <2>4, <2>5, <2>6, RequestSteps
<1>5. CASE ~Free(slug) /\ Goes(v, "reread") /\ UNCHANGED channel
  <2>1. /\ visit' \in [Visit -> VisitRow] /\ Others(v) /\ visit'[v].next = "reread"
        /\ visit'[v].errand = visit[v].errand /\ visit'[v].name = visit[v].name
        /\ visit'[v].general = visit[v].general
    BY <1>2, <1>5, GoesTo
  <2>2. InHand(v)' /\ Holds(v)'
    BY <1>1, <2>1 DEF ChannelsInv, InHand, Holds
  <2>3. Seeding(v)'
    <3>1. ~Free(slug) => Named(visit[v].name) # {}
      BY DEF Free, Slugs, Named
    <3> QED BY <1>1, <1>5, <2>1, <3>1 DEF ChannelsInv, Seeding, Named
  <2> QED BY <1>1, <1>5, <2>1, <2>2, <2>3, RequestReads
<1> QED BY <1>4, <1>5 DEF InsertDefault

LEMMA MadeByHand ==
    ASSUME ChannelsInv, NEW v \in Visit, clouded' = clouded \cup Crowd',
           NEW type \in {"GENERAL", "SYSTEM"}, InsertChannel(v, type)
    PROVE  ChannelsInv'
<1>1. visit[v].next = "name" /\ v \in Running /\ UNCHANGED message
  BY DEF InsertChannel, Running
<1>2. visit \in [Visit -> VisitRow] /\ visit[v].slug \in Slug
  BY <1>1 DEF ChannelsInv, ChannelsTypeOK, InHand
<1>3. ASSUME Free(visit[v].slug), Goes(v, "over"), NEW c \in Channel,
             Insert(c, visit[v].slug, type),
             byHand' = IF type = "GENERAL" THEN byHand \cup {c} ELSE byHand
      PROVE  ChannelsInv'
  <2>1. visit' \in [Visit -> VisitRow] /\ Others(v) /\ visit'[v].next = "over"
    BY <1>2, <1>3, GoesTo
  <2>2. /\ byHand \subseteq byHand' /\ byHand' \subseteq byHand \cup {c}
        /\ type = "SYSTEM" \/ c \in byHand'
    BY <1>3
  <2>3. /\ ChannelsTypeOK' /\ ActivityKind'
        /\ \A d \in Channel : channel[d] # Absent => channel'[d] = channel[d]
    BY <1>1, <1>2, <1>3, <2>1, <2>2, ChannelIsInserted
  <2>4. InHand(v)' /\ Holds(v)' /\ Seeding(v)'
    BY <2>1 DEF InHand, Holds, Seeding, Running
  <2>5. clouded = {} => OneWelcome' /\ NotYetWelcomed(v)'
    <3>1. \A d : Welcomes(d)' = Welcomes(d)
      BY <1>1 DEF Welcomes
    <3> QED BY <2>1, <3>1 DEF ChannelsInv, OneWelcome, NotYetWelcomed
  <2> QED BY <1>1, <2>1, <2>2, <2>3, <2>4, <2>5, RequestSteps
<1>4. CASE Goes(v, "failed") /\ UNCHANGED <<channel, byHand>>
  BY <1>1, <1>4, RequestEnds
<1> QED BY <1>3, <1>4 DEF InsertChannel
-----------------------------------------------------------------------------
(***************************************************************************)
(* The messages.                                                           *)
(***************************************************************************)
\* A message is inserted in a channel that is there.
LEMMA MessageIsSaid ==
    ASSUME ChannelsInv, NEW c \in Channel, channel[c] # Absent,
           NEW body \in {"welcome", "activity", "chat"}, Say(c, body),
           UNCHANGED <<channel, byHand>>, visit' \in [Visit -> VisitRow], clouded' \subseteq Visit
    PROVE  /\ ChannelsTypeOK' /\ ActivityKind'
           /\ \A d : Welcomes(d) \subseteq Welcomes(d)'
           /\ body # "welcome" => \A d : Welcomes(d)' = Welcomes(d)
           /\ body = "welcome" =>
                 /\ \A d : d # c => Welcomes(d)' = Welcomes(d)
                 /\ \E m \in Message : Welcomes(c)' = Welcomes(c) \cup {m}
<1>1. PICK m \in Message : /\ message[m] = Absent
                           /\ message' = [message EXCEPT ![m] = [channel |-> c, body |-> body]]
  BY DEF Say
<1>2. [channel |-> c, body |-> body] \in MessageRow
  BY DEF MessageRow
<1>3. /\ message' \in [Message -> MessageRow \cup {Absent}]
      /\ message'[m] = [channel |-> c, body |-> body] /\ message'[m] # Absent
      /\ \A n \in Message \ {m} : message'[n] = message[n]
  BY <1>1, <1>2, ChannelsAssumption DEF ChannelsInv, ChannelsTypeOK
<1>4. ChannelRow' = ChannelRow /\ MessageRow' = MessageRow /\ VisitRow' = VisitRow
  BY DEF ChannelRow, MessageRow, VisitRow, Slug, DefaultSlug
<1>5. ChannelsTypeOK'
  BY <1>1, <1>3, <1>4 DEF ChannelsInv, ChannelsTypeOK
<1>6. ActivityKind'
  BY DEF ChannelsInv, ActivityKind
<1>7. \A d : Welcomes(d) \subseteq Welcomes(d)'
  BY <1>1, <1>3 DEF Welcomes
<1>8. \A d : \A n \in Welcomes(d)' : n \in Welcomes(d) \/ (n = m /\ d = c /\ body = "welcome")
  BY <1>1, <1>3 DEF Welcomes
<1>9. body = "welcome" => m \in Welcomes(c)'
  BY <1>3 DEF Welcomes
<1>10. body # "welcome" => \A d : Welcomes(d)' = Welcomes(d)
  BY <1>7, <1>8
<1>11. body = "welcome" => /\ \A d : d # c => Welcomes(d)' = Welcomes(d)
                           /\ Welcomes(c)' = Welcomes(c) \cup {m}
  BY <1>7, <1>8, <1>9
<1> QED BY <1>5, <1>6, <1>7, <1>10, <1>11

\* The request has its defaults in hand: the channel of its next message.
LEMMA AtIsInHand ==
    ASSUME ChannelsInv, NEW v \in Visit, visit[v].next \in {"look", "welcome"}
    PROVE  /\ visit[v].errand = "seed" /\ v \in Running
           /\ At(v) # Absent => At(v) \in Channel
           /\ visit[v].next = "welcome" => At(v) \in Channel
<1>1. visit[v] \in VisitRow
  BY DEF ChannelsInv, ChannelsTypeOK
<1> QED BY <1>1 DEF ChannelsInv, InHand, At, Running, VisitRow

\* A channel has its welcome: the request goes on, or is over.
LEMMA WelcomeGoesOn ==
    ASSUME ChannelsInv, NEW v \in Visit, visit[v].next \in {"look", "welcome"},
           Turns(v, AfterWelcome(v)), UNCHANGED channel, clouded \subseteq clouded',
           NEW c \in Channel, visit[v].name = "general" => c = visit[v].general /\ Welcomes(c)' # {}
    PROVE  /\ visit' \in [Visit -> VisitRow] /\ Others(v)
           /\ visit'[v].next \in {"look", "over"}
           /\ InHand(v)' /\ Holds(v)' /\ Seeding(v)'
<1> DEFINE row == AfterWelcome(v)
<1>1. visit \in [Visit -> VisitRow] /\ visit[v] \in VisitRow
  BY DEF ChannelsInv, ChannelsTypeOK
<1>2. /\ row \in VisitRow /\ row.errand = visit[v].errand
      /\ row.general = visit[v].general /\ row.at = visit[v].at
      /\ visit[v].name = "general" => row.next = "look" /\ row.name = "activity"
      /\ visit[v].name # "general" => row.next = "over"
  BY <1>1, AfterWelcomeIs
<1> HIDE DEF row
<1>3. visit' \in [Visit -> VisitRow] /\ visit'[v] = row /\ Others(v)
  <2>1. Turns(v, row)
    BY DEF row
  <2> QED BY <1>1, <1>2, <2>1, TurnsTo
<1>4. visit[v].errand = "seed" /\ v \in Running
  BY AtIsInHand
<1>5. CASE visit[v].name = "general"
  <2>1. InHand(v)' /\ Holds(v)'
    BY <1>2, <1>3, <1>4, <1>5 DEF InHand, Holds
  <2>2. v \notin clouded => visit[v].general \in Named("general") /\ visit[v].at \in Named("activity")
    BY <1>4 DEF ChannelsInv, Seeding
  <2>3. Seeding(v)'
    BY <1>2, <1>3, <1>5, <2>2 DEF Seeding, Named, Welcomes
  <2> QED BY <1>2, <1>3, <1>5, <2>1, <2>3
<1>6. CASE visit[v].name # "general"
  BY <1>2, <1>3, <1>6 DEF InHand, Holds, Seeding, Running
<1> QED BY <1>5, <1>6

LEMMA WelcomeIsLookedFor ==
    ASSUME ChannelsInv, NEW v \in Visit, clouded' = clouded \cup Crowd', UNCHANGED byHand, Look(v)
    PROVE  ChannelsInv'
<1>1. /\ visit[v].next = "look" /\ UNCHANGED <<channel, message>>
      /\ visit[v].errand = "seed" /\ v \in Running
      /\ At(v) # Absent => At(v) \in Channel
  BY AtIsInHand DEF Look
<1>2. CASE At(v) # Absent /\ Welcomes(At(v)) # {} /\ Turns(v, AfterWelcome(v))
  <2>1. PICK c \in Channel : c = At(v)
    BY <1>1, <1>2
  <2>2. /\ visit' \in [Visit -> VisitRow] /\ Others(v)
        /\ visit'[v].next \in {"look", "over"}
        /\ InHand(v)' /\ Holds(v)' /\ Seeding(v)'
    <3>1. visit[v].name = "general" => c = visit[v].general /\ Welcomes(c)' # {}
      BY <1>1, <1>2, <2>1 DEF At, Welcomes
    <3> QED BY <1>1, <1>2, <3>1, WelcomeGoesOn
  <2> QED BY <1>1, <2>2, RequestReads
<1>3. CASE At(v) # Absent /\ Welcomes(At(v)) = {} /\ Goes(v, "welcome")
  <2>1. /\ visit' \in [Visit -> VisitRow] /\ Others(v) /\ visit'[v].next = "welcome"
        /\ visit'[v].errand = visit[v].errand /\ visit'[v].name = visit[v].name
        /\ visit'[v].general = visit[v].general /\ visit'[v].at = visit[v].at
    BY <1>3, GoesTo DEF ChannelsInv, ChannelsTypeOK
  <2>2. InHand(v)' /\ Holds(v)'
    BY <1>1, <1>3, <2>1 DEF InHand, Holds, At
  <2>3. Seeding(v)'
    BY <1>1, <2>1 DEF ChannelsInv, Seeding, Named, Welcomes
  <2>4. At(v)' = At(v) /\ Welcomes(At(v)') = {}
    BY <1>3, <2>1 DEF At
  <2> QED BY <1>1, <2>1, <2>2, <2>3, <2>4, RequestReads
<1>4. CASE Goes(v, "failed")
  BY <1>1, <1>4, RequestEnds
<1> QED BY <1>2, <1>3, <1>4 DEF Look, Welcomed

LEMMA WelcomeIsSaid ==
    ASSUME ChannelsInv, NEW v \in Visit, clouded' = clouded \cup Crowd', UNCHANGED byHand, Welcome(v)
    PROVE  ChannelsInv'
<1>1. /\ visit[v].next = "welcome" /\ UNCHANGED channel
      /\ visit[v].errand = "seed" /\ At(v) \in Channel /\ v \in Running
  BY AtIsInHand DEF Welcome
<1>2. CASE Goes(v, "failed") /\ UNCHANGED message
  BY <1>1, <1>2, RequestEnds
<1>3. CASE channel[At(v)] # Absent /\ Say(At(v), "welcome") /\ Turns(v, AfterWelcome(v))
  <2>1. visit' \in [Visit -> VisitRow] /\ Others(v)
    BY AfterWelcomeIs, <1>3, TurnsTo DEF ChannelsInv, ChannelsTypeOK
  <2>2. clouded' \subseteq Visit
    BY DEF ChannelsInv, ChannelsTypeOK, Crowd, Running
  <2>3. PICK c \in Channel : c = At(v)
    BY <1>1
  <2>4. /\ ChannelsTypeOK' /\ ActivityKind'
        /\ \A d : d # c => Welcomes(d)' = Welcomes(d)
        /\ \E m \in Message : Welcomes(c)' = Welcomes(c) \cup {m}
    BY <1>1, <1>3, <2>1, <2>2, <2>3, MessageIsSaid
  <2>5. /\ visit'[v].next \in {"look", "over"}
        /\ InHand(v)' /\ Holds(v)' /\ Seeding(v)'
    <3>1. visit[v].name = "general" => c = visit[v].general /\ Welcomes(c)' # {}
      BY <2>3, <2>4 DEF At
    <3> QED BY <1>1, <1>3, <3>1, WelcomeGoesOn
  <2>6. clouded = {} => OneWelcome' /\ NotYetWelcomed(v)'
    <3>1. clouded = {} => Welcomes(c) = {} /\ OneWelcome
      BY <1>1, <2>3 DEF ChannelsInv, NotYetWelcomed
    <3> QED BY <2>4, <2>5, <3>1 DEF OneWelcome, NotYetWelcomed
  <2> QED BY <1>1, <2>1, <2>4, <2>5, <2>6, RequestSteps
<1> QED BY <1>2, <1>3 DEF Welcome

LEMMA ActivityIsAppended ==
    ASSUME ChannelsInv, NEW v \in Visit, clouded' = clouded \cup Crowd', UNCHANGED byHand,
           AppendActivity(v)
    PROVE  ChannelsInv'
<1>1. /\ visit[v].next = "append" /\ UNCHANGED channel /\ v \in Running
      /\ visit[v].at \in Channel
  BY DEF AppendActivity, ChannelsInv, InHand, Running
<1>2. CASE Goes(v, "failed") /\ UNCHANGED message
  BY <1>1, <1>2, RequestEnds
<1>3. CASE channel[visit[v].at] # Absent /\ Say(visit[v].at, "activity") /\ Goes(v, "over")
  <2>1. visit' \in [Visit -> VisitRow] /\ Others(v) /\ visit'[v].next = "over"
    BY <1>3, GoesTo DEF ChannelsInv, ChannelsTypeOK
  <2>2. clouded' \subseteq Visit
    BY DEF ChannelsInv, ChannelsTypeOK, Crowd, Running
  <2>3. PICK c \in Channel : c = visit[v].at
    BY <1>1
  <2>4. ChannelsTypeOK' /\ ActivityKind' /\ \A d : Welcomes(d)' = Welcomes(d)
    BY <1>1, <1>3, <2>1, <2>2, <2>3, MessageIsSaid
  <2>5. InHand(v)' /\ Holds(v)' /\ Seeding(v)'
    BY <2>1 DEF InHand, Holds, Seeding, Running
  <2>6. clouded = {} => OneWelcome' /\ NotYetWelcomed(v)'
    BY <2>1, <2>4 DEF ChannelsInv, OneWelcome, NotYetWelcomed
  <2> QED BY <1>1, <2>1, <2>4, <2>5, <2>6, RequestSteps
<1> QED BY <1>2, <1>3 DEF AppendActivity

\* A user writes in a channel.
LEMMA ChatIsSaid ==
    ASSUME ChannelsInv, NEW c \in Channel, createMessage(c), UNCHANGED <<clouded, byHand>>
    PROVE  ChannelsInv'
<1>1. channel[c] # Absent /\ Say(c, "chat") /\ UNCHANGED <<channel, visit>>
  BY DEF createMessage
<1>2. ChannelsTypeOK' /\ ActivityKind' /\ \A d : Welcomes(d)' = Welcomes(d)
  BY <1>1, MessageIsSaid DEF ChannelsInv, ChannelsTypeOK
<1>3. RequestsOverlap'
  BY <1>1 DEF ChannelsInv, RequestsOverlap, Running
<1>4. ASSUME NEW v \in Visit PROVE InHand(v)' /\ Holds(v)' /\ Seeding(v)'
  <2>1. InHand(v)' /\ Holds(v)'
    BY <1>1 DEF ChannelsInv, InHand, At, Holds
  <2>2. Welcomes(visit[v].general) # {} => \E m \in Message :
           m \in Welcomes(visit[v].general)'
    BY <1>1, <1>2 DEF Welcomes
  <2>3. Seeding(v)'
    BY <1>1, <2>2 DEF ChannelsInv, Seeding, Named, Running
  <2> QED BY <2>1, <2>3
<1>5. clouded' = {} => OneWelcome' /\ \A v \in Visit : NotYetWelcomed(v)'
  <2>1. clouded' = {} => OneWelcome'
    BY <1>2 DEF ChannelsInv, OneWelcome
  <2>2. ASSUME NEW v \in Visit, clouded' = {} PROVE NotYetWelcomed(v)'
    <3>1. At(v)' = At(v)
      BY <1>1 DEF At
    <3> QED BY <1>1, <1>2, <2>2, <3>1 DEF ChannelsInv, NotYetWelcomed
  <2> QED BY <2>1, <2>2
<1> QED BY <1>2, <1>3, <1>4, <1>5 DEF ChannelsInv

\* A channel goes with its messages, or a message: whoever is running was
\* disturbed.  A channel that holds the activity does not go.
LEMMA RowsAreDeleted ==
    ASSUME ChannelsInv, clouded' = clouded \cup Running, UNCHANGED byHand,
           (\E c \in Channel : deleteChannel(c)) \/ (\E m \in Message : deleteMessage(m))
    PROVE  ChannelsInv'
<1>1. /\ ChannelsTypeOK /\ UNCHANGED visit /\ clouded' \subseteq Visit
      /\ \A v \in Visit : v \in Running' <=> v \in Running
  BY DEF ChannelsInv, ChannelsTypeOK, deleteChannel, deleteMessage, Running
<1>2. /\ ChannelsTypeOK'
      /\ \A c \in Channel : channel'[c] = channel[c] \/ (channel'[c] = Absent /\ channel[c].type # "SYSTEM")
      /\ \A m \in Message : message'[m] = message[m] \/ message'[m] = Absent
  <2>1. ASSUME NEW c \in Channel, deleteChannel(c)
        PROVE  /\ ChannelsTypeOK'
               /\ \A d \in Channel : channel'[d] = channel[d]
                                     \/ (channel'[d] = Absent /\ channel[d].type # "SYSTEM")
               /\ \A m \in Message : message'[m] = message[m] \/ message'[m] = Absent
    <3>1. /\ channel' \in [Channel -> ChannelRow \cup {Absent}] /\ channel'[c] = Absent
          /\ channel[c].type # "SYSTEM"
          /\ \A d \in Channel \ {c} : channel'[d] = channel[d]
      BY <1>1, <2>1 DEF deleteChannel, Deletable, ChannelsTypeOK
    <3>2. /\ message' \in [Message -> MessageRow \cup {Absent}]
          /\ \A m \in Message : \/ message'[m] = Absent
                                \/ message'[m] = message[m] /\ message[m].channel # c
      BY <1>1, <2>1 DEF deleteChannel, ChannelsTypeOK
    <3>3. ASSUME NEW m \in Message, message'[m] # Absent
          PROVE  channel'[message'[m].channel] # Absent
      <4>1. /\ message'[m] = message[m] /\ message[m].channel # c
            /\ message[m] \in MessageRow /\ channel[message[m].channel] # Absent
        BY <1>1, <3>2, <3>3 DEF ChannelsTypeOK
      <4>2. message[m].channel \in Channel
        BY <4>1 DEF MessageRow
      <4> QED BY <3>1, <4>1, <4>2
    <3>4. \A d, e \in Channel : d # e /\ channel'[d] # Absent /\ channel'[e] # Absent =>
                                    channel'[d].slug # channel'[e].slug
      BY <1>1, <3>1 DEF ChannelsTypeOK
    <3>5. ChannelRow' = ChannelRow /\ MessageRow' = MessageRow /\ VisitRow' = VisitRow
      BY DEF ChannelRow, MessageRow, VisitRow, Slug, DefaultSlug
    <3>6. ChannelsTypeOK'
      BY <1>1, <3>1, <3>2, <3>3, <3>4, <3>5 DEF ChannelsTypeOK
    <3> QED BY <3>1, <3>2, <3>6
  <2>2. ASSUME NEW m \in Message, deleteMessage(m)
        PROVE  /\ ChannelsTypeOK' /\ UNCHANGED channel
               /\ \A n \in Message : message'[n] = message[n] \/ message'[n] = Absent
    <3>1. /\ message' \in [Message -> MessageRow \cup {Absent}] /\ UNCHANGED channel
          /\ \A n \in Message : message'[n] = message[n] \/ message'[n] = Absent
      BY <1>1, <2>2 DEF deleteMessage, ChannelsTypeOK
    <3>2. ChannelRow' = ChannelRow /\ MessageRow' = MessageRow /\ VisitRow' = VisitRow
      BY DEF ChannelRow, MessageRow, VisitRow, Slug, DefaultSlug
    <3> QED BY <1>1, <3>1, <3>2 DEF ChannelsTypeOK
  <2> QED BY <2>1, <2>2
<1>3. ActivityKind'
  BY <1>2 DEF ChannelsInv, ActivityKind
<1>4. RequestsOverlap'
  BY <1>1 DEF RequestsOverlap
<1>5. ASSUME NEW v \in Visit PROVE InHand(v)' /\ Holds(v)' /\ Seeding(v)'
  <2>1. InHand(v)'
    BY <1>1 DEF ChannelsInv, InHand, At
  <2>2. Holds(v)'
    BY <1>1, <1>2 DEF ChannelsInv, InHand, Holds
  <2>3. Seeding(v)'
    BY <1>1 DEF Seeding
  <2> QED BY <2>1, <2>2, <2>3
<1>6. clouded' = {} => OneWelcome' /\ \A v \in Visit : NotYetWelcomed(v)'
  <2>1. \A c : Welcomes(c)' \subseteq Welcomes(c)
    BY <1>2 DEF Welcomes
  <2>2. clouded' = {} => OneWelcome'
    BY <2>1 DEF ChannelsInv, OneWelcome
  <2>3. clouded' = {} => \A v \in Visit : visit'[v].next # "welcome"
    BY <1>1 DEF Running
  <2> QED BY <2>2, <2>3 DEF NotYetWelcomed
<1> QED BY <1>2, <1>3, <1>4, <1>5, <1>6 DEF ChannelsInv

LEMMA ChannelsInitIsOK == ChannelsInit => ChannelsInv
<1> SUFFICES ASSUME ChannelsInit PROVE ChannelsInv
  OBVIOUS
<1>1. ChannelsTypeOK
  BY DEF ChannelsInit, ChannelsTypeOK, VisitRow, DefaultSlug
<1>2. Running = {} /\ \A c : Welcomes(c) = {}
  BY DEF ChannelsInit, Running, Welcomes
<1>3. \A v \in Visit : visit[v].next = "new"
  BY DEF ChannelsInit
<1>4. \A c \in Channel : channel[c] = Absent
  BY DEF ChannelsInit
<1> QED BY <1>1, <1>2, <1>3, <1>4
        DEF ChannelsInv, ActivityKind, RequestsOverlap, InHand, Holds, Seeding, OneWelcome,
            NotYetWelcomed

LEMMA ChannelsNextIsOK == ChannelsInv /\ [ChannelsNext]_channelVars => ChannelsInv'
<1> SUFFICES ASSUME ChannelsInv, [ChannelsNext]_channelVars PROVE ChannelsInv'
  OBVIOUS
<1>1. CASE VisitStep /\ clouded' = clouded \cup Crowd'
  <2>1. ASSUME NEW v \in Visit, StopVisit(v), UNCHANGED byHand PROVE ChannelsInv'
    BY <1>1, <2>1, RequestEnds DEF StopVisit, Running
  <2> QED BY <1>1, <2>1, RequestBegins, DefaultIsFound, DefaultIsInserted, MadeByHand,
             WelcomeIsLookedFor, WelcomeIsSaid, ActivityIsAppended DEF VisitStep
<1>2. CASE (\E c \in Channel : createMessage(c)) /\ UNCHANGED <<clouded, byHand>>
  BY <1>2, ChatIsSaid
<1>3. CASE /\ (\E c \in Channel : deleteChannel(c)) \/ (\E m \in Message : deleteMessage(m))
           /\ clouded' = clouded \cup Running /\ UNCHANGED byHand
  BY <1>3, RowsAreDeleted
<1>4. CASE UNCHANGED channelVars
  BY <1>4 DEF channelVars, ChannelsInv, ChannelsTypeOK, ActivityKind, RequestsOverlap, InHand, Holds,
              Seeding, OneWelcome, NotYetWelcomed, Running, Named, Welcomes, At,
              ChannelRow, MessageRow, VisitRow, Slug, DefaultSlug
<1> QED BY <1>1, <1>2, <1>3, <1>4 DEF ChannelsNext

(***************************************************************************)
(* The inductive invariant of the channels, for any channels, messages and *)
(* requests: what each request between two statements has in hand, and     *)
(* that two of them at once have both been noted.                          *)
(***************************************************************************)
THEOREM ChannelsAreSound == ChannelsSpec => []ChannelsInv
BY ChannelsInitIsOK, ChannelsNextIsOK, PTL DEF ChannelsSpec

(***************************************************************************)
(* The channel that postActivity holds when it appends its message is      *)
(* there: it is the default, of the type that deleteChannel refuses, but   *)
(* for one that somebody made by hand under the slug of the default.       *)
(***************************************************************************)
THEOREM ActivityIsNotLost == ChannelsSpec => []ActivityStays
<1>1. ChannelsInv => ActivityStays
  BY DEF ChannelsInv, Holds, ActivityStays
<1> QED BY <1>1, ChannelsAreSound, PTL

\* The step that ends a seeding request: its last welcome, seen or said.
LEMMA SeedingEnds ==
    ASSUME ChannelsInv, NEW v \in Visit, [ChannelsNext]_channelVars,
           visit[v].errand = "seed", visit[v].next # "over", visit'[v].next = "over"
    PROVE  /\ Look(v) \/ Welcome(v)
           /\ visit[v].name = "activity" /\ clouded' = clouded \cup Crowd'
           /\ UNCHANGED byHand /\ Others(v)
<1>1. visit \in [Visit -> VisitRow] /\ visit[v] \in VisitRow
  BY DEF ChannelsInv, ChannelsTypeOK
<1>2. UNCHANGED visit => FALSE
  OBVIOUS
<1>3. VisitStep /\ clouded' = clouded \cup Crowd'
  BY <1>2 DEF ChannelsNext, channelVars, createMessage, deleteChannel, deleteMessage
<1>4. PICK u \in Visit :
         \/ /\ \/ ensureDefaultsForOrganization(u) \/ postActivity(u)
               \/ FindDefault(u) \/ InsertDefault(u) \/ RereadDefault(u)
               \/ Look(u) \/ Welcome(u) \/ AppendActivity(u) \/ StopVisit(u)
               \/ \E name \in DefaultSlug : createChannel(u, name)
            /\ UNCHANGED byHand
         \/ \E type \in {"GENERAL", "SYSTEM"} : InsertChannel(u, type)
  BY <1>3 DEF VisitStep
<1>5. ASSUME NEW next \in {"insert", "reread", "failed"}, Goes(u, next) PROVE FALSE
  BY <1>1, <1>5, GoesTo DEF Others
<1>6. ASSUME NEW row, Turns(u, row), row.next # "over" PROVE FALSE
  BY <1>1, <1>6 DEF Turns
<1>7. ensureDefaultsForOrganization(u) \/ postActivity(u) => FALSE
  BY <1>1, <1>6 DEF ensureDefaultsForOrganization, postActivity, Begin, VisitRow
<1>8. ASSUME NEW name \in DefaultSlug, createChannel(u, name) PROVE FALSE
  BY <1>1, <1>6, <1>8 DEF createChannel, VisitRow
<1>9. ASSUME NEW c \in Channel \cup {Absent}, visit[u].next \in {"find", "insert", "reread"},
             Turns(u, Holding(u, c))
      PROVE  FALSE
  <2>1. visit[u].errand = "post" => visit[u].name = "activity"
    BY <1>9 DEF ChannelsInv, InHand
  <2>2. Holding(u, c).next # "over"
    BY <1>1, <2>1, HoldingIs
  <2> QED BY <1>6, <1>9, <2>2
<1>10. FindDefault(u) \/ InsertDefault(u) \/ RereadDefault(u) => FALSE
  BY <1>5, <1>9 DEF FindDefault, InsertDefault, RereadDefault, Named
<1>11. StopVisit(u) => FALSE
  BY <1>5 DEF StopVisit
<1>12. ASSUME Goes(u, "over"), visit[u].errand # "seed" PROVE FALSE
  BY <1>1, <1>12, GoesTo DEF Others
<1>13. AppendActivity(u) => FALSE
  BY <1>5, <1>12 DEF AppendActivity, ChannelsInv, InHand
<1>14. ASSUME NEW type \in {"GENERAL", "SYSTEM"}, InsertChannel(u, type) PROVE FALSE
  BY <1>5, <1>12, <1>14 DEF InsertChannel, ChannelsInv, InHand
<1>15. (Look(u) \/ Welcome(u)) /\ UNCHANGED byHand
  BY <1>4, <1>7, <1>8, <1>10, <1>11, <1>13, <1>14
<1>16. \/ Goes(u, "welcome") \/ Goes(u, "failed")
       \/ Turns(u, AfterWelcome(u))
  BY <1>15 DEF Look, Welcome
<1>17. Turns(u, AfterWelcome(u))
  <2>1. ASSUME NEW next \in {"welcome", "failed"}, Goes(u, next) PROVE FALSE
    BY <1>1, <2>1, GoesTo DEF Others
  <2> QED BY <1>16, <2>1
<1>18. visit'[u] = AfterWelcome(u) /\ Others(u)
  BY <1>1, <1>17, AfterWelcomeIs, TurnsTo
<1>19. u = v
  BY <1>18 DEF Others
<1>20. visit[v].name # "general"
  BY <1>1, <1>18, <1>19, AfterWelcomeIs
<1> QED BY <1>1, <1>3, <1>15, <1>18, <1>19, <1>20 DEF VisitRow, DefaultSlug

LEMMA SeedingIsExact ==
    ASSUME ChannelsInv, NEW v \in Visit, [ChannelsNext]_channelVars,
           visit[v].errand = "seed", visit[v].next # "over", visit'[v].next = "over",
           v \notin clouded'
    PROVE  \A name \in DefaultSlug :
              /\ Named(name)' # {}
              /\ \A c \in Channel : c \in Named(name)' =>
                    Welcomes(c)' # {} /\ (Cardinality(Welcomes(c)') > 1 => clouded # {})
<1>1. /\ Look(v) \/ Welcome(v)
      /\ visit[v].name = "activity" /\ clouded' = clouded \cup Crowd'
      /\ UNCHANGED byHand /\ Others(v)
  BY SeedingEnds
<1>2. visit[v].next \in {"look", "welcome"} /\ UNCHANGED channel
  BY <1>1 DEF Look, Welcome
<1>3. ChannelsInv'
  BY ChannelsNextIsOK
<1>4. v \in Running \ clouded
  BY <1>1, <1>2 DEF Running
<1>5. /\ visit[v].general \in Named("general") /\ visit[v].at \in Named("activity")
      /\ Welcomes(visit[v].general) # {}
  BY <1>1, <1>2, <1>4 DEF ChannelsInv, Seeding
<1>6. PICK g \in Channel, a \in Channel : g = visit[v].general /\ a = visit[v].at
  BY <1>5 DEF Named
<1>7. g # a
  BY <1>5, <1>6 DEF Named
<1>8. Named("general")' = {g} /\ Named("activity")' = {a}
  BY <1>2, <1>5, <1>6 DEF Named, ChannelsInv, ChannelsTypeOK
<1>9. Welcomes(g)' # {} /\ Welcomes(a)' # {}
  <2>1. CASE Look(v)
    <3>1. UNCHANGED message /\ (Welcomed(At(v)) \/ Goes(v, "welcome") \/ Goes(v, "failed"))
      BY <2>1 DEF Look
    <3>2. Goes(v, "welcome") \/ Goes(v, "failed") => FALSE
      BY GoesTo DEF ChannelsInv, ChannelsTypeOK
    <3>3. At(v) = a
      BY <1>1, <1>6 DEF At
    <3>4. Welcomes(a) # {} /\ Welcomes(g) # {}
      BY <1>5, <1>6, <3>1, <3>2, <3>3 DEF Welcomed
    <3> QED BY <3>1, <3>4 DEF Welcomes
  <2>2. CASE Welcome(v)
    <3>1. At(v) = a
      BY <1>1, <1>6 DEF At
    <3>2. (channel[a] # Absent /\ Say(a, "welcome")) \/ Goes(v, "failed")
      BY <2>2, <3>1 DEF Welcome
    <3>3. Goes(v, "failed") => FALSE
      BY GoesTo DEF ChannelsInv, ChannelsTypeOK
    <3>4. visit' \in [Visit -> VisitRow] /\ clouded' \subseteq Visit
      BY <1>3 DEF ChannelsInv, ChannelsTypeOK
    <3>5. /\ \A d : d # a => Welcomes(d)' = Welcomes(d)
          /\ \E m \in Message : Welcomes(a)' = Welcomes(a) \cup {m}
      BY <1>1, <1>2, <3>2, <3>3, <3>4, MessageIsSaid
    <3> QED BY <1>5, <1>6, <1>7, <3>5
  <2> QED BY <1>1, <2>1, <2>2
<1>10. clouded = {} => clouded' = {}
  <2>1. ASSUME NEW w \in Crowd' PROVE w \in clouded
    <3>1. PICK u \in Running' : u # w
      BY <2>1 DEF Crowd
    <3>2. w \in Visit \ {v} /\ w \in Running
      BY <1>1, <2>1 DEF Crowd, Running, Others
    <3> QED BY <1>3, <1>4, <3>2 DEF ChannelsInv, RequestsOverlap
  <2> QED BY <1>1, <2>1
<1>11. clouded = {} => OneWelcome'
  BY <1>3, <1>10 DEF ChannelsInv
<1>12. ASSUME NEW c \in Channel, clouded = {} PROVE ~(Cardinality(Welcomes(c)') > 1)
  <2> DEFINE W == Welcomes(c)'
  <2>1. \A m, n \in W : m = n
    BY <1>11, <1>12 DEF OneWelcome
  <2>2. W = {} \/ \E m : W = {m}
    <3> HIDE DEF W
    <3>1. ASSUME NEW m \in W PROVE W = {m}
      BY <2>1, <3>1
    <3> QED BY <3>1
  <2>3. Cardinality(W) = 0 \/ Cardinality(W) = 1
    <3> HIDE DEF W
    <3> QED BY <2>2, FS_EmptySet, FS_Singleton
  <2> QED BY <2>3
<1>13. \A c \in Channel : Cardinality(Welcomes(c)') > 1 => clouded # {}
  BY <1>12
<1>14. ASSUME NEW name \in DefaultSlug
       PROVE  /\ Named(name)' # {}
              /\ \A c \in Channel : c \in Named(name)' => Welcomes(c)' # {}
  BY <1>8, <1>9 DEF DefaultSlug
<1> QED BY <1>13, <1>14

(***************************************************************************)
(* A request that seeds the workspace undisturbed leaves each default      *)
(* channel there with its welcome message, and with one only as long as no *)
(* request was disturbed before: listChannels looks for each row before it *)
(* inserts it, and nobody else was there to insert it in between.          *)
(***************************************************************************)
THEOREM SeedingIsIdempotent == ChannelsSpec => SeededExactly
<1>1. ChannelsInv /\ [ChannelsNext]_channelVars =>
        [\A v \in Visit :
         /\ visit[v].errand = "seed" /\ visit[v].next # "over" /\ visit'[v].next = "over"
         /\ v \notin clouded'
         => \A name \in DefaultSlug :
               /\ Named(name)' # {}
               /\ \A c \in Channel : c \in Named(name)' =>
                     Welcomes(c)' # {} /\ (Cardinality(Welcomes(c)') > 1 => clouded # {})
        ]_channelVars
  BY SeedingIsExact
<1> QED BY <1>1, ChannelsAreSound, PTL DEF ChannelsSpec, SeededExactly
-----------------------------------------------------------------------------
(***************************************************************************)
(* The services together.  Each keeps its own invariant in a step of its   *)
(* own, and has no step in a step of another.                              *)
(***************************************************************************)
LinksInStep == RowsInv /\ met \subseteq Request \cup Owner /\ SyncInv

ServicesInv == LinksInStep /\ ChannelsInv /\ TasksInv /\ CatalogueInv

\* An owner that is connected already is as one that has just been.
LEMMA SettledIsOK == Settled => LinksInStep
<1> SUFFICES ASSUME Settled PROVE LinksInStep
  OBVIOUS
<1>1. PICK o \in Owner, t \in Token, of \in SUBSET Page :
         /\ auth = [q \in Owner |-> IF q = o THEN [token |-> t, status |-> "CONNECTED"]
                                    ELSE NoRow]
         /\ conn = [p \in Page |-> IF p \in of
                       THEN [owner |-> o, token |-> t, status |-> "CONNECTED"] ELSE NoRow]
  BY DEF Settled
<1>2. /\ auth \in [Owner -> AuthRow \cup {NoRow}]
      /\ conn \in [Page -> ConnRow \cup {NoRow}]
  BY <1>1 DEF AuthRow, ConnRow
<1>3. RowsOK
  BY <1>2 DEF Settled, RowsOK, StateRow
<1>4. RequestsOK
  BY BlankIsOK DEF Settled, RequestsOK, RequestOK
<1>5. /\ Blank.next \notin OwnerInHand /\ Blank.next # "revoke" /\ Blank.owner = None
      /\ \A r \in Request : request[r] = Blank
  BY DEF Settled, Blank, OwnerInHand
<1>6. HandsHold
  BY <1>5 DEF HandsHold
<1>7. Noticed
  BY <1>5 DEF Noticed, AtWork
<1>8. \A r \in Request : InStep(r)
  BY <1>5 DEF InStep, ExpiresRightly, AgreesWithRows, OwnerInHand
<1>9. \A q \in Owner : auth[q] = NoRow \/ auth[q].status = "CONNECTED"
  BY <1>1
<1>10. ExpiredIsLapsed
  BY <1>9 DEF ExpiredIsLapsed, Authorized
<1> QED BY <1>3, <1>4, <1>6, <1>7, <1>8, <1>10 DEF LinksInStep, RowsInv, SyncInv, Settled

LEMMA ServicesInitIsOK == MCInit => ServicesInv
<1>1. MetaInit => LinksInStep
  BY InitIsOK, SyncInitIsOK DEF LinksInStep, MetaInit
<1> QED BY <1>1, SettledIsOK, ChannelsInitIsOK, TasksInitIsOK, CatalogueInitIsOK
        DEF MCInit, ServicesInv

LEMMA ServicesNextIsOK == ServicesInv /\ [MCNext]_servicesVars => ServicesInv'
<1> SUFFICES ASSUME ServicesInv, [MCNext]_servicesVars PROVE ServicesInv'
  OBVIOUS
<1>1. /\ [MetaNext]_metaVars /\ [ChannelsNext]_channelVars
      /\ [TasksNext]_taskVars /\ [CatalogueNext]_catalogueVars
  BY DEF MCNext, servicesVars
<1>2. LinksInStep'
  BY <1>1, NextIsOK, SyncIsKept DEF ServicesInv, LinksInStep
<1> QED BY <1>1, <1>2, ChannelsNextIsOK, TasksNextIsOK, CatalogueNextIsOK DEF ServicesInv

(***************************************************************************)
(* The services are sound together, whether a client is connected to Meta  *)
(* already or not.                                                         *)
(***************************************************************************)
THEOREM ServicesAreSound == MCSpec => []ServicesInv
BY ServicesInitIsOK, ServicesNextIsOK, PTL DEF MCSpec

(***************************************************************************)
(* The rows of every service are what their tables and requests allow: no  *)
(* message without its channel, no two channels under one slug, no task on *)
(* a board that is gone, no request with a row that was removed.           *)
(***************************************************************************)
THEOREM ServicesAreTyped == MCSpec => []ServicesTypeOK
<1>1. ServicesInv => ServicesTypeOK
  BY TypeOKSplits, TasksTypeIs
     DEF ServicesInv, LinksInStep, RowsInv, ChannelsInv, CatalogueInv, ServicesTypeOK
<1> QED BY <1>1, ServicesAreSound, PTL
==============================================================================
