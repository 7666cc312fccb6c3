------------------------------ MODULE Catalogue ------------------------------
(***************************************************************************)
(* What the team keeps of each client of one organization: campaigns,      *)
(* content pillars, content templates, assets and reports, and the content *)
(* items that name a campaign.  Each service looks for the client, or for  *)
(* the row, and then writes in a statement of its own; no operation        *)
(* deletes a client.                                                       *)
(***************************************************************************)
EXTENDS FiniteSets

CONSTANTS
    Client, Campaign, Pillar, Template, Item, Asset, Report,    \* rows
    Tag,        \* tags of an asset
    Call,       \* bound: requests of several statements, each made once
    Shared,     \* the client of a template that is everybody's
    Null,       \* sent to clear a column
    Nothing     \* no row, nothing sent

ItemRow == [client : Client, campaign : Campaign \cup {Nothing}]
AssetRow == [client : Client, tags : SUBSET Tag]
ReportRow == [client : Client, status : {"DRAFT", "READY", "SENT"}, sentAt : BOOLEAN]

ASSUME CatalogueAssumption ==
    /\ Nothing \notin Client \cup Campaign \cup Item \cup Asset \cup Report \cup {Shared}
    /\ Nothing \notin ItemRow \cup AssetRow \cup ReportRow
    /\ Shared \notin Client
    /\ Null \notin Campaign \cup {Nothing}

VARIABLES
    campaign, pillar, template,     \* the client of each row
    item,       \* content_items: their client and their campaign
    asset,      \* assets: their client and their tags
    report,     \* reports
    call,       \* requests between two statements
    strayed,    \* history: items that left the client of their campaign, or
                \* were edited by two requests at once; whose campaign was moved
    overtaken,  \* history: requests whose row was written by another one
    mailed,     \* history: the reports that clients were mailed about
    given       \* history: reports that were given to another client
catalogueVars == <<campaign, pillar, template, item, asset, report, call,
                   strayed, overtaken, mailed, given>>

UpdateContentItemDto == [client : Client \cup {Nothing},
                         campaign : Campaign \cup {Nothing, Null}]

\* A request: the statement it is about to make, its row, and what it has in
\* hand: what was sent of an item, the client of a report, the tags it will write.
CallRow == [next : {"new", "insert", "edit", "suggest", "tag", "mark", "mail", "over"},
            row : Item \cup Asset \cup Report \cup {Nothing},
            sent : UpdateContentItemDto, tags : SUBSET Tag]
Uncalled == [next |-> "new", row |-> Nothing, tags |-> {},
             sent |-> [client |-> Nothing, campaign |-> Nothing]]
CallOver == [Uncalled EXCEPT !.next = "over"]

Rows(table) == {x \in DOMAIN table : table[x] # Nothing}

CatalogueTypeOK ==
    /\ campaign \in [Campaign -> Client \cup {Nothing}]
    /\ pillar \in [Pillar -> Client \cup {Nothing}]
    /\ template \in [Template -> Client \cup {Shared, Nothing}]
    /\ item \in [Item -> ItemRow \cup {Nothing}]
    /\ \A i \in Rows(item) : item[i].campaign \in Rows(campaign) \cup {Nothing}
    /\ asset \in [Asset -> AssetRow \cup {Nothing}]
    /\ report \in [Report -> ReportRow \cup {Nothing}]
    /\ call \in [Call -> CallRow]
    /\ strayed \subseteq Item /\ overtaken \subseteq Call
    /\ mailed \subseteq Report \X Client /\ given \subseteq Report

CatalogueInit ==
    /\ campaign = [x \in Campaign |-> Nothing]
    /\ pillar = [x \in Pillar |-> Nothing]
    /\ template = [x \in Template |-> Nothing]
    /\ item = [x \in Item |-> Nothing]
    /\ asset = [x \in Asset |-> Nothing]
    /\ report = [x \in Report |-> Nothing]
    /\ call = [r \in Call |-> Uncalled]
    /\ strayed = {} /\ overtaken = {} /\ mailed = {} /\ given = {}
-----------------------------------------------------------------------------
itemVars == <<item, strayed>>
assetVars == <<asset, overtaken>>
reportVars == <<report, mailed, given>>

Create(table, x, row) == table[x] = Nothing /\ table' = [table EXCEPT ![x] = row]
Update(table, x, row) == table[x] # Nothing /\ table' = [table EXCEPT ![x] = row]
Remove(table, x) == table[x] # Nothing /\ table' = [table EXCEPT ![x] = Nothing]

\* A row that is read and gone when it is written is simply not written.
Proceed(r, row) == call' = [call EXCEPT ![r] = row]
-----------------------------------------------------------------------------
\* The id of a row is never used again: not while a request has it in hand.
CreateCampaign(k, c) ==
    /\ \A r \in Call : call[r].sent.campaign # k
    /\ Create(campaign, k, c)
    /\ UNCHANGED <<pillar, template, itemVars, assetVars, reportVars, call>>

Naming(k) == {i \in Rows(item) : item[i].campaign = k}

\* Items that a request is about to put in the campaign.
Sending(k) == {i \in Item : \E r \in Call : call[r].row = i /\ call[r].sent.campaign = k}

UpdateCampaign(k, c) ==
    /\ Update(campaign, k, c)
    /\ strayed' = IF c = campaign[k] THEN strayed ELSE strayed \cup Naming(k) \cup Sending(k)
    /\ UNCHANGED <<pillar, template, item, assetVars, reportVars, call>>

\* Mutant: the content keeps a campaign that is removed.
ItemsAsTheyAre(k) == item

\* The content of a campaign stays, without a campaign.
ItemsWithout(k) ==
    [i \in Item |-> IF i \in Naming(k) THEN [item[i] EXCEPT !.campaign = Nothing] ELSE item[i]]

RemoveCampaign(k) ==
    /\ Remove(campaign, k)
    /\ item' = ItemsWithout(k)
    /\ UNCHANGED <<pillar, template, strayed, assetVars, reportVars, call>>

WritePillar(x) ==
    /\ \/ \E c \in Client : Create(pillar, x, c) \/ Update(pillar, x, c)
       \/ Remove(pillar, x)
    /\ UNCHANGED <<campaign, template, itemVars, assetVars, reportVars, call>>

WriteTemplate(x) ==
    /\ \/ \E c \in Client \cup {Shared} : Create(template, x, c)
       \/ \E c \in Client : Update(template, x, c)
       \/ Remove(template, x)
    /\ UNCHANGED <<campaign, pillar, itemVars, assetVars, reportVars, call>>
-----------------------------------------------------------------------------
(***************************************************************************)
(* Content items, as far as they name campaigns.                           *)
(***************************************************************************)

\* Mutant: the campaign is looked for among those of all clients.
CampaignFitsAny(k, c) == k \notin {Nothing, Null} => k \in Rows(campaign)

\* ensureCampaignBelongsToClient
CampaignFits(k, c) == k \notin {Nothing, Null} => campaign[k] = c

Editing(i) == \E r \in Call : call[r].row = i

\* ContentService.create: the campaign is checked, and then the row is inserted.
CheckNewItem(r, i, new) ==
    /\ CampaignFits(new.campaign, new.client)
    /\ i \notin Rows(item) /\ ~Editing(i)
    /\ call[r].next = "new"
    /\ Proceed(r, [Uncalled EXCEPT !.next = "insert", !.row = i, !.sent = new])
    /\ UNCHANGED <<campaign, pillar, template, itemVars, assetVars, reportVars>>

\* A campaign that was removed makes the statement fail, here and in an edit.
InsertItem(r) ==
    LET new == call[r].sent IN
    /\ call[r].next = "insert"
    /\ IF new.campaign \in Rows(campaign) \cup {Nothing}
       THEN Create(item, call[r].row, new)
       ELSE UNCHANGED item
    /\ Proceed(r, CallOver)
    /\ UNCHANGED <<campaign, pillar, template, strayed, assetVars, reportVars>>

\* ContentService.update: the campaign is checked against the client that was
\* sent, or else against the one that was read.
CheckItem(r, i, sent) ==
    /\ i \in Rows(item)
    /\ CampaignFits(sent.campaign, IF sent.client = Nothing THEN item[i].client ELSE sent.client)
    /\ call[r].next = "new"
    /\ Proceed(r, [Uncalled EXCEPT !.next = "edit", !.row = i, !.sent = sent])
    /\ strayed' = IF Editing(i) THEN strayed \cup {i} ELSE strayed
    /\ UNCHANGED <<campaign, pillar, template, item, assetVars, reportVars>>

\* What was not sent stays.
Edited(row, sent) ==
    [client |-> IF sent.client = Nothing THEN row.client ELSE sent.client,
     campaign |-> CASE sent.campaign = Nothing -> row.campaign
                    [] sent.campaign = Null -> Nothing
                    [] OTHER -> sent.campaign]

EditItem(r) ==
    LET i == call[r].row
        sent == call[r].sent
        moves == sent.client \notin {Nothing, item[i].client} IN
    /\ call[r].next = "edit"
    /\ IF sent.campaign \in Rows(campaign) \cup {Nothing, Null}
       THEN /\ item' = [item EXCEPT ![i] = Edited(@, sent)]
            /\ strayed' = IF moves /\ sent.campaign = Nothing THEN strayed \cup {i} ELSE strayed
       ELSE UNCHANGED itemVars
    /\ Proceed(r, CallOver)
    /\ UNCHANGED <<campaign, pillar, template, assetVars, reportVars>>
-----------------------------------------------------------------------------
(***************************************************************************)
(* Assets: autoTag reads the asset, asks for tags, and writes them all.    *)
(***************************************************************************)
Tagging(x) == {r \in Call : call[r].row = x}

CreateAsset(x, row) ==
    /\ Create(asset, x, row)
    /\ UNCHANGED <<campaign, pillar, template, itemVars, overtaken, reportVars, call>>

UpdateAsset(x, row) ==
    /\ Update(asset, x, row)
    /\ overtaken' = overtaken \cup Tagging(x)
    /\ UNCHANGED <<campaign, pillar, template, itemVars, reportVars, call>>

AutoTag(r, x) ==
    /\ x \in Rows(asset)
    /\ call[r].next = "new"
    /\ Proceed(r, [Uncalled EXCEPT !.next = "suggest", !.row = x, !.tags = asset[x].tags])
    /\ UNCHANGED <<campaign, pillar, template, itemVars, assetVars, reportVars>>

\* Mutant: the tags that were suggested are the tags.
MergedOver(tags, suggested) == IF suggested = {} THEN tags ELSE suggested

Merged(tags, suggested) == tags \cup suggested

GenerateTags(r, suggested) ==
    /\ call[r].next = "suggest"
    /\ Proceed(r, [call[r] EXCEPT !.next = "tag", !.tags = Merged(@, suggested)])
    /\ UNCHANGED <<campaign, pillar, template, itemVars, assetVars, reportVars>>

SaveTags(r) ==
    LET x == call[r].row IN
    /\ call[r].next = "tag"
    /\ asset' = [asset EXCEPT ![x].tags = call[r].tags]
    /\ overtaken' = overtaken \cup (Tagging(x) \ {r})
    /\ Proceed(r, CallOver)
    /\ UNCHANGED <<campaign, pillar, template, itemVars, reportVars>>
-----------------------------------------------------------------------------
(***************************************************************************)
(* Reports: send reads the report and its client, marks the report, and    *)
(* then mails the client; a mail that is not sent is logged.               *)
(***************************************************************************)
CreateReport(x, c, status) ==
    /\ Create(report, x, [client |-> c, status |-> status, sentAt |-> FALSE])
    /\ UNCHANGED <<campaign, pillar, template, itemVars, assetVars, mailed, given, call>>

UpdateReport(x, c, status) ==
    /\ x \in Rows(report)
    /\ Update(report, x, [report[x] EXCEPT !.client = c, !.status = status])
    /\ given' = IF c = report[x].client THEN given ELSE given \cup {x}
    /\ UNCHANGED <<campaign, pillar, template, itemVars, assetVars, mailed, call>>

\* Mutant: the client is mailed, and then the report is marked.
MailsFirst == [read |-> "mail", mail |-> "mark", mark |-> "over"]

\* What send does after each of its statements.
Then == [read |-> "mark", mark |-> "mail", mail |-> "over"]

GoOn(r, row, done) ==
    Proceed(r, IF Then[done] = "over" THEN CallOver ELSE [row EXCEPT !.next = Then[done]])

Send(r, x) ==
    /\ x \in Rows(report) /\ call[r].next = "new"
    /\ GoOn(r, [Uncalled EXCEPT !.row = x, !.sent.client = report[x].client], "read")
    /\ UNCHANGED <<campaign, pillar, template, itemVars, assetVars, reportVars>>

MarkSent(r) ==
    LET x == call[r].row IN
    /\ call[r].next = "mark"
    /\ report' = [report EXCEPT ![x].status = "SENT", ![x].sentAt = TRUE]
    /\ GoOn(r, call[r], "mark")
    /\ UNCHANGED <<campaign, pillar, template, itemVars, assetVars, mailed, given>>

\* Whether the mail goes out: the client has no address, the service cannot
\* send, or sending fails, and nobody is told.
Delivery == BOOLEAN

NotifyUser(r, sent) ==
    /\ call[r].next = "mail"
    /\ mailed' = IF sent THEN mailed \cup {<<call[r].row, call[r].sent.client>>} ELSE mailed
    /\ GoOn(r, call[r], "mail")
    /\ UNCHANGED <<campaign, pillar, template, itemVars, assetVars, report, given>>

\* A request stops between two statements.
StopCall(r) ==
    /\ call[r].next \notin {"new", "over"}
    /\ Proceed(r, CallOver)
    /\ UNCHANGED <<campaign, pillar, template, itemVars, assetVars, reportVars>>
-----------------------------------------------------------------------------
CampaignRequests ==
    \E k \in Campaign : \/ \E c \in Client : CreateCampaign(k, c) \/ UpdateCampaign(k, c)
                        \/ RemoveCampaign(k)

ItemRequests ==
    \E i \in Item :
       \E r \in Call : \/ \E new \in ItemRow : CheckNewItem(r, i, new)
                       \/ \E sent \in UpdateContentItemDto : CheckItem(r, i, sent)

AssetRequests ==
    \E x \in Asset : \/ \E row \in AssetRow : CreateAsset(x, row) \/ UpdateAsset(x, row)
                     \/ \E r \in Call : AutoTag(r, x)

ReportRequests ==
    \E x \in Report :
       \/ \E c \in Client, s \in {"DRAFT", "READY", "SENT"} :
             CreateReport(x, c, s) \/ UpdateReport(x, c, s)
       \/ \E r \in Call : Send(r, x)

CallStep ==
    \E r \in Call : \/ InsertItem(r)
                    \/ EditItem(r)
                    \/ \E suggested \in SUBSET Tag : GenerateTags(r, suggested)
                    \/ SaveTags(r)
                    \/ MarkSent(r)
                    \/ \E sent \in Delivery : NotifyUser(r, sent)
                    \/ StopCall(r)

CatalogueNext ==
    \/ CampaignRequests \/ ItemRequests \/ AssetRequests \/ ReportRequests
    \/ \E x \in Pillar : WritePillar(x)
    \/ \E x \in Template : WriteTemplate(x)
    \/ CallStep

CatalogueSpec == CatalogueInit /\ [][CatalogueNext]_catalogueVars
-----------------------------------------------------------------------------
(***************************************************************************)
(* An item and its campaign are of the same client, through any creations, *)
(* edits and removals; unless the campaign was given to another client     *)
(* while the item named it or was being put in it, the item was given to   *)
(* another client without a word about its campaign, or two edits of the   *)
(* item were under way at once.                                            *)
(***************************************************************************)
CampaignOfClient ==
    \A i \in Rows(item) \ strayed :
        item[i].campaign # Nothing => campaign[item[i].campaign] = item[i].client

(***************************************************************************)
(* Tagging an asset never takes a tag away, unless the asset was written   *)
(* while the tags were being suggested.                                    *)
(***************************************************************************)
TagsKept ==
    [][\A r \in Call \ overtaken, x \in Asset :
         call[r].next = "tag" /\ call[r].row = x /\ call'[r].next = "over"
           => asset[x].tags \subseteq asset'[x].tags]_catalogueVars

(***************************************************************************)
(* A client that was mailed about a report finds it marked as sent, and it *)
(* is this client's own: send marks the report before it mails, and mails  *)
(* the client it read; unless the report was given to another client.      *)
(***************************************************************************)
MailedIsMarked ==
    \A note \in mailed :
        LET x == note[1] IN
        /\ x \in Rows(report) /\ report[x].sentAt
        /\ report[x].client = note[2] \/ x \in given
=============================================================================
