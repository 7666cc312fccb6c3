----------------------- MODULE MetaConnections_proofs -----------------------
(***************************************************************************)
(* Theorems about MetaConnections, for any links, owners, Pages, requests  *)
(* and tokens: its rows have their types, its links are one-time links in  *)
(* the sense of OneTimeLink, an authorization reads EXPIRED when its token *)
(* has lapsed, and a synchronisation leaves the Pages that Meta listed.    *)
(***************************************************************************)
EXTENDS MetaConnections, TLAPS

(***************************************************************************)
(* The inductive invariant.  MetaTypeOK by itself is not one: a request    *)
(* updates the rows it has in hand, which must not have gone.              *)
(***************************************************************************)
RowsOK == /\ oauthState \in [Nonce -> StateRow]
          /\ auth \in [Owner -> AuthRow \cup {NoRow}]
          /\ conn \in [Page -> ConnRow \cup {NoRow}]
          /\ lapsed \subseteq Token
          /\ redeemed \in [Nonce -> SUBSET Request]

\* What MetaTypeOK says of one request.
RequestOK(row) ==
    /\ row \in RequestRow
    /\ row.next \notin {"new", "consume", "exchange", "over", "failed"} =>
          row.owner \in Owner /\ row.token \in Token
    /\ row.next \in {"consume", "exchange"} => row.nonce \in Nonce

RequestsOK == /\ request \in [Request -> RequestRow]
              /\ \A r \in Request : RequestOK(request[r])

\* The row of the owner is there, and so are those that will be revoked.
OwnerInHand == {"fetch", "write", "list", "revoke", "mark", "expire"}
HandsHold ==
    \A r \in Request :
        /\ request[r].next \in OwnerInHand => auth[request[r].owner] # NoRow
        /\ request[r].next = "revoke" => \A p \in request[r].gone : conn[p] # NoRow

RowsInv == RowsOK /\ RequestsOK /\ HandsHold

LEMMA TypeOKSplits ==
    MetaTypeOK <=> RowsOK /\ RequestsOK /\ met \subseteq Request \cup Owner
BY DEF MetaTypeOK, RowsOK, RequestsOK, RequestOK

\* No row is taken away.
RowsStay == /\ \A o \in Owner : auth[o] # NoRow => auth'[o] # NoRow
            /\ \A p \in Page : conn[p] # NoRow => conn'[p] # NoRow

LEMMA RowsAreRows == /\ \A row \in AuthRow : row # NoRow
                     /\ \A row \in ConnRow : row # NoRow
BY DEF AuthRow, ConnRow, NoRow

-----------------------------------------------------------------------------
(***************************************************************************)
(* What is common to the steps.                                            *)
(***************************************************************************)
LEMMA BlankIsOK ==
    /\ RequestOK(Blank) /\ RequestOK(Over) /\ RequestOK(Failed)
    /\ \A n \in Nonce : RequestOK([Blank EXCEPT !.next = "consume", !.nonce = n])
BY DEF RequestOK, RequestRow, Blank, Over, Failed, Doing

\* A request goes on with another row in hand.
LEMMA ProceedsIsOK ==
    ASSUME RowsInv, RowsOK', RowsStay, NEW r \in Request, NEW row, RequestOK(row),
           Proceeds(r, row),
           row.next \in OwnerInHand => auth'[row.owner] # NoRow,
           row.next = "revoke" => \A p \in row.gone : conn'[p] # NoRow
    PROVE  RowsInv'
<1>1. request' = [request EXCEPT ![r] = row] /\ row \in RequestRow
  BY DEF Proceeds, RequestOK
<1>2. request' \in [Request -> RequestRow]
  BY <1>1 DEF RowsInv, RequestsOK
<1>3. \A q \in Request : RequestOK(request'[q])
  BY <1>1 DEF RowsInv, RequestsOK
<1>4. \A q \in Request \ {r} : request'[q] = request[q]
  BY <1>1 DEF RowsInv, RequestsOK
<1>5. request'[r] = row
  BY <1>1 DEF RowsInv, RequestsOK
<1>6. \A q \in Request : request[q].next \in OwnerInHand => request[q].owner \in Owner
  BY DEF RowsInv, RequestsOK, RequestOK, OwnerInHand
<1>7. \A q \in Request : request[q].gone \subseteq Page
  BY DEF RowsInv, RequestsOK, RequestRow
<1>8. ASSUME NEW q \in Request
      PROVE  /\ request'[q].next \in OwnerInHand => auth'[request'[q].owner] # NoRow
             /\ request'[q].next = "revoke" =>
                   \A p \in request'[q].gone : conn'[p] # NoRow
  <2>1. CASE q = r
    BY <1>5, <2>1
  <2>2. CASE q # r
    BY <1>4, <1>6, <1>7, <2>2 DEF RowsInv, HandsHold, RowsStay
  <2> QED BY <2>1, <2>2
<1>9. HandsHold'
  BY <1>8 DEF HandsHold, OwnerInHand
<1> QED BY <1>2, <1>3, <1>9 DEF RowsInv, RequestsOK, RequestOK

\* A request that is over, or failed, has nothing in hand.
LEMMA StopsIsOK ==
    ASSUME RowsInv, RowsOK', RowsStay, NEW r \in Request, Stops(r) \/ Ends(r)
    PROVE  RowsInv'
<1>1. Over.next \notin OwnerInHand /\ Failed.next \notin OwnerInHand
      /\ Over.next # "revoke" /\ Failed.next # "revoke"
  BY DEF Over, Failed, Blank, OwnerInHand
<1> QED BY <1>1, BlankIsOK, ProceedsIsOK DEF Stops, Ends

LEMMA SameRows == ASSUME RowsOK, UNCHANGED rowVars PROVE RowsOK' /\ RowsStay
BY DEF RowsOK, RowsStay, rowVars

LEMMA SameRequests == ASSUME RowsInv, RowsOK', RowsStay, UNCHANGED request PROVE RowsInv'
<1>1. RequestsOK'
  BY DEF RowsInv, RequestsOK, RequestOK
<1>2. \A q \in Request : /\ request[q].next \in OwnerInHand => request[q].owner \in Owner
                         /\ request[q].gone \subseteq Page
  BY DEF RowsInv, RequestsOK, RequestOK, RequestRow, OwnerInHand
<1>3. HandsHold'
  BY <1>2 DEF RowsInv, HandsHold, RowsStay, OwnerInHand
<1> QED BY <1>1, <1>3 DEF RowsInv

\* A request at work has an owner and a token in hand.
LEMMA AtWorkHasOwner ==
    ASSUME RowsInv, NEW r \in Request, request[r].next \in OwnerInHand \cup {"upsert"}
    PROVE  /\ request[r] \in RequestRow
           /\ request[r].owner \in Owner /\ request[r].token \in Token
           /\ request[r].next # "upsert" => auth[request[r].owner] \in AuthRow
BY DEF RowsInv, RequestsOK, RequestOK, HandsHold, RowsOK, OwnerInHand

-----------------------------------------------------------------------------
(***************************************************************************)
(* The steps, one by one.                                                  *)
(***************************************************************************)

\* The steps that no request makes.
LEMMA OthersAreOK ==
    ASSUME RowsInv,
           \/ \E n \in Nonce : createMetaOauthUrl(n) \/ LapseState(n)
           \/ \E t \in Token : LapseToken(t)
           \/ \E p \in Page : disconnect(p)
    PROVE  RowsInv'
<1>1. ASSUME NEW n \in Nonce, createMetaOauthUrl(n) \/ LapseState(n)
      PROVE  RowsOK' /\ RowsStay /\ UNCHANGED request
  BY <1>1 DEF RowsInv, RowsOK, RowsStay, createMetaOauthUrl, LapseState, StateRow
<1>2. ASSUME NEW t \in Token, LapseToken(t)
      PROVE  RowsOK' /\ RowsStay /\ UNCHANGED request
  BY <1>2 DEF RowsInv, RowsOK, RowsStay, LapseToken
<1>3. ASSUME NEW p \in Page, disconnect(p)
      PROVE  RowsOK' /\ RowsStay /\ UNCHANGED request
  <2>1. conn[p] \in ConnRow
    BY <1>3 DEF RowsInv, RowsOK, disconnect
  <2>2. [conn[p] EXCEPT !.status = "REVOKED"] \in ConnRow
    BY <2>1 DEF ConnRow
  <2> QED BY <1>3, <2>2, RowsAreRows DEF RowsInv, RowsOK, RowsStay, disconnect
<1> QED BY <1>1, <1>2, <1>3, SameRequests

\* The callback, up to its token.
LEMMA CallBackIsOK ==
    ASSUME RowsInv, NEW r \in Request, NEW n \in Nonce, CallBack(r, n)
    PROVE  RowsInv'
<1> DEFINE row == [Blank EXCEPT !.next = "consume", !.nonce = n]
<1>1. row.next \notin OwnerInHand /\ row.next # "revoke"
  BY DEF Blank, OwnerInHand
<1> QED BY <1>1, BlankIsOK, ProceedsIsOK, SameRows DEF CallBack, RowsInv

\* Purging deletes rows and changes nothing else of them.
LEMMA PurgedIsOK ==
    ASSUME NEW rows \in [Nonce -> StateRow], NEW new \in Purged(rows)
    PROVE  /\ new \in [Nonce -> StateRow]
           /\ \A n \in Nonce : /\ new[n].usedAt = rows[n].usedAt
                               /\ \/ new[n].life = rows[n].life
                                  \/ rows[n].life = "lapsed" /\ new[n].life = "deleted"
<1>1. PICK old \in {{}, {n \in Nonce : rows[n].life = "lapsed"}} :
         new = [n \in Nonce |-> IF n \in old THEN [rows[n] EXCEPT !.life = "deleted"]
                                             ELSE rows[n]]
  BY DEF Purged
<1>2. \A n \in Nonce : rows[n] \in StateRow
  OBVIOUS
<1>3. \A n \in old : n \in Nonce /\ rows[n].life = "lapsed"
  BY <1>1
<1>4. \A n \in Nonce : [rows[n] EXCEPT !.life = "deleted"] \in StateRow
  BY <1>2 DEF StateRow
<1>5. \A n \in Nonce : [rows[n] EXCEPT !.life = "deleted"].usedAt = rows[n].usedAt
                        /\ [rows[n] EXCEPT !.life = "deleted"].life = "deleted"
  BY <1>2 DEF StateRow
<1> QED BY <1>1, <1>2, <1>3, <1>4, <1>5

LEMMA ConsumeIsOK ==
    ASSUME RowsInv, NEW r \in Request, ConsumeOauthState(r)
    PROVE  RowsInv'
<1> DEFINE n == request[r].nonce
           used == [oauthState EXCEPT ![n].usedAt = TRUE]
           row == [request[r] EXCEPT !.next = "exchange"]
<1>1. n \in Nonce /\ request[r] \in RequestRow
  BY DEF ConsumeOauthState, RowsInv, RequestsOK, RequestOK
<1>2. CASE Unused(oauthState[n])
  <2>1. used \in [Nonce -> StateRow]
    BY <1>1 DEF RowsInv, RowsOK, StateRow
  <2>2. oauthState' \in [Nonce -> StateRow]
    BY <1>2, <2>1, PurgedIsOK DEF ConsumeOauthState
  <2>3. redeemed' \in [Nonce -> SUBSET Request]
    BY <1>1, <1>2 DEF ConsumeOauthState, RowsInv, RowsOK
  <2>4. RequestOK(row) /\ row.next \notin OwnerInHand /\ row.next # "revoke"
    BY <1>1 DEF RequestOK, RequestRow, Doing, OwnerInHand
  <2>5. RowsOK' /\ RowsStay
    BY <2>2, <2>3 DEF ConsumeOauthState, RowsInv, RowsOK, RowsStay
  <2> QED BY <1>2, <2>4, <2>5, ProceedsIsOK DEF ConsumeOauthState
<1>3. CASE ~Unused(oauthState[n])
  <2>1. RowsOK' /\ RowsStay
    BY <1>3 DEF ConsumeOauthState, RowsInv, RowsOK, RowsStay
  <2> QED BY <1>3, <2>1, StopsIsOK DEF ConsumeOauthState
<1> QED BY <1>2, <1>3

LEMMA ExchangeIsOK ==
    ASSUME RowsInv, NEW r \in Request, NEW o \in Owner, NEW t \in Token, Exchange(r, o, t)
    PROVE  RowsInv'
<1> DEFINE row == [request[r] EXCEPT !.next = "upsert", !.owner = o, !.token = t,
                                     !.found = Authorized(o)]
<1>1. request[r] \in RequestRow
  BY DEF RowsInv, RequestsOK, RequestOK
<1>2. Authorized(o) \in BOOLEAN
  BY DEF Authorized
<1>3. RequestOK(row) /\ row.next \notin OwnerInHand /\ row.next # "revoke"
  BY <1>1, <1>2 DEF RequestOK, RequestRow, Doing, OwnerInHand
<1> QED BY <1>3, ProceedsIsOK, SameRows DEF Exchange, RowsInv

LEMMA UpsertIsOK ==
    ASSUME RowsInv, NEW r \in Request, upsertAuthorization(r)
    PROVE  RowsInv'
<1> DEFINE o == request[r].owner
           new == [token |-> request[r].token, status |-> "CONNECTED"]
           row == [request[r] EXCEPT !.next = "fetch"]
<1>1. request[r] \in RequestRow /\ o \in Owner /\ request[r].token \in Token
  BY AtWorkHasOwner DEF upsertAuthorization
<1>2. RequestOK(row) /\ row.owner = o /\ row.next # "revoke"
  BY <1>1 DEF RequestOK, RequestRow, Doing
<1>3. new \in AuthRow
  BY <1>1 DEF AuthRow
<1>4. CASE Authorized(o) /\ ~request[r].found
  <2>1. RowsOK' /\ RowsStay
    BY <1>4 DEF upsertAuthorization, RowsInv, RowsOK, RowsStay
  <2> QED BY <1>4, <2>1, StopsIsOK DEF upsertAuthorization
<1>5. CASE ~(Authorized(o) /\ ~request[r].found)
  <2>1. auth' = [auth EXCEPT ![o] = new] /\ Proceeds(r, row)
    BY <1>5 DEF upsertAuthorization
  <2>2. RowsOK' /\ RowsStay /\ auth'[o] # NoRow
    BY <1>1, <1>3, <2>1, RowsAreRows DEF upsertAuthorization, RowsInv, RowsOK, RowsStay
  <2> QED BY <1>2, <2>1, <2>2, ProceedsIsOK
<1> QED BY <1>4, <1>5

\* A synchronisation begins with the token of a row.
LEMMA SyncIsOK ==
    ASSUME RowsInv, NEW r \in Request, NEW o \in Owner, syncAuthorization(r, o)
    PROVE  RowsInv'
<1> DEFINE next == IF HasExpired(auth[o].token) THEN "expire" ELSE "fetch"
           row == [Blank EXCEPT !.sync = TRUE, !.owner = o, !.token = auth[o].token,
                                !.next = next]
<1>1. auth[o].token \in Token /\ auth[o] # NoRow
  BY DEF syncAuthorization, Authorized, RowsInv, RowsOK, AuthRow
<1>2. next \in {"expire", "fetch"}
  OBVIOUS
<1>3. Proceeds(r, row) /\ RowsOK' /\ RowsStay /\ UNCHANGED auth
  BY SameRows DEF syncAuthorization, RowsInv, rowVars
<1> HIDE DEF next
<1>4. RequestOK(row) /\ row.owner = o /\ row.next # "revoke"
  BY <1>1, <1>2 DEF RequestOK, RequestRow, Blank, Doing
<1> QED BY <1>1, <1>3, <1>4, ProceedsIsOK

\* The status of an authorization changes, and the request is over.
LEMMA MarkIsOK ==
    ASSUME RowsInv, NEW r \in Request, MarkExpired(r) \/ MarkConnected(r)
    PROVE  RowsInv'
<1> DEFINE o == request[r].owner
<1>1. o \in Owner /\ auth[o] \in AuthRow
  BY AtWorkHasOwner DEF MarkExpired, MarkConnected, OwnerInHand
<1>2. \A s \in {"EXPIRED", "CONNECTED"} : [auth[o] EXCEPT !.status = s] \in AuthRow
  BY <1>1 DEF AuthRow
<1>3. RowsOK' /\ RowsStay
  BY <1>1, <1>2, RowsAreRows DEF MarkExpired, MarkConnected, RowsInv, RowsOK, RowsStay
<1> QED BY <1>3, StopsIsOK DEF MarkExpired, MarkConnected

LEMMA FetchIsOK ==
    ASSUME RowsInv, NEW r \in Request, NEW pages \in SUBSET Page, FetchAllPages(r, pages)
    PROVE  RowsInv'
<1> DEFINE next == IF pages = {} THEN "list" ELSE "write"
           known == {p \in pages : conn[p] # NoRow}
           row == [request[r] EXCEPT !.pages = pages, !.left = pages,
                                     !.known = known, !.next = next]
<1>1. /\ request[r] \in RequestRow /\ request[r].owner \in Owner
      /\ request[r].token \in Token /\ auth[request[r].owner] \in AuthRow
  BY AtWorkHasOwner DEF FetchAllPages, OwnerInHand
<1>2. next \in {"list", "write"} /\ known \in SUBSET Page
  OBVIOUS
<1>3. Proceeds(r, row) /\ RowsOK' /\ RowsStay /\ UNCHANGED auth
  BY SameRows DEF FetchAllPages, RowsInv, rowVars
<1> HIDE DEF next, known
<1>4. RequestOK(row) /\ row.owner = request[r].owner /\ row.next # "revoke"
  BY <1>1, <1>2 DEF RequestOK, RequestRow, Doing
<1> QED BY <1>1, <1>3, <1>4, RowsAreRows, ProceedsIsOK

LEMMA WritePageIsOK ==
    ASSUME RowsInv, NEW r \in Request, NEW p \in Page, WritePage(r, p)
    PROVE  RowsInv'
<1> DEFINE next == IF request[r].left = {p} THEN "list" ELSE "write"
           row == [request[r] EXCEPT !.left = @ \ {p}, !.next = next]
<1>1. /\ request[r] \in RequestRow /\ request[r].owner \in Owner
      /\ request[r].token \in Token /\ auth[request[r].owner] \in AuthRow
  BY AtWorkHasOwner DEF WritePage, OwnerInHand
<1>2. next \in {"list", "write"} /\ request[r].left \in SUBSET Page
  BY <1>1 DEF RequestRow
<1>3. Written(r, conn[p]) \in ConnRow
  BY <1>1 DEF Written, ConnRow
<1>4. CASE p \notin request[r].known /\ conn[p] # NoRow
  <2>1. RowsOK' /\ RowsStay
    BY <1>4 DEF WritePage, RowsInv, RowsOK, RowsStay
  <2> QED BY <1>4, <2>1, StopsIsOK DEF WritePage
<1>5. CASE ~(p \notin request[r].known /\ conn[p] # NoRow)
  <2>1. conn' = [conn EXCEPT ![p] = Written(r, conn[p])] /\ Proceeds(r, row)
        /\ UNCHANGED <<oauthState, auth, lapsed, redeemed>>
    BY <1>5 DEF WritePage, Written
  <2>2. RowsOK' /\ RowsStay
    BY <1>3, <2>1, RowsAreRows DEF RowsInv, RowsOK, RowsStay
  <2> HIDE DEF next
  <2>3. RequestOK(row) /\ row.owner = request[r].owner /\ row.next # "revoke"
    BY <1>1, <1>2 DEF RequestOK, RequestRow, Doing
  <2> QED BY <1>1, <2>1, <2>2, <2>3, RowsAreRows, ProceedsIsOK
<1> QED BY <1>4, <1>5

\* Done with the Pages, a request is over, or marks its authorization.
LEMMA AfterPagesIsOK ==
    ASSUME RowsInv, RowsOK', RowsStay, NEW r \in Request,
           request[r].next \in OwnerInHand, Proceeds(r, AfterPages(r))
    PROVE  RowsInv'
<1> DEFINE row == [request[r] EXCEPT !.next = "mark"]
<1>1. /\ request[r] \in RequestRow /\ request[r].owner \in Owner
      /\ request[r].token \in Token /\ auth[request[r].owner] \in AuthRow
  BY AtWorkHasOwner DEF OwnerInHand
<1>2. RequestOK(row) /\ row.owner = request[r].owner /\ row.next # "revoke"
  BY <1>1 DEF RequestOK, RequestRow, Doing
<1>3. auth'[row.owner] # NoRow
  BY <1>1, <1>2, RowsAreRows DEF RowsStay
<1>4. CASE request[r].sync
  <2>1. Proceeds(r, row)
    BY <1>4 DEF AfterPages
  <2> QED BY <1>2, <1>3, <2>1, ProceedsIsOK
<1>5. CASE ~request[r].sync
  BY <1>5, StopsIsOK DEF AfterPages, Ends
<1> QED BY <1>4, <1>5

LEMMA ListIsOK ==
    ASSUME RowsInv, NEW r \in Request, ListUnlisted(r)
    PROVE  RowsInv'
<1> DEFINE row == [request[r] EXCEPT !.next = "revoke", !.gone = Unlisted(r)]
<1>1. /\ request[r] \in RequestRow /\ request[r].owner \in Owner
      /\ request[r].token \in Token /\ auth[request[r].owner] \in AuthRow
      /\ request[r].next \in OwnerInHand
  BY AtWorkHasOwner DEF ListUnlisted, OwnerInHand
<1>2. Unlisted(r) \in SUBSET Page /\ \A p \in Unlisted(r) : conn[p] # NoRow
  BY DEF Unlisted
<1>3. RequestOK(row) /\ row.owner = request[r].owner /\ row.gone = Unlisted(r)
  BY <1>1, <1>2 DEF RequestOK, RequestRow, Doing
<1>4. RowsOK' /\ RowsStay /\ UNCHANGED <<auth, conn>>
  BY SameRows DEF ListUnlisted, RowsInv, rowVars
<1>5. CASE Unlisted(r) = {}
  BY <1>1, <1>4, <1>5, AfterPagesIsOK DEF ListUnlisted
<1>6. CASE Unlisted(r) # {}
  <2>1. Proceeds(r, row)
    BY <1>6 DEF ListUnlisted
  <2> QED BY <1>1, <1>2, <1>3, <1>4, <2>1, RowsAreRows, ProceedsIsOK
<1> QED BY <1>5, <1>6

LEMMA RevokeIsOK ==
    ASSUME RowsInv, NEW r \in Request, RevokeUnlisted(r)
    PROVE  RowsInv'
<1>1. request[r].next \in OwnerInHand
  BY DEF RevokeUnlisted, OwnerInHand
<1>2. \A p \in Page : p \in request[r].gone => conn[p] \in ConnRow
  BY DEF RevokeUnlisted, RowsInv, RowsOK, HandsHold
<1>3. \A p \in Page : p \in request[r].gone => [conn[p] EXCEPT !.status = "REVOKED"] \in ConnRow
  BY <1>2 DEF ConnRow
<1>4. RowsOK' /\ RowsStay
  BY <1>3, RowsAreRows DEF RevokeUnlisted, RowsInv, RowsOK, RowsStay
<1> QED BY <1>1, <1>4, AfterPagesIsOK DEF RevokeUnlisted

-----------------------------------------------------------------------------
LEMMA InitIsOK == MetaInit => RowsInv /\ MetaTypeOK
<1> SUFFICES ASSUME MetaInit PROVE RowsInv /\ met \subseteq Request \cup Owner
  BY TypeOKSplits DEF RowsInv
<1>1. RowsOK
  BY DEF MetaInit, RowsOK, StateRow
<1>2. RequestsOK
  BY BlankIsOK DEF MetaInit, RequestsOK, RequestOK
<1>3. Blank.next \notin OwnerInHand /\ Blank.next # "revoke"
  BY DEF Blank, OwnerInHand
<1>4. HandsHold
  BY <1>3 DEF MetaInit, HandsHold
<1> QED BY <1>1, <1>2, <1>4 DEF RowsInv, MetaInit

LEMMA StepIsOK == ASSUME RowsInv, MetaStep PROVE RowsInv'
<1>1. ASSUME NEW r \in Request, Fail(r) PROVE RowsInv'
  BY <1>1, StopsIsOK, SameRows DEF Fail, RowsInv
<1> QED BY <1>1, OthersAreOK, CallBackIsOK, ConsumeIsOK, ExchangeIsOK, UpsertIsOK,
           SyncIsOK, MarkIsOK, FetchIsOK, WritePageIsOK, ListIsOK, RevokeIsOK
        DEF MetaStep

LEMMA NextIsOK ==
    ASSUME RowsInv, met \subseteq Request \cup Owner, [MetaNext]_metaVars
    PROVE  RowsInv' /\ met' \subseteq Request \cup Owner
<1>1. CASE MetaStep /\ met' = met \cup Disturbed'
  <2>1. RowsInv'
    BY <1>1, StepIsOK
  <2>2. Disturbed' \subseteq Request \cup Owner
    BY <2>1 DEF Disturbed, Crowded, Working, AtWork, RowsInv, RequestsOK, RequestRow
  <2> QED BY <1>1, <2>1, <2>2
<1>2. CASE (\E p \in Page : disconnect(p)) /\ met' = met \cup Working
  BY <1>2, OthersAreOK DEF Working
<1>3. CASE UNCHANGED metaVars
  <2>1. UNCHANGED rowVars /\ UNCHANGED request /\ UNCHANGED met
    BY <1>3 DEF metaVars, rowVars
  <2> QED BY <2>1, SameRows, SameRequests DEF RowsInv
<1> QED BY <1>1, <1>2, <1>3 DEF MetaNext

(***************************************************************************)
(* Every row, and what every request has in hand, has its type: what the   *)
(* services keep in meta_oauth_states, meta_authorizations and             *)
(* social_connections, and that a request at work has an owner and a token.*)
(***************************************************************************)
THEOREM MetaTypeCorrect == MetaSpec => []MetaTypeOK
<1> DEFINE Inv == RowsInv /\ met \subseteq Request \cup Owner
<1>1. MetaInit => Inv
  BY InitIsOK DEF MetaInit
<1>2. Inv /\ [MetaNext]_metaVars => Inv'
  BY NextIsOK
<1>3. Inv => MetaTypeOK
  BY TypeOKSplits DEF RowsInv
<1> QED BY <1>1, <1>2, <1>3, PTL DEF MetaSpec
-----------------------------------------------------------------------------
(***************************************************************************)
(* The links are one-time links.  A row reads as used exactly when a       *)
(* callback got past it, and a link is deleted only when it has lapsed.    *)
(***************************************************************************)
UsedIsRedeemed == \A n \in Nonce : oauthState[n].usedAt <=> redeemed[n] # {}

LinksInv == RowsInv /\ UsedIsRedeemed

\* What OneTimeLink sees of the state.
LifeOf(n) == IF oauthState[n].life = "deleted" THEN "lapsed" ELSE oauthState[n].life
Presented == {<<r, request[r].nonce>> : r \in {q \in Request : request[q].next = "consume"}}

\* What becomes of the links presented when one request goes on.
LEMMA PresentedChanges ==
    ASSUME RowsInv, NEW r \in Request, NEW row, Proceeds(r, row), row \in RequestRow
    PROVE  /\ request[r].next # "consume" /\ row.next # "consume" => Presented' = Presented
           /\ request[r].next # "consume" /\ row.next = "consume" =>
                 Presented' = Presented \cup {<<r, row.nonce>>}
           /\ request[r].next = "consume" /\ row.next # "consume" =>
                 Presented' = Presented \ {<<r, request[r].nonce>>}
<1>1. /\ request'[r] = row
      /\ \A q \in Request \ {r} : request'[q] = request[q]
  BY DEF Proceeds, RowsInv, RequestsOK
<1>2. CASE request[r].next # "consume" /\ row.next # "consume"
  BY <1>1, <1>2 DEF Presented
<1>3. CASE request[r].next # "consume" /\ row.next = "consume"
  BY <1>1, <1>3 DEF Presented
<1>4. CASE request[r].next = "consume" /\ row.next # "consume"
  BY <1>1, <1>4 DEF Presented
<1> QED BY <1>2, <1>3, <1>4

\* A step that OneTimeLink does not see.
Quiet == UNCHANGED <<oauthState, redeemed>> /\ Presented' = Presented

LEMMA QuietMaps ==
    ASSUME LinksInv, Quiet
    PROVE  UsedIsRedeemed' /\ UNCHANGED Links!vars
BY DEF Quiet, LinksInv, UsedIsRedeemed, Links!vars, Presented

\* The steps of the links themselves.
LEMMA IssueMaps ==
    ASSUME LinksInv, NEW n \in Nonce, createMetaOauthUrl(n)
    PROVE  UsedIsRedeemed' /\ Links!Issue(n)
<1>1. /\ LifeOf(n) = "unissued"
      /\ \A m \in Nonce : LifeOf(m)' = IF m = n THEN "valid" ELSE LifeOf(m)
  BY DEF createMetaOauthUrl, LinksInv, RowsInv, RowsOK, StateRow, LifeOf
<1>2. UNCHANGED <<request, redeemed>>
  BY DEF createMetaOauthUrl
<1>3. UsedIsRedeemed'
  BY DEF createMetaOauthUrl, LinksInv, RowsInv, RowsOK, StateRow, UsedIsRedeemed
<1> QED BY <1>1, <1>2, <1>3 DEF Links!Issue, LifeOf

LEMMA LapseMaps ==
    ASSUME LinksInv, NEW n \in Nonce, LapseState(n)
    PROVE  UsedIsRedeemed' /\ Links!Lapse(n)
<1>1. /\ LifeOf(n) = "valid"
      /\ \A m \in Nonce : LifeOf(m)' = IF m = n THEN "lapsed" ELSE LifeOf(m)
  BY DEF LapseState, LinksInv, RowsInv, RowsOK, StateRow, LifeOf
<1>2. UNCHANGED <<request, redeemed>>
  BY DEF LapseState
<1>3. UsedIsRedeemed'
  BY DEF LapseState, LinksInv, RowsInv, RowsOK, StateRow, UsedIsRedeemed
<1> QED BY <1>1, <1>2, <1>3 DEF Links!Lapse, LifeOf

\* A callback that finds the row presents the link.
LEMMA CallBackMaps ==
    ASSUME LinksInv, NEW r \in Request, NEW n \in Nonce, CallBack(r, n)
    PROVE  UsedIsRedeemed' /\ Links!Present(r, n)
<1> DEFINE row == [Blank EXCEPT !.next = "consume", !.nonce = n]
<1>1. row \in RequestRow /\ row.next = "consume" /\ row.nonce = n
  BY BlankIsOK DEF RequestOK, Blank
<1>2. Presented' = Presented \cup {<<r, n>>}
  BY <1>1, PresentedChanges DEF CallBack, LinksInv
<1>3. UNCHANGED <<oauthState, redeemed>> /\ LifeOf(n) = "valid" /\ redeemed[n] = {}
  BY DEF CallBack, rowVars, LifeOf, LinksInv, UsedIsRedeemed
<1> QED BY <1>2, <1>3 DEF Links!Present, Presented, LifeOf, LinksInv, UsedIsRedeemed

\* The one that marks the row redeems the link; the others are refused.
LEMMA RefuseMaps ==
    ASSUME LinksInv, NEW r \in Request, NEW n \in Nonce, n = request[r].nonce,
           request[r].next = "consume", Stops(r), UNCHANGED <<oauthState, redeemed>>
    PROVE  UsedIsRedeemed' /\ Links!Refuse(r, n)
<1>1. Failed \in RequestRow /\ Failed.next # "consume"
  BY BlankIsOK DEF RequestOK, Failed, Blank
<1>2. Presented' = Presented \ {<<r, n>>}
  BY <1>1, PresentedChanges DEF Stops, LinksInv
<1> QED BY <1>2 DEF Links!Refuse, Presented, LinksInv, UsedIsRedeemed

LEMMA ConsumeMaps ==
    ASSUME LinksInv, NEW r \in Request, NEW n \in Nonce, n = request[r].nonce,
           ConsumeOauthState(r)
    PROVE  UsedIsRedeemed' /\ (Links!Redeem(r, n) \/ Links!Refuse(r, n))
<1> DEFINE used == [oauthState EXCEPT ![n].usedAt = TRUE]
           row == [request[r] EXCEPT !.next = "exchange"]
<1>1. n \in Nonce /\ request[r] \in RequestRow /\ request[r].next = "consume"
  BY DEF ConsumeOauthState, LinksInv, RowsInv, RequestsOK, RequestOK
<1>2. CASE Unused(oauthState[n])
  <2>1. /\ used \in [Nonce -> StateRow] /\ used[n].usedAt
        /\ \A m \in Nonce : used[m].life = oauthState[m].life
        /\ \A m \in Nonce \ {n} : used[m].usedAt = oauthState[m].usedAt
    BY <1>1 DEF LinksInv, RowsInv, RowsOK, StateRow
  <2>2. /\ oauthState' \in Purged(used) /\ Proceeds(r, row)
        /\ redeemed' = [redeemed EXCEPT ![n] = @ \cup {r}]
    BY <1>2 DEF ConsumeOauthState
  <2>3. /\ \A m \in Nonce : LifeOf(m)' = LifeOf(m)
        /\ oauthState'[n].usedAt
        /\ \A m \in Nonce \ {n} : oauthState'[m].usedAt = oauthState[m].usedAt
    <3> HIDE DEF used
    <3>1. \A m \in Nonce : /\ oauthState'[m].usedAt = used[m].usedAt
                           /\ \/ oauthState'[m].life = used[m].life
                              \/ used[m].life = "lapsed" /\ oauthState'[m].life = "deleted"
      BY <2>1, <2>2, PurgedIsOK
    <3> QED BY <1>1, <2>1, <3>1 DEF LifeOf
  <2>4. redeemed[n] = {} /\ redeemed \in [Nonce -> SUBSET Request]
    BY <1>1, <1>2 DEF Unused, LinksInv, UsedIsRedeemed, RowsInv, RowsOK
  <2>5. redeemed' = [redeemed EXCEPT ![n] = {r}]
    BY <2>2, <2>4
  <2>6. UsedIsRedeemed'
    BY <1>1, <2>3, <2>4, <2>5 DEF LinksInv, UsedIsRedeemed
  <2>7. row \in RequestRow /\ row.next # "consume"
    BY <1>1 DEF RequestRow, Doing
  <2>8. Presented' = Presented \ {<<r, n>>} /\ <<r, n>> \in Presented
    BY <1>1, <2>2, <2>7, PresentedChanges DEF LinksInv, Presented
  <2> QED BY <1>1, <2>3, <2>4, <2>5, <2>6, <2>8 DEF Links!Redeem, Presented, LifeOf
<1>3. CASE ~Unused(oauthState[n])
  BY <1>1, <1>3, RefuseMaps DEF ConsumeOauthState
<1> QED BY <1>2, <1>3

\* A request that has nothing to do with a link, before the step or after.
LEMMA OtherStepsAreQuiet ==
    ASSUME LinksInv, NEW r \in Request, NEW row, Proceeds(r, row), row \in RequestRow,
           request[r].next # "consume", row.next # "consume",
           UNCHANGED <<oauthState, redeemed>>
    PROVE  Quiet
BY PresentedChanges DEF Quiet, LinksInv

\* What a request becomes in a step that leaves the links alone.
LEMMA RequestsAreQuiet ==
    ASSUME LinksInv, RowsInv', NEW r \in Request,
           \/ \E o \in Owner, t \in Token : Exchange(r, o, t)
           \/ \E o \in Owner : syncAuthorization(r, o)
           \/ \E pages \in SUBSET Page : FetchAllPages(r, pages)
           \/ \E p \in Page : WritePage(r, p)
           \/ upsertAuthorization(r) \/ MarkExpired(r) \/ MarkConnected(r)
           \/ ListUnlisted(r) \/ RevokeUnlisted(r)
           \/ Fail(r) /\ request[r].next # "consume"
    PROVE  Quiet
<1>1. request[r].next # "consume" /\ UNCHANGED <<oauthState, redeemed>>
  BY DEF Exchange, syncAuthorization, FetchAllPages, WritePage, upsertAuthorization,
         MarkExpired, MarkConnected, ListUnlisted, RevokeUnlisted, Fail, rowVars
<1>2. PICK row : Proceeds(r, row)
  BY DEF Exchange, syncAuthorization, FetchAllPages, WritePage, upsertAuthorization,
         MarkExpired, MarkConnected, ListUnlisted, RevokeUnlisted, Fail, Stops, Ends
<1>3. request'[r] = row /\ row \in RequestRow
  BY <1>2 DEF Proceeds, LinksInv, RowsInv, RequestsOK
<1>4. row.next # "consume"
  <2>1. request \in [Request -> RequestRow] /\ request[r] \in RequestRow
    BY DEF LinksInv, RowsInv, RequestsOK
  <2>2. Over.next = "over" /\ Failed.next = "failed" /\ Blank.next = "new"
    BY DEF Over, Failed, Blank
  <2>3. CASE \E o \in Owner, t \in Token : Exchange(r, o, t)
    <3>1. PICK o \in Owner, t \in Token : Exchange(r, o, t)
      BY <2>3
    <3> DEFINE found == Authorized(o)
               new == [request[r] EXCEPT !.next = "upsert", !.owner = o, !.token = t,
                                         !.found = found]
    <3>2. request'[r] = new
      BY <2>1, <3>1 DEF Exchange, Proceeds
    <3> HIDE DEF found
    <3>3. new.next = "upsert"
      BY <2>1 DEF RequestRow
    <3> QED BY <1>3, <3>2, <3>3
  <2>4. CASE \E o \in Owner : syncAuthorization(r, o)
    BY <1>3, <2>1, <2>4 DEF syncAuthorization, Proceeds, Blank
  <2>5. CASE \E pages \in SUBSET Page : FetchAllPages(r, pages)
    <3>1. PICK pages \in SUBSET Page : FetchAllPages(r, pages)
      BY <2>5
    <3> DEFINE next == IF pages = {} THEN "list" ELSE "write"
               known == {p \in pages : conn[p] # NoRow}
               new == [request[r] EXCEPT !.pages = pages, !.left = pages,
                                         !.known = known, !.next = next]
    <3>2. request'[r] = new /\ next # "consume"
      BY <2>1, <3>1 DEF FetchAllPages, Proceeds
    <3> HIDE DEF next, known
    <3>3. new.next = next
      BY <2>1 DEF RequestRow
    <3> QED BY <1>3, <3>2, <3>3
  <2>6. CASE \E p \in Page : WritePage(r, p)
    <3>1. PICK p \in Page : WritePage(r, p)
      BY <2>6
    <3> DEFINE next == IF request[r].left = {p} THEN "list" ELSE "write"
               left == request[r].left \ {p}
               new == [request[r] EXCEPT !.left = left, !.next = next]
    <3>2. (request'[r] = Failed \/ request'[r] = new) /\ next # "consume"
      BY <2>1, <3>1 DEF WritePage, Proceeds, Stops
    <3> HIDE DEF next, left
    <3>3. new.next = next
      BY <2>1 DEF RequestRow
    <3> QED BY <1>3, <2>2, <3>2, <3>3
  <2>7. CASE upsertAuthorization(r)
    BY <1>3, <2>1, <2>2, <2>7 DEF upsertAuthorization, Proceeds, Stops, RequestRow
  <2>8. CASE MarkExpired(r) \/ MarkConnected(r) \/ Fail(r)
    BY <1>3, <2>1, <2>2, <2>8 DEF MarkExpired, MarkConnected, Fail, Proceeds, Stops, Ends
  <2>9. CASE ListUnlisted(r) \/ RevokeUnlisted(r)
    <3> DEFINE mark == [request[r] EXCEPT !.next = "mark"]
               gone == Unlisted(r)
               revoke == [request[r] EXCEPT !.next = "revoke", !.gone = gone]
    <3>1. request'[r] \in {mark, revoke, Over}
      BY <2>1, <2>9 DEF ListUnlisted, RevokeUnlisted, AfterPages, Proceeds
    <3> HIDE DEF gone
    <3>2. mark.next = "mark" /\ revoke.next = "revoke"
      BY <2>1 DEF RequestRow
    <3> QED BY <1>3, <2>2, <3>1, <3>2
  <2> QED BY <2>3, <2>4, <2>5, <2>6, <2>7, <2>8, <2>9
<1> QED BY <1>1, <1>2, <1>3, <1>4, OtherStepsAreQuiet

\* The steps that no request makes, and that are not about links.
LEMMA OthersAreQuiet ==
    ASSUME LinksInv,
           (\E t \in Token : LapseToken(t)) \/ (\E p \in Page : disconnect(p))
             \/ UNCHANGED metaVars
    PROVE  Quiet
BY DEF LapseToken, disconnect, metaVars, Quiet, Presented

LEMMA LinksInitMaps == MetaInit => UsedIsRedeemed /\ Links!Init
<1> SUFFICES ASSUME MetaInit PROVE UsedIsRedeemed /\ Links!Init
  OBVIOUS
<1>1. UsedIsRedeemed
  BY DEF MetaInit, UsedIsRedeemed
<1>2. Presented = {}
  BY DEF MetaInit, Presented, Blank
<1>3. \A n \in Nonce : LifeOf(n) = "unissued"
  BY DEF MetaInit, LifeOf
<1> QED BY <1>1, <1>2, <1>3 DEF MetaInit, Links!Init, Presented, LifeOf

\* Every step is one of a link, or one that the links do not see.
LEMMA LinksStepMaps ==
    ASSUME LinksInv, RowsInv', [MetaNext]_metaVars
    PROVE  UsedIsRedeemed' /\ [Links!Next]_Links!vars
<1>1. ASSUME Quiet PROVE UsedIsRedeemed' /\ [Links!Next]_Links!vars
  BY <1>1, QuietMaps
<1>2. ASSUME NEW n \in Nonce, createMetaOauthUrl(n) \/ LapseState(n)
      PROVE  UsedIsRedeemed' /\ Links!Next
  BY <1>2, IssueMaps, LapseMaps DEF Links!Next
<1>3. ASSUME NEW r \in Request, NEW n \in Nonce, CallBack(r, n)
      PROVE  UsedIsRedeemed' /\ Links!Next
  BY <1>3, CallBackMaps DEF Links!Next
<1>4. ASSUME NEW r \in Request, ConsumeOauthState(r)
      PROVE  UsedIsRedeemed' /\ Links!Next
  <2>1. PICK n \in Nonce : n = request[r].nonce
    BY <1>4 DEF ConsumeOauthState, LinksInv, RowsInv, RequestsOK, RequestOK
  <2> QED BY <1>4, <2>1, ConsumeMaps DEF Links!Next
<1>5. ASSUME NEW r \in Request, Fail(r), request[r].next = "consume"
      PROVE  UsedIsRedeemed' /\ Links!Next
  <2>1. PICK n \in Nonce : n = request[r].nonce
    BY <1>5 DEF LinksInv, RowsInv, RequestsOK, RequestOK
  <2> QED BY <1>5, <2>1, RefuseMaps DEF Links!Next, Fail, rowVars
<1>6. CASE MetaStep
  <2> DEFINE Done == UsedIsRedeemed' /\ [Links!Next]_Links!vars
  <2>1. CASE (\E n \in Nonce : createMetaOauthUrl(n) \/ LapseState(n))
               \/ \E t \in Token : LapseToken(t)
    BY <1>1, <1>2, <2>1, OthersAreQuiet
  <2>2. ASSUME NEW r \in Request,
               \/ \E n \in Nonce : CallBack(r, n)
               \/ ConsumeOauthState(r)
               \/ Fail(r) /\ request[r].next = "consume"
        PROVE  Done
    BY <1>3, <1>4, <1>5, <2>2
  <2>3. ASSUME NEW r \in Request,
           \/ \E o \in Owner, t \in Token : Exchange(r, o, t)
           \/ \E o \in Owner : syncAuthorization(r, o)
           \/ \E pages \in SUBSET Page : FetchAllPages(r, pages)
           \/ \E p \in Page : WritePage(r, p)
           \/ upsertAuthorization(r) \/ MarkExpired(r) \/ MarkConnected(r)
           \/ ListUnlisted(r) \/ RevokeUnlisted(r)
           \/ Fail(r) /\ request[r].next # "consume"
        PROVE  Done
    <3>1. Quiet
      BY <2>3, RequestsAreQuiet
    <3> QED BY <1>1, <3>1
  <2> HIDE DEF Done
  <2>4. Done
    BY <1>6, <2>1, <2>2, <2>3 DEF MetaStep, Done
  <2> QED BY <2>4 DEF Done
<1>7. CASE (\E p \in Page : disconnect(p)) \/ UNCHANGED metaVars
  <2>1. Quiet
    BY <1>7, OthersAreQuiet
  <2> QED BY <1>1, <2>1
<1> QED BY <1>6, <1>7 DEF MetaNext

(***************************************************************************)
(* The authorization links implement OneTimeLink: however many callbacks   *)
(* present a link at once, with failures and deletions of old rows in      *)
(* between, one of them at most gets past consumeOauthState.               *)
(***************************************************************************)
THEOREM LinksImplemented == MetaSpec => LinksRedeemedOnce
<1> DEFINE Inv == RowsInv /\ UsedIsRedeemed /\ met \subseteq Request \cup Owner
<1>1. MetaInit => Inv /\ Links!Init
  BY InitIsOK, LinksInitMaps DEF MetaInit
<1>2. Inv /\ [MetaNext]_metaVars => Inv' /\ [Links!Next]_Links!vars
  BY NextIsOK, LinksStepMaps DEF LinksInv
<1> QED BY <1>1, <1>2, PTL DEF MetaSpec, LinksRedeemedOnce, Links!Spec

\* A link is redeemed by one request at most.
RedeemedByOne ==
    /\ redeemed \in [Nonce -> SUBSET Request]
    /\ \A n \in Nonce : \A q, r \in redeemed[n] : q = r

(***************************************************************************)
(* What OneTimeLink promises: no two hold one link.  With LinksImplemented *)
(* the callbacks that follow one authorization link connect one account.   *)
(***************************************************************************)
THEOREM OneRedeems == MetaSpec => []RedeemedByOne
<1>1. Links!Init => RedeemedByOne
  BY DEF Links!Init, RedeemedByOne
<1>2. ASSUME RedeemedByOne, [Links!Next]_Links!vars PROVE RedeemedByOne'
  <2>1. ASSUME NEW n \in Nonce, NEW r \in Request, Links!Redeem(r, n) PROVE RedeemedByOne'
    BY <1>2, <2>1 DEF Links!Redeem, RedeemedByOne
  <2>2. CASE UNCHANGED redeemed
    BY <1>2, <2>2 DEF RedeemedByOne
  <2> QED BY <1>2, <2>1, <2>2
          DEF Links!Next, Links!vars, Links!Issue, Links!Lapse, Links!Present, Links!Refuse
<1>3. Links!Spec => []RedeemedByOne
  BY <1>1, <1>2, PTL DEF Links!Spec
<1> QED BY <1>3, LinksImplemented, PTL DEF LinksRedeemedOnce
-----------------------------------------------------------------------------
(***************************************************************************)
(* The synchronisations.  Two requests that are at work at once, or a      *)
(* disconnection under one, disturb it; what a request that nobody         *)
(* disturbed has in hand agrees with the rows, statement after statement.  *)
(***************************************************************************)

\* Requests at work at once, and their owners, are known to be disturbed.
Noticed ==
    \A q, r \in Request :
        q # r /\ AtWork(q) /\ AtWork(r) => q \in met /\ request[q].owner \in met

\* A request about to mark its authorization as EXPIRED is right to do so.
ExpiresRightly(r) ==
    request[r].next = "expire" /\ request[r].owner \notin met =>
        /\ request[r].token \in lapsed
        /\ auth[request[r].owner].token = request[r].token

\* The connection of a Page is as the request has written it.
Kept(r, p) == conn[p] = Written(r, p)

\* The authorization has the token of the request; the Pages it has done with
\* are connected, and those it will revoke are the others of its owner.
AgreesWithRows(r) ==
    /\ request[r].next \in OwnerInHand \ {"expire"} =>
          auth[request[r].owner].token = request[r].token
    /\ request[r].next = "write" =>
          /\ request[r].left \subseteq request[r].pages
          /\ \A p \in request[r].pages \ request[r].left : Kept(r, p)
    /\ request[r].next \in {"list", "revoke"} =>
          \A p \in request[r].pages : Kept(r, p)
    /\ request[r].next = "revoke" => request[r].gone = Unlisted(r)

InStep(r) == ExpiresRightly(r) /\ (r \notin met => AgreesWithRows(r))

SyncInv == Noticed /\ (\A r \in Request : InStep(r)) /\ ExpiredIsLapsed

\* A step of one request.
Acts(r) ==
    \/ \E n \in Nonce : CallBack(r, n)
    \/ \E o \in Owner, t \in Token : Exchange(r, o, t)
    \/ \E o \in Owner : syncAuthorization(r, o)
    \/ \E pages \in SUBSET Page : FetchAllPages(r, pages)
    \/ \E p \in Page : WritePage(r, p)
    \/ ConsumeOauthState(r) \/ upsertAuthorization(r)
    \/ MarkExpired(r) \/ MarkConnected(r)
    \/ ListUnlisted(r) \/ RevokeUnlisted(r) \/ Fail(r)

-----------------------------------------------------------------------------
(***************************************************************************)
(* Who is at work, and who notices.                                        *)
(***************************************************************************)
\* Two requests at work after a step are noticed then, if not before.
LEMMA NextIsNoticed ==
    ASSUME Noticed,
           \/ met' = met \cup Disturbed'
           \/ UNCHANGED request /\ met \subseteq met'
    PROVE  Noticed'
<1>1. CASE met' = met \cup Disturbed'
  BY <1>1 DEF Disturbed, Crowded, Working, Noticed
<1>2. CASE UNCHANGED request /\ met \subseteq met'
  BY <1>2 DEF Noticed, AtWork
<1> QED BY <1>1, <1>2

\* Beside a request at work that is not disturbed nobody is at work.
LEMMA OthersAreIdle ==
    ASSUME Noticed, Noticed', met \subseteq met',
           NEW q \in Request, NEW r \in Request, q # r, request'[r] = request[r],
           AtWork(r), r \notin met' \/ request[r].owner \notin met'
    PROVE  ~AtWork(q) /\ ~AtWork(q)'
BY DEF Noticed, AtWork

\* A request that has no owner in hand touches no row of an owner.
LEMMA IdleTouchesNothing ==
    ASSUME RowsInv, NEW q \in Request, Acts(q), ~AtWork(q), ~AtWork(q)'
    PROVE  UNCHANGED <<auth, conn, lapsed>>
<1>1. request[q].next \notin OwnerInHand \cup {"upsert"}
  BY AtWorkHasOwner, MetaAssumption DEF AtWork
<1>2. request[q] \in RequestRow /\ request \in [Request -> RequestRow]
  BY DEF RowsInv, RequestsOK
<1>3. ASSUME NEW o \in Owner, syncAuthorization(q, o) PROVE FALSE
  <2> DEFINE next == IF HasExpired(auth[o].token) THEN "expire" ELSE "fetch"
             row == [Blank EXCEPT !.sync = TRUE, !.owner = o, !.token = auth[o].token,
                                  !.next = next]
  <2>1. request'[q] = row
    BY <1>2, <1>3 DEF syncAuthorization, Proceeds
  <2> HIDE DEF next
  <2>2. row.owner = o
    BY DEF Blank
  <2> QED BY <2>1, <2>2, MetaAssumption DEF AtWork
<1> QED BY <1>1, <1>3
        DEF Acts, OwnerInHand, CallBack, ConsumeOauthState, Exchange, upsertAuthorization,
            FetchAllPages, WritePage, MarkExpired, MarkConnected, ListUnlisted,
            RevokeUnlisted, Fail, rowVars

\* A request that makes no step is still in step, if the rows are the same.
LEMMA StaysInStep ==
    ASSUME NEW r \in Request, InStep(r), request'[r] = request[r],
           UNCHANGED <<auth, conn>>, lapsed \subseteq lapsed', met \subseteq met'
    PROVE  InStep(r)'
BY DEF InStep, ExpiresRightly, AgreesWithRows, Kept, Written, Unlisted

\* One that has no row of an owner in hand has nothing to be in step with.
LEMMA EmptyHandIsInStep ==
    ASSUME NEW r \in Request, request'[r].next \notin OwnerInHand PROVE InStep(r)'
BY DEF InStep, ExpiresRightly, AgreesWithRows, OwnerInHand

-----------------------------------------------------------------------------
(***************************************************************************)
(* The steps of a request, one by one: it stays in step.                   *)
(***************************************************************************)
LEMMA EndsInStep ==
    ASSUME RowsInv, NEW r \in Request, Stops(r) \/ Ends(r) PROVE InStep(r)'
<1>1. Over.next \notin OwnerInHand /\ Failed.next \notin OwnerInHand
  BY DEF Over, Failed, Blank, OwnerInHand
<1>2. request'[r] = Over \/ request'[r] = Failed
  BY DEF Stops, Ends, Proceeds, RowsInv, RequestsOK
<1> QED BY <1>1, <1>2, EmptyHandIsInStep

\* Before its authorization is written, or read, there is nothing to agree.
LEMMA OpeningIsInStep ==
    ASSUME RowsInv, NEW r \in Request,
           \/ \E n \in Nonce : CallBack(r, n)
           \/ \E o \in Owner, t \in Token : Exchange(r, o, t)
           \/ ConsumeOauthState(r)
    PROVE  InStep(r)'
<1>1. request[r] \in RequestRow /\ request \in [Request -> RequestRow]
  BY DEF RowsInv, RequestsOK
<1>2. CASE \E n \in Nonce : CallBack(r, n)
  <2>1. PICK n \in Nonce : CallBack(r, n)
    BY <1>2
  <2>2. request'[r] = [Blank EXCEPT !.next = "consume", !.nonce = n]
    BY <1>1, <2>1 DEF CallBack, Proceeds
  <2>3. request'[r].next = "consume"
    BY <2>2 DEF Blank
  <2> QED BY <2>3, EmptyHandIsInStep DEF OwnerInHand
<1>3. CASE \E o \in Owner, t \in Token : Exchange(r, o, t)
  <2>1. PICK o \in Owner, t \in Token : Exchange(r, o, t)
    BY <1>3
  <2> DEFINE found == Authorized(o)
             row == [request[r] EXCEPT !.next = "upsert", !.owner = o, !.token = t,
                                       !.found = found]
  <2>2. request'[r] = row
    BY <1>1, <2>1 DEF Exchange, Proceeds
  <2> HIDE DEF found
  <2>3. row.next = "upsert"
    BY <1>1 DEF RequestRow
  <2> QED BY <2>2, <2>3, EmptyHandIsInStep DEF OwnerInHand
<1>4. CASE ConsumeOauthState(r)
  <2> DEFINE row == [request[r] EXCEPT !.next = "exchange"]
  <2>1. row.next = "exchange"
    BY <1>1 DEF RequestRow
  <2>2. Stops(r) \/ request'[r] = row
    BY <1>1, <1>4 DEF ConsumeOauthState, Proceeds
  <2> QED BY <2>1, <2>2, EndsInStep, EmptyHandIsInStep DEF OwnerInHand
<1> QED BY <1>2, <1>3, <1>4

\* The token of the callback goes into the authorization.
LEMMA UpsertIsInStep ==
    ASSUME RowsInv, NEW r \in Request, upsertAuthorization(r) PROVE InStep(r)'
<1> DEFINE o == request[r].owner
           new == [token |-> request[r].token, status |-> "CONNECTED"]
           row == [request[r] EXCEPT !.next = "fetch"]
<1>1. /\ request[r] \in RequestRow /\ request \in [Request -> RequestRow]
      /\ o \in Owner /\ auth \in [Owner -> AuthRow \cup {NoRow}]
  BY AtWorkHasOwner DEF upsertAuthorization, RowsInv, RequestsOK, RowsOK
<1>2. CASE Stops(r)
  BY <1>2, EndsInStep
<1>3. CASE auth' = [auth EXCEPT ![o] = new] /\ Proceeds(r, row)
  <2>1. request'[r] = row /\ auth'[o] = new
    BY <1>1, <1>3 DEF Proceeds
  <2>2. row.next = "fetch" /\ row.owner = o /\ row.token = request[r].token
    BY <1>1 DEF RequestRow
  <2>3. auth'[request'[r].owner].token = request'[r].token
    BY <2>1, <2>2
  <2> QED BY <2>1, <2>2, <2>3 DEF InStep, ExpiresRightly, AgreesWithRows
<1> QED BY <1>2, <1>3 DEF upsertAuthorization

\* A synchronisation begins with the token of the authorization.
LEMMA SyncIsInStep ==
    ASSUME RowsInv, NEW r \in Request, NEW o \in Owner, syncAuthorization(r, o)
    PROVE  InStep(r)'
<1> DEFINE next == IF HasExpired(auth[o].token) THEN "expire" ELSE "fetch"
           row == [Blank EXCEPT !.sync = TRUE, !.owner = o, !.token = auth[o].token,
                                !.next = next]
<1>1. request'[r] = row /\ UNCHANGED <<auth, lapsed>>
  BY DEF syncAuthorization, Proceeds, RowsInv, RequestsOK, rowVars
<1>2. /\ next \in {"expire", "fetch"}
      /\ next = "expire" => auth[o].token \in lapsed
  BY DEF HasExpired
<1> HIDE DEF next
<1>3. row.next = next /\ row.owner = o /\ row.token = auth[o].token
  BY DEF Blank
<1>4. /\ request'[r].next = next /\ request'[r].owner = o
      /\ request'[r].token = auth'[o].token
      /\ request'[r].next = "expire" => request'[r].token \in lapsed'
  BY <1>1, <1>2, <1>3
<1>5. request'[r].next \notin {"write", "list", "revoke"}
  BY <1>2, <1>4
<1> QED BY <1>4, <1>5 DEF InStep, ExpiresRightly, AgreesWithRows

\* The Pages listed are all still to write.
LEMMA FetchIsInStep ==
    ASSUME RowsInv, NEW r \in Request, InStep(r), met \subseteq met',
           NEW pages \in SUBSET Page, FetchAllPages(r, pages)
    PROVE  InStep(r)'
<1> DEFINE next == IF pages = {} THEN "list" ELSE "write"
           known == {p \in pages : conn[p] # NoRow}
           row == [request[r] EXCEPT !.pages = pages, !.left = pages,
                                     !.known = known, !.next = next]
<1>1. request[r] \in RequestRow /\ request \in [Request -> RequestRow]
  BY DEF RowsInv, RequestsOK
<1>2. request'[r] = row /\ UNCHANGED <<auth, conn, lapsed>>
  BY <1>1 DEF FetchAllPages, Proceeds, rowVars
<1>3. next \in {"list", "write"} /\ (next = "list" => pages = {})
  OBVIOUS
<1>4. r \notin met' => auth[request[r].owner].token = request[r].token
  BY DEF FetchAllPages, InStep, AgreesWithRows, OwnerInHand
<1> HIDE DEF next, known
<1>5. /\ row.next = next /\ row.owner = request[r].owner /\ row.token = request[r].token
      /\ row.pages = pages /\ row.left = pages
  BY <1>1 DEF RequestRow
<1> HIDE DEF row
<1>6. ExpiresRightly(r)'
  BY <1>2, <1>3, <1>5 DEF ExpiresRightly
<1>7. r \notin met' => AgreesWithRows(r)'
  BY <1>2, <1>3, <1>4, <1>5 DEF AgreesWithRows
<1> QED BY <1>6, <1>7 DEF InStep

\* One more Page is connected.
LEMMA WriteIsInStep ==
    ASSUME RowsInv, NEW r \in Request, InStep(r), met \subseteq met',
           NEW p \in Page, WritePage(r, p)
    PROVE  InStep(r)'
<1> DEFINE next == IF request[r].left = {p} THEN "list" ELSE "write"
           left == request[r].left \ {p}
           row == [request[r] EXCEPT !.left = left, !.next = next]
<1>1. /\ request[r] \in RequestRow /\ request \in [Request -> RequestRow]
      /\ conn \in [Page -> ConnRow \cup {NoRow}]
  BY DEF RowsInv, RequestsOK, RowsOK
<1>2. CASE Stops(r)
  BY <1>2, EndsInStep
<1>3. CASE conn' = [conn EXCEPT ![p] = Written(r, conn[p])] /\ Proceeds(r, row)
  <2>1. request'[r] = row /\ UNCHANGED <<auth, lapsed>>
    BY <1>1, <1>3 DEF WritePage, Proceeds
  <2>2. next \in {"list", "write"} /\ (next = "list" => left = {})
        /\ left \subseteq request[r].left
    OBVIOUS
  <2>3. r \notin met' =>
           /\ auth[request[r].owner].token = request[r].token
           /\ request[r].left \subseteq request[r].pages
           /\ \A q \in request[r].pages \ request[r].left : Kept(r, q)
    BY DEF WritePage, InStep, AgreesWithRows, OwnerInHand
  <2>4. request[r].pages \subseteq Page
    BY <1>1 DEF RequestRow
  <2>5. r \notin met' => \A q \in request[r].pages \ left : conn'[q] = Written(r, conn[q])
    BY <1>1, <1>3, <2>3, <2>4 DEF Kept, Written
  <2> HIDE DEF next, left
  <2>6. /\ row.next = next /\ row.left = left /\ row.pages = request[r].pages
        /\ row.owner = request[r].owner /\ row.token = request[r].token
    BY <1>1 DEF RequestRow
  <2> HIDE DEF row
  <2>7. r \notin met' => \A q \in request'[r].pages \ request'[r].left : Kept(r, q)'
    BY <2>1, <2>5, <2>6 DEF Kept, Written
  <2>8. ExpiresRightly(r)'
    BY <2>1, <2>2, <2>6 DEF ExpiresRightly
  <2>9. r \notin met' => AgreesWithRows(r)'
    BY <2>1, <2>2, <2>3, <2>6, <2>7 DEF AgreesWithRows
  <2> QED BY <2>8, <2>9 DEF InStep
<1> QED BY <1>2, <1>3 DEF WritePage, Written

\* Done with the Pages, a request ends or still has the authorization to mark.
LEMMA AfterPagesInStep ==
    ASSUME RowsInv, NEW r \in Request, InStep(r), met \subseteq met', UNCHANGED auth,
           request[r].next \in {"list", "revoke"}, Proceeds(r, AfterPages(r))
    PROVE  InStep(r)'
<1> DEFINE row == [request[r] EXCEPT !.next = "mark"]
<1>1. request[r] \in RequestRow /\ request \in [Request -> RequestRow]
  BY DEF RowsInv, RequestsOK
<1>2. CASE request'[r] = row
  <2>1. /\ request'[r].next = "mark" /\ request'[r].owner = request[r].owner
        /\ request'[r].token = request[r].token
    BY <1>1, <1>2 DEF RequestRow
  <2>2. r \notin met' => auth[request[r].owner].token = request[r].token
    BY DEF InStep, AgreesWithRows, OwnerInHand
  <2> QED BY <2>1, <2>2 DEF InStep, ExpiresRightly, AgreesWithRows
<1>3. CASE Ends(r)
  BY <1>3, EndsInStep
<1> QED BY <1>1, <1>2, <1>3 DEF AfterPages, Proceeds, Ends

\* What it will revoke is what it found.
LEMMA ListIsInStep ==
    ASSUME RowsInv, NEW r \in Request, InStep(r), met \subseteq met', ListUnlisted(r)
    PROVE  InStep(r)'
<1> DEFINE gone == Unlisted(r)
           row == [request[r] EXCEPT !.next = "revoke", !.gone = gone]
<1>1. request[r] \in RequestRow /\ request \in [Request -> RequestRow]
  BY DEF RowsInv, RequestsOK
<1>2. UNCHANGED <<auth, conn, lapsed>>
  BY DEF ListUnlisted, rowVars
<1>3. CASE Unlisted(r) = {}
  BY <1>2, <1>3, AfterPagesInStep DEF ListUnlisted
<1>4. CASE Unlisted(r) # {}
  <2>1. request'[r] = row
    BY <1>1, <1>4 DEF ListUnlisted, Proceeds
  <2>2. r \notin met' => /\ auth[request[r].owner].token = request[r].token
                         /\ \A p \in request[r].pages : Kept(r, p)
    BY DEF ListUnlisted, InStep, AgreesWithRows, OwnerInHand
  <2> HIDE DEF gone
  <2>3. /\ row.next = "revoke" /\ row.gone = gone /\ row.pages = request[r].pages
        /\ row.owner = request[r].owner /\ row.token = request[r].token
    BY <1>1 DEF RequestRow
  <2> HIDE DEF row
  <2>4. Unlisted(r)' = gone
    BY <1>2, <2>1, <2>3 DEF Unlisted, gone
  <2>5. r \notin met' => \A p \in request'[r].pages : Kept(r, p)'
    BY <1>2, <2>1, <2>2, <2>3 DEF Kept, Written
  <2> QED BY <1>2, <2>1, <2>2, <2>3, <2>4, <2>5 DEF InStep, ExpiresRightly, AgreesWithRows
<1> QED BY <1>3, <1>4

LEMMA RevokeIsInStep ==
    ASSUME RowsInv, NEW r \in Request, InStep(r), met \subseteq met', RevokeUnlisted(r)
    PROVE  InStep(r)'
BY AfterPagesInStep DEF RevokeUnlisted

LEMMA ActsInStep ==
    ASSUME RowsInv, NEW r \in Request, InStep(r), met \subseteq met', Acts(r)
    PROVE  InStep(r)'
BY OpeningIsInStep, UpsertIsInStep, SyncIsInStep, FetchIsInStep, WriteIsInStep,
   ListIsInStep, RevokeIsInStep, EndsInStep
DEF Acts, MarkExpired, MarkConnected, Fail

\* A request changes no other one, and lets no token lapse.
LEMMA ActsAlone ==
    ASSUME RowsInv, NEW r \in Request, Acts(r)
    PROVE  /\ \A q \in Request \ {r} : request'[q] = request[q]
           /\ UNCHANGED lapsed
<1>1. PICK row : Proceeds(r, row)
  BY DEF Acts, CallBack, ConsumeOauthState, Exchange, syncAuthorization, FetchAllPages,
         WritePage, upsertAuthorization, MarkExpired, MarkConnected, ListUnlisted,
         RevokeUnlisted, Fail, Stops, Ends
<1>2. UNCHANGED lapsed
  BY DEF Acts, CallBack, ConsumeOauthState, Exchange, syncAuthorization, FetchAllPages,
         WritePage, upsertAuthorization, MarkExpired, MarkConnected, ListUnlisted,
         RevokeUnlisted, Fail, rowVars
<1> QED BY <1>1, <1>2 DEF Proceeds, RowsInv, RequestsOK

\* What a step does to an authorization: nothing, or it is connected, or it
\* is marked by a request that is right to do so.
LEMMA ExpiredStaysLapsed ==
    ASSUME RowsInv, NEW r \in Request, InStep(r), met \subseteq met', Acts(r),
           ExpiredIsLapsed
    PROVE  ExpiredIsLapsed'
<1> DEFINE o == request[r].owner
<1>1. auth \in [Owner -> AuthRow \cup {NoRow}] /\ UNCHANGED lapsed
  BY ActsAlone DEF RowsInv, RowsOK
<1>2. CASE UNCHANGED auth
  BY <1>1, <1>2 DEF ExpiredIsLapsed, Authorized
<1>3. CASE upsertAuthorization(r) /\ auth' # auth
  <2>1. auth' = [auth EXCEPT ![o] = [token |-> request[r].token, status |-> "CONNECTED"]]
    BY <1>3 DEF upsertAuthorization
  <2> QED BY <1>1, <2>1 DEF ExpiredIsLapsed, Authorized
<1>4. CASE MarkConnected(r)
  <2>1. o \in Owner /\ auth[o] \in AuthRow
    BY <1>4, AtWorkHasOwner DEF MarkConnected, OwnerInHand
  <2>2. auth' = [auth EXCEPT ![o].status = "CONNECTED"]
    BY <1>4 DEF MarkConnected
  <2>3. auth'[o].status = "CONNECTED"
    BY <1>1, <2>1, <2>2 DEF AuthRow
  <2>4. \A q \in Owner \ {o} : auth'[q] = auth[q]
    BY <1>1, <2>2
  <2> QED BY <1>1, <2>3, <2>4 DEF ExpiredIsLapsed, Authorized
<1>5. CASE MarkExpired(r)
  <2>1. o \in Owner /\ auth[o] \in AuthRow
    BY <1>5, AtWorkHasOwner DEF MarkExpired, OwnerInHand
  <2>2. auth' = [auth EXCEPT ![o].status = "EXPIRED"]
    BY <1>5 DEF MarkExpired
  <2>3. auth'[o].token = auth[o].token
    BY <1>1, <2>1, <2>2 DEF AuthRow
  <2>4. \A q \in Owner \ {o} : auth'[q] = auth[q]
    BY <1>1, <2>2
  <2>5. o \notin met' => auth[o].token \in lapsed
    BY <1>5 DEF MarkExpired, InStep, ExpiresRightly
  <2> QED BY <1>1, <2>3, <2>4, <2>5 DEF ExpiredIsLapsed, Authorized
<1> QED BY <1>2, <1>3, <1>4, <1>5
        DEF Acts, CallBack, ConsumeOauthState, Exchange, syncAuthorization, FetchAllPages,
            WritePage, upsertAuthorization, ListUnlisted, RevokeUnlisted, Fail, rowVars

-----------------------------------------------------------------------------
LEMMA SyncInitIsOK == MetaInit => SyncInv
<1> SUFFICES ASSUME MetaInit PROVE SyncInv
  OBVIOUS
<1>1. Blank.next \notin OwnerInHand /\ Blank.owner = None
  BY DEF Blank, OwnerInHand
<1>2. \A r \in Request : request[r] = Blank
  BY DEF MetaInit
<1>3. Noticed
  BY <1>1, <1>2 DEF Noticed, AtWork
<1>4. \A r \in Request : InStep(r)
  BY <1>1, <1>2 DEF InStep, ExpiresRightly, AgreesWithRows, OwnerInHand
<1>5. ExpiredIsLapsed
  BY DEF MetaInit, ExpiredIsLapsed, Authorized
<1> QED BY <1>3, <1>4, <1>5 DEF SyncInv

\* A step of a request keeps itself in step, and finds the others idle, or
\* disturbed after it.
LEMMA ActsKeepsSync ==
    ASSUME RowsInv, RowsInv', SyncInv, NEW q \in Request, Acts(q),
           met' = met \cup Disturbed'
    PROVE  SyncInv'
<1>1. Noticed' /\ met \subseteq met'
  BY NextIsNoticed DEF SyncInv
<1>2. /\ \A r \in Request \ {q} : request'[r] = request[r]
      /\ UNCHANGED lapsed
  BY ActsAlone
<1>3. ASSUME NEW r \in Request PROVE InStep(r)'
  <2>1. CASE r = q
    BY <1>1, <2>1, ActsInStep DEF SyncInv
  <2>2. CASE r # q /\ ~AtWork(r)
    <3>1. request[r].next \notin OwnerInHand
      BY <2>2, AtWorkHasOwner, MetaAssumption DEF AtWork
    <3> QED BY <1>2, <2>2, <3>1, EmptyHandIsInStep
  <2>3. CASE r # q /\ r \in met' /\ request[r].owner \in met'
    BY <1>2, <2>3 DEF InStep, ExpiresRightly
  <2>4. CASE r # q /\ AtWork(r) /\ (r \notin met' \/ request[r].owner \notin met')
    <3>1. ~AtWork(q) /\ ~AtWork(q)'
      BY <1>1, <1>2, <2>4, OthersAreIdle DEF SyncInv
    <3>2. UNCHANGED <<auth, conn, lapsed>>
      BY <3>1, IdleTouchesNothing
    <3> QED BY <1>1, <1>2, <2>4, <3>2, StaysInStep DEF SyncInv
  <2> QED BY <2>1, <2>2, <2>3, <2>4
<1>4. ExpiredIsLapsed'
  BY <1>1, ExpiredStaysLapsed DEF SyncInv
<1> QED BY <1>1, <1>3, <1>4 DEF SyncInv

\* The steps that no request makes: only a disconnection touches the rows,
\* and it disturbs whoever is at work.
LEMMA OthersKeepSync ==
    ASSUME RowsInv, SyncInv,
           \/ /\ \/ \E n \in Nonce : createMetaOauthUrl(n) \/ LapseState(n)
                 \/ \E t \in Token : LapseToken(t)
              /\ met' = met \cup Disturbed'
           \/ (\E p \in Page : disconnect(p)) /\ met' = met \cup Working
           \/ UNCHANGED metaVars
    PROVE  SyncInv'
<1>1. UNCHANGED <<request, auth>> /\ lapsed \subseteq lapsed' /\ met \subseteq met'
  BY DEF createMetaOauthUrl, LapseState, LapseToken, disconnect, metaVars
<1>2. Noticed'
  BY <1>1, NextIsNoticed DEF SyncInv
<1>3. ExpiredIsLapsed'
  BY <1>1 DEF SyncInv, ExpiredIsLapsed, Authorized
<1>4. CASE UNCHANGED conn
  BY <1>1, <1>2, <1>3, <1>4, StaysInStep DEF SyncInv
<1>5. CASE met' = met \cup Working
  <2>1. ASSUME NEW r \in Request PROVE InStep(r)'
    <3>1. CASE ~AtWork(r)
      <4>1. request[r].next \notin OwnerInHand
        BY <3>1, AtWorkHasOwner, MetaAssumption DEF AtWork
      <4> QED BY <1>1, <4>1, EmptyHandIsInStep
    <3>2. CASE AtWork(r)
      <4>1. r \in met'
        BY <1>5, <3>2 DEF Working
      <4> QED BY <1>1, <4>1 DEF SyncInv, InStep, ExpiresRightly
    <3> QED BY <3>1, <3>2
  <2> QED BY <1>2, <1>3, <2>1 DEF SyncInv
<1> QED BY <1>4, <1>5 DEF createMetaOauthUrl, LapseState, LapseToken, metaVars

LEMMA SyncIsKept ==
    ASSUME RowsInv, RowsInv', SyncInv, [MetaNext]_metaVars
    PROVE  SyncInv'
<1>1. ASSUME NEW q \in Request, Acts(q), met' = met \cup Disturbed' PROVE SyncInv'
  BY <1>1, ActsKeepsSync
<1>2. CASE MetaStep /\ met' = met \cup Disturbed'
  BY <1>1, <1>2, OthersKeepSync DEF MetaStep, Acts
<1>3. CASE (\E p \in Page : disconnect(p)) /\ met' = met \cup Working
  BY <1>3, OthersKeepSync
<1>4. CASE UNCHANGED metaVars
  BY <1>4, OthersKeepSync
<1> QED BY <1>2, <1>3, <1>4 DEF MetaNext

(***************************************************************************)
(* What an undisturbed request has in hand agrees with the rows, in every  *)
(* state and however many callbacks, synchronisations and disconnections   *)
(* there are beside it: the statements of syncPageConnections in between.  *)
(***************************************************************************)
THEOREM SyncIsSound == MetaSpec => [](RowsInv /\ SyncInv)
<1> DEFINE Inv == RowsInv /\ met \subseteq Request \cup Owner /\ SyncInv
<1>1. MetaInit => Inv
  BY InitIsOK, SyncInitIsOK DEF MetaInit
<1>2. Inv /\ [MetaNext]_metaVars => Inv'
  BY NextIsOK, SyncIsKept
<1> QED BY <1>1, <1>2, PTL DEF MetaSpec

(***************************************************************************)
(* An authorization that nobody disturbed reads EXPIRED only while its     *)
(* token is past its expiry: the request that marks it has read that very  *)
(* token, and a callback that brings another one marks it as connected.    *)
(***************************************************************************)
THEOREM ExpiredTellsTheTruth == MetaSpec => []ExpiredIsLapsed
BY SyncIsSound, PTL DEF SyncInv

-----------------------------------------------------------------------------
(***************************************************************************)
(* The last step of a synchronisation.                                     *)
(***************************************************************************)
Exact(r) ==
    LET o == request[r].owner IN
    Finishes(r) =>
      /\ request[r].pages = {p \in Page : conn'[p] # NoRow /\ conn'[p].owner = o
                                            /\ conn'[p].status = "CONNECTED"}
      /\ \A p \in request[r].pages : conn'[p].token = auth[o].token
      /\ \A p \in Page : conn[p] # NoRow /\ conn[p].owner # o => conn'[p] = conn[p]

\* Nothing was to be revoked, or all of it has been.
LEMMA LastStepIsExact ==
    ASSUME RowsInv, NEW r \in Request, InStep(r), r \notin met,
           \/ ListUnlisted(r) /\ Unlisted(r) = {}
           \/ RevokeUnlisted(r)
    PROVE  Exact(r)
<1> DEFINE o == request[r].owner
           pages == request[r].pages
           gone == Unlisted(r)
<1>1. /\ request[r] \in RequestRow /\ pages \subseteq Page
      /\ conn \in [Page -> ConnRow \cup {NoRow}]
  BY DEF RowsInv, RequestsOK, RowsOK, RequestRow
<1>2. /\ auth[o].token = request[r].token
      /\ \A p \in pages : Kept(r, p)
      /\ request[r].next = "revoke" => request[r].gone = gone
  BY DEF InStep, AgreesWithRows, ListUnlisted, RevokeUnlisted, OwnerInHand
<1>3. \A p \in pages : /\ conn[p] # NoRow /\ conn[p].owner = o
                       /\ conn[p].token = auth[o].token /\ conn[p].status = "CONNECTED"
  BY <1>2 DEF Kept, Written, NoRow
<1>4. /\ gone \subseteq Page \ pages
      /\ \A p \in Page \ pages : p \notin gone => conn[p] = NoRow \/ conn[p].owner # o
      /\ \A p \in gone : conn[p] \in ConnRow /\ conn[p].owner = o
  BY <1>1 DEF Unlisted
<1>5. /\ \A p \in Page \ gone : conn'[p] = conn[p]
      /\ \A p \in gone : conn'[p] = [conn[p] EXCEPT !.status = "REVOKED"]
  BY <1>1, <1>2, <1>4 DEF ListUnlisted, RevokeUnlisted, rowVars
<1> HIDE DEF gone
<1>6. \A p \in gone : conn'[p].status = "REVOKED"
  BY <1>4, <1>5 DEF ConnRow
<1>7. pages = {p \in Page : conn'[p] # NoRow /\ conn'[p].owner = o
                              /\ conn'[p].status = "CONNECTED"}
  BY <1>1, <1>3, <1>4, <1>5, <1>6
<1>8. \A p \in pages : conn'[p].token = auth[o].token
  BY <1>1, <1>3, <1>4, <1>5
<1>9. \A p \in Page : conn[p] # NoRow /\ conn[p].owner # o => conn'[p] = conn[p]
  BY <1>4, <1>5
<1> QED BY <1>7, <1>8, <1>9 DEF Exact

\* Only the request itself, with nothing left to do to the Pages, finishes.
LEMMA OnlyTheLastStepFinishes ==
    ASSUME RowsInv, NEW r \in Request, Finishes(r), [MetaNext]_metaVars
    PROVE  \/ ListUnlisted(r) /\ Unlisted(r) = {}
           \/ RevokeUnlisted(r)
<1>1. request[r] \in RequestRow /\ request \in [Request -> RequestRow]
  BY DEF RowsInv, RequestsOK
<1>2. request'[r] # request[r]
  BY DEF Finishes
<1>3. PICK q \in Request : Acts(q)
  BY <1>2 DEF MetaNext, MetaStep, Acts, createMetaOauthUrl, LapseState, LapseToken,
              disconnect, metaVars
<1>4. q = r
  BY <1>2, <1>3, ActsAlone
<1>5. ~Fail(r)
  BY <1>1 DEF Fail, Stops, Proceeds, Failed, Blank, Finishes
<1>6. ListUnlisted(r) \/ RevokeUnlisted(r)
  BY <1>3, <1>4, <1>5
     DEF Acts, Finishes, CallBack, ConsumeOauthState, Exchange, syncAuthorization,
         FetchAllPages, WritePage, upsertAuthorization, MarkExpired, MarkConnected
<1>7. ASSUME ListUnlisted(r), Unlisted(r) # {} PROVE FALSE
  <2> DEFINE gone == Unlisted(r)
             row == [request[r] EXCEPT !.next = "revoke", !.gone = gone]
  <2>1. request'[r] = row
    BY <1>1, <1>7 DEF ListUnlisted, Proceeds
  <2> HIDE DEF gone
  <2>2. row.next = "revoke"
    BY <1>1 DEF RequestRow
  <2> QED BY <2>1, <2>2 DEF Finishes
<1> QED BY <1>6, <1>7

(***************************************************************************)
(* When a callback or a synchronisation that nobody disturbed is done with *)
(* the Pages, the connected Pages of its owner are the ones Meta listed,   *)
(* with the token of the authorization, and nobody else's has changed.     *)
(***************************************************************************)
THEOREM SynchronisedExactly == MetaSpec => SyncedExactly
<1>1. ASSUME RowsInv, SyncInv, [MetaNext]_metaVars, NEW r \in Request \ met'
      PROVE  Exact(r)
  <2>1. CASE Finishes(r)
    <3>1. met \subseteq met'
      BY <1>1 DEF MetaNext, metaVars
    <3> QED BY <1>1, <2>1, <3>1, OnlyTheLastStepFinishes, LastStepIsExact DEF SyncInv
  <2>2. CASE ~Finishes(r)
    BY <2>2 DEF Exact
  <2> QED BY <2>1, <2>2
<1>2. RowsInv /\ SyncInv /\ [MetaNext]_metaVars =>
        [\A r \in Request \ met' : Exact(r)]_metaVars
  BY <1>1
<1> QED BY <1>2, SyncIsSound, PTL DEF MetaSpec, SyncedExactly, Exact
=============================================================================
