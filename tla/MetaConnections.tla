--------------------------- MODULE MetaConnections ---------------------------
(***************************************************************************)
(* The connections of one client to Facebook Pages: SocialConnections-     *)
(* Service and TokenEncryptionService.  An owner (a Meta user) follows a   *)
(* one-time link, Meta calls back, and the Pages of the owner become       *)
(* connections; a synchronisation reads the Pages of an authorization      *)
(* again; a connection may be disconnected.  No transaction is used: a     *)
(* request is a sequence of statements and of calls to Meta.               *)
(***************************************************************************)
CONSTANTS
    Nonce,      \* rows of meta_oauth_states; each is issued once
    Owner,      \* Meta users; a row of meta_authorizations each, at most
    Page,       \* Facebook Pages; a row of social_connections each, at most
    Request,    \* bound: callbacks and synchronisations, each made once
    Token,      \* bound: access tokens that Meta grants
    None

ASSUME MetaAssumption == None \notin Nonce \cup Owner \cup Page \cup Request \cup Token

VARIABLES
    oauthState,      \* meta_oauth_states
    auth,            \* meta_authorizations
    conn,            \* social_connections
    request,         \* requests between two statements
    lapsed,          \* tokens past their tokenExpiresAt
    redeemed,        \* history: the callbacks that got past each nonce
    met              \* history: requests, and owners, whose requests were
                     \* disturbed by another one, by a disconnection or a stop
metaVars == <<oauthState, auth, conn, request, lapsed, redeemed, met>>

StateRow == [life : {"unissued", "valid", "lapsed", "deleted"}, usedAt : BOOLEAN]
AuthRow == [token : Token, status : {"CONNECTED", "EXPIRED"}]
NoRow == [none |-> TRUE]
ConnRow == [owner : Owner, token : Token, status : {"CONNECTED", "REVOKED"}]

\* The statement or call a request is about to make, and what it has in hand:
\* the Pages Meta listed, those still to write, those it found rows of, and
\* those it will revoke.
Doing == {"new", "consume", "exchange", "upsert", "fetch", "write", "list",
          "revoke", "mark", "expire", "over", "failed"}
RequestRow == [next : Doing, sync : BOOLEAN, nonce : Nonce \cup {None},
               owner : Owner \cup {None}, token : Token \cup {None},
               found : BOOLEAN, pages : SUBSET Page, left : SUBSET Page,
               known : SUBSET Page, gone : SUBSET Page]

Blank == [next |-> "new", sync |-> FALSE, nonce |-> None, owner |-> None,
          token |-> None, found |-> FALSE, pages |-> {}, left |-> {},
          known |-> {}, gone |-> {}]
Over == [Blank EXCEPT !.next = "over"]
Failed == [Blank EXCEPT !.next = "failed"]

MetaTypeOK ==
    /\ oauthState \in [Nonce -> StateRow]
    /\ auth \in [Owner -> AuthRow \cup {NoRow}]
    /\ conn \in [Page -> ConnRow \cup {NoRow}]
    /\ request \in [Request -> RequestRow]
    /\ \A r \in Request : request[r].next \notin {"new", "consume", "exchange", "over", "failed"} =>
                             request[r].owner \in Owner /\ request[r].token \in Token
    /\ \A r \in Request : request[r].next \in {"consume", "exchange"} => request[r].nonce \in Nonce
    /\ lapsed \subseteq Token
    /\ redeemed \in [Nonce -> SUBSET Request]
    /\ met \subseteq Request \cup Owner

MetaInit ==
    /\ oauthState = [n \in Nonce |-> [life |-> "unissued", usedAt |-> FALSE]]
    /\ auth = [o \in Owner |-> NoRow]
    /\ conn = [p \in Page |-> NoRow]
    /\ request = [r \in Request |-> Blank]
    /\ lapsed = {} /\ redeemed = [n \in Nonce |-> {}] /\ met = {}
-----------------------------------------------------------------------------
Authorized(o) == auth[o] # NoRow
Proceeds(r, row) == request' = [request EXCEPT ![r] = row]
Ends(r) == Proceeds(r, Over)
Stops(r) == Proceeds(r, Failed)

Granted == {auth[o].token : o \in {q \in Owner : Authorized(q)}}
             \cup {request[r].token : r \in Request} \cup lapsed
             \cup {conn[p].token : p \in {q \in Page : conn[q] # NoRow}}

rowVars == <<oauthState, auth, conn, lapsed, redeemed>>

(***************************************************************************)
(* A token, once granted, is valid until it lapses; nothing in the service *)
(* refreshes it but another callback.                                      *)
(***************************************************************************)
LapseToken(t) ==
    /\ t \in Granted \ (lapsed \cup {None})
    /\ lapsed' = lapsed \cup {t}
    /\ UNCHANGED <<oauthState, auth, conn, redeemed, request>>

createMetaOauthUrl(n) ==
    /\ oauthState[n].life = "unissued"
    /\ oauthState' = [oauthState EXCEPT ![n].life = "valid"]
    /\ UNCHANGED <<auth, conn, lapsed, redeemed, request>>

LapseState(n) ==
    /\ oauthState[n].life = "valid"
    /\ oauthState' = [oauthState EXCEPT ![n].life = "lapsed"]
    /\ UNCHANGED <<auth, conn, lapsed, redeemed, request>>

(***************************************************************************)
(* completeMetaOauth: the callback selects the unused, unexpired row ...   *)
(***************************************************************************)
CallBack(r, n) ==
    /\ request[r].next = "new"
    /\ oauthState[n].life = "valid" /\ ~oauthState[n].usedAt
    /\ Proceeds(r, [Blank EXCEPT !.next = "consume", !.nonce = n])
    /\ UNCHANGED rowVars

\* Mutant: the UPDATE does not ask again whether the row is unused.
UnusedAlways(row) == row.life # "deleted"

Unused(row) == row.life # "deleted" /\ ~row.usedAt

\* The delete of old rows that goes with it; it is built and not awaited, so
\* whether it ever runs is left open.
Purged(rows) == {[n \in Nonce |-> IF n \in old THEN [rows[n] EXCEPT !.life = "deleted"]
                                                ELSE rows[n]] :
                   old \in {{}, {n \in Nonce : rows[n].life = "lapsed"}}}

\* ... and marks it as used, in a statement that finds the row only once.
ConsumeOauthState(r) ==
    LET n == request[r].nonce IN
    /\ request[r].next = "consume"
    /\ IF Unused(oauthState[n])
       THEN /\ oauthState' \in Purged([oauthState EXCEPT ![n].usedAt = TRUE])
            /\ redeemed' = [redeemed EXCEPT ![n] = @ \cup {r}]
            /\ Proceeds(r, [request[r] EXCEPT !.next = "exchange"])
       ELSE Stops(r) /\ UNCHANGED <<oauthState, redeemed>>
    /\ UNCHANGED <<auth, conn, lapsed>>

(***************************************************************************)
(* Meta answers with a token of some owner.  upsertAuthorization selects   *)
(* the owner's row, and then updates or inserts it; a row inserted in      *)
(* between makes the insert fail.                                          *)
(***************************************************************************)
Exchange(r, o, t) ==
    /\ request[r].next = "exchange"
    /\ t \notin Granted
    /\ Proceeds(r, [request[r] EXCEPT !.next = "upsert", !.owner = o, !.token = t,
                                      !.found = Authorized(o)])
    /\ UNCHANGED rowVars

upsertAuthorization(r) ==
    LET o == request[r].owner IN
    /\ request[r].next = "upsert"
    /\ IF Authorized(o) /\ ~request[r].found
       THEN Stops(r) /\ UNCHANGED auth
       ELSE /\ auth' = [auth EXCEPT ![o] = [token |-> request[r].token,
                                            status |-> "CONNECTED"]]
            /\ Proceeds(r, [request[r] EXCEPT !.next = "fetch"])
    /\ UNCHANGED <<oauthState, conn, lapsed, redeemed>>

(***************************************************************************)
(* syncAuthorization reads the row; past its expiry it marks it and stops. *)
(***************************************************************************)

\* Mutant: the expiry is looked at the wrong way round.
HasExpiredNot(t) == t \notin lapsed

HasExpired(t) == t \in lapsed

syncAuthorization(r, o) ==
    /\ request[r].next = "new" /\ Authorized(o)
    /\ Proceeds(r, [Blank EXCEPT !.sync = TRUE, !.owner = o, !.token = auth[o].token,
                      !.next = IF HasExpired(auth[o].token) THEN "expire" ELSE "fetch"])
    /\ UNCHANGED rowVars

MarkExpired(r) ==
    /\ request[r].next = "expire"
    /\ auth' = [auth EXCEPT ![request[r].owner].status = "EXPIRED"]
    /\ Stops(r)
    /\ UNCHANGED <<oauthState, conn, lapsed, redeemed>>

MarkConnected(r) ==
    /\ request[r].next = "mark"
    /\ auth' = [auth EXCEPT ![request[r].owner].status = "CONNECTED"]
    /\ Ends(r)
    /\ UNCHANGED <<oauthState, conn, lapsed, redeemed>>

(***************************************************************************)
(* fetchAllPages and syncPageConnections: the Pages that Meta lists, the   *)
(* rows there are of them, one statement for each Page, and then the rows  *)
(* of the authorization whose Page was not listed.                         *)
(***************************************************************************)
FetchAllPages(r, pages) ==
    /\ request[r].next = "fetch"
    /\ Proceeds(r, [request[r] EXCEPT !.pages = pages, !.left = pages,
                      !.known = {p \in pages : conn[p] # NoRow},
                      !.next = IF pages = {} THEN "list" ELSE "write"])
    /\ UNCHANGED rowVars

Written(r, row) ==
    [owner |-> request[r].owner, token |-> request[r].token, status |-> "CONNECTED"]

WritePage(r, p) ==
    /\ request[r].next = "write" /\ p \in request[r].left
    /\ IF p \notin request[r].known /\ conn[p] # NoRow
       THEN Stops(r) /\ UNCHANGED conn
       ELSE /\ conn' = [conn EXCEPT ![p] = Written(r, @)]
            /\ Proceeds(r, [request[r] EXCEPT !.left = @ \ {p},
                  !.next = IF request[r].left = {p} THEN "list" ELSE "write"])
    /\ UNCHANGED <<oauthState, auth, lapsed, redeemed>>

\* What a request does when it is done with the Pages.
AfterPages(r) == IF request[r].sync THEN [request[r] EXCEPT !.next = "mark"] ELSE Over

\* Mutant: the rows of the client instead of those of the authorization.
UnlistedOfClient(r) == {p \in Page : conn[p] # NoRow} \ request[r].pages

Unlisted(r) == {p \in Page : conn[p] # NoRow /\ conn[p].owner = request[r].owner}
                 \ request[r].pages

ListUnlisted(r) ==
    /\ request[r].next = "list"
    /\ Proceeds(r, IF Unlisted(r) = {} THEN AfterPages(r)
                   ELSE [request[r] EXCEPT !.next = "revoke", !.gone = Unlisted(r)])
    /\ UNCHANGED rowVars

RevokeUnlisted(r) ==
    /\ request[r].next = "revoke"
    /\ conn' = [p \in Page |-> IF p \in request[r].gone
                               THEN [conn[p] EXCEPT !.status = "REVOKED"] ELSE conn[p]]
    /\ Proceeds(r, AfterPages(r))
    /\ UNCHANGED <<oauthState, auth, lapsed, redeemed>>

disconnect(p) ==
    /\ conn[p] # NoRow
    /\ conn' = [conn EXCEPT ![p].status = "REVOKED"]
    /\ UNCHANGED <<oauthState, auth, lapsed, redeemed, request>>

\* Meta answers with an error, or the process stops.
Fail(r) == /\ request[r].next \notin {"new", "over", "failed"}
           /\ Stops(r) /\ UNCHANGED rowVars
-----------------------------------------------------------------------------
(***************************************************************************)
(* Who disturbed whom: two requests that have an owner in hand at once, or *)
(* a connection that is disconnected under a request.                      *)
(***************************************************************************)
AtWork(r) == request[r].owner # None
Working == {r \in Request : AtWork(r)}
Crowded == {r \in Working : \E q \in Working : q # r}
Disturbed == Crowded \cup {request[r].owner : r \in Crowded}

MetaStep ==
    \/ \E n \in Nonce : createMetaOauthUrl(n) \/ LapseState(n)
    \/ \E t \in Token : LapseToken(t)
    \/ \E r \in Request :
          \/ \E n \in Nonce : CallBack(r, n)
          \/ \E o \in Owner, t \in Token : Exchange(r, o, t)
          \/ \E o \in Owner : syncAuthorization(r, o)
          \/ \E pages \in SUBSET Page : FetchAllPages(r, pages)
          \/ \E p \in Page : WritePage(r, p)
          \/ ConsumeOauthState(r) \/ upsertAuthorization(r)
          \/ MarkExpired(r) \/ MarkConnected(r)
          \/ ListUnlisted(r) \/ RevokeUnlisted(r) \/ Fail(r)

MetaNext ==
    \/ MetaStep /\ met' = met \cup Disturbed'
    \/ /\ \E p \in Page : disconnect(p)
       /\ met' = met \cup Working

MetaSpec == MetaInit /\ [][MetaNext]_metaVars
-----------------------------------------------------------------------------
(***************************************************************************)
(* An authorization link is redeemed by one callback, however many present *)
(* it at once: the row is marked by an UPDATE that asks again whether it   *)
(* is unused.  The rows implement OneTimeLink.                             *)
(***************************************************************************)
Links == INSTANCE OneTimeLink WITH
    Link <- Nonce, Holder <- Request,
    life <- [n \in Nonce |-> IF oauthState[n].life = "deleted" THEN "lapsed"
                             ELSE oauthState[n].life],
    presented <- {<<r, request[r].nonce>> : r \in {q \in Request : request[q].next = "consume"}},
    redeemed <- redeemed

LinksRedeemedOnce == Links!Spec

(***************************************************************************)
(* When a callback or a synchronisation is done with the Pages, undisturbed*)
(* from its authorization on, the connected Pages of the owner are exactly *)
(* the ones Meta listed, each with the token of the authorization; and it  *)
(* revoked nothing that another owner had connected.                       *)
(***************************************************************************)
Finishes(r) == request[r].next \in {"list", "revoke"}
                 /\ request'[r].next \in {"mark", "over"}

SyncedExactly ==
    [][\A r \in Request \ met' :
         LET o == request[r].owner IN
         Finishes(r) =>
           /\ request[r].pages = {p \in Page : conn'[p] # NoRow /\ conn'[p].owner = o
                                                 /\ conn'[p].status = "CONNECTED"}
           /\ \A p \in request[r].pages : conn'[p].token = auth[o].token
           /\ \A p \in Page : conn[p] # NoRow /\ conn[p].owner # o => conn'[p] = conn[p]
      ]_metaVars

(***************************************************************************)
(* An authorization reads EXPIRED only while its token is past its expiry: *)
(* a callback that brings a new one makes it CONNECTED again.  A           *)
(* synchronisation that looked at the old token may mark the new one.      *)
(***************************************************************************)
ExpiredIsLapsed ==
    \A o \in Owner \ met :
        Authorized(o) /\ auth[o].status = "EXPIRED" => auth[o].token \in lapsed
=============================================================================
