------------------------ MODULE ClientAccounts_proofs ------------------------
(***************************************************************************)
(* Theorems about ClientAccounts, for any number of users, clients, leads, *)
(* links, emails and requests.                                             *)
(*                                                                         *)
(* A request checks in one step and writes in a later one, so what it      *)
(* checked must still be so when it writes.  It is, of all that no other   *)
(* request has in hand: AccountsInv says of each request what it still     *)
(* knows of the rows, and of the tables what follows from it.              *)
(***************************************************************************)
EXTENDS ClientAccounts, FiniteSetTheorems, TLAPS

tables == <<userVars, clientVars, leadVars, tokenVars>>

ReqTyped == req \in [Request -> Asked]

\* What two requests had in hand at once, or a stopped one had, is disturbed.
Noticed == Met \cup Halted \subseteq disturbed

(***************************************************************************)
(* The fields that a request has at each of its statements.                *)
(***************************************************************************)
Shape(call) ==
    /\ call.next \in {"insertToken", "findLink", "link", "updateUser",
                      "relink", "disable"} => call.user \in User
    /\ call.next \in {"insertUser", "findLink", "portal", "portalLink", "editClient"}
         => call.email \in Email
    /\ call.next = "insertToken" /\ call.role = "CLIENT" => call.email \in Email
    /\ call.next \in {"link", "portal", "portalLink", "unlink", "editClient"}
         => call.client \in Client
    /\ call.next \in {"insertUser", "relink"} => call.role \in Role
    /\ call.next \in {"findLink", "link"} => call.role = "CLIENT"
    /\ call.next \in {"updateUser", "relink"} => call.was \in Role
    /\ call.next = "useToken" => call.token \in Token
    /\ call.token # None
         => /\ call.token \in Token
            /\ call.next \in {"updateUser", "relink", "useToken", "stopped"}
    /\ call.next = "portal" => call.user = None
    /\ call.next = "portalLink" /\ call.user # None => call.role = "CLIENT"
    /\ call.next = "convert" => call.lead \in Lead
    /\ call.next = "editTask" => call.task \in Client

\* The rows it has in hand exist, or did.
Known(call) ==
    /\ call.user # None => call.user \in users \cup removed
    /\ call.client # None => call.client \in clients
    /\ call.token # None => tokenRow[call.token].state # "unissued"
    /\ call.task # None => call.task \in clients
    /\ call.next = "convert" => call.lead \in leads

(***************************************************************************)
(* What a request still knows when d is disturbed: the role of the user it *)
(* links or updates, that its link has set no password, the state of its   *)
(* task, the email of its lead, and that its client has no portal user or  *)
(* the email that was asked for.                                           *)
(***************************************************************************)
ToLink == {"insertToken", "findLink", "link", "portalLink"}

RoleKnown(call, d) ==
    call.user \in users \ d =>
        /\ call.next \in ToLink /\ call.role = "CLIENT"
             => userRow[call.user].role = "CLIENT"
        /\ call.next = "updateUser" => userRow[call.user].role = call.was
        /\ call.next = "relink" => userRow[call.user].role = call.role
        /\ call.next = "relink" /\ call.was # "CLIENT" /\ call.role # "CLIENT"
             => LinkedTo(call.user) = {}

TokenKnown(call, d) ==
    call.next = "updateUser" /\ call.token \in Token \ d => spent[call.token] = 0

TaskKnown(call, d) ==
    call.next = "editTask" /\ <<"task", call.task>> \notin d =>
        /\ checklist[call.task].state \in {"OPEN", "DONE"}
        /\ call.completed
             <=> Given(call.state, checklist[call.task].state) = "DONE"

LeadKnown(call) ==
    call.next = "convert" /\ call.lead \notin moved
        => call.email = leadRow[call.lead].email

ClientKnown(call, d) ==
    call.next = "editClient" /\ call.client \notin d =>
        \/ clientRow[call.client].userId = None
        \/ call.email = clientRow[call.client].email

Fits(call, d) ==
    /\ Shape(call) /\ Known(call)
    /\ RoleKnown(call, d) /\ TokenKnown(call, d) /\ TaskKnown(call, d)
    /\ LeadKnown(call) /\ ClientKnown(call, d)

(***************************************************************************)
(* What the tables say at any time.                                        *)
(***************************************************************************)
LinkIsKept(c) ==
    LET u == clientRow[c].userId IN
    \/ u = None
    \/ /\ u \in users /\ c \in clients
       /\ \/ userRow[u].role = "CLIENT" \/ u \in disturbed
          \/ \E r \in Request : req[r].next = "relink" /\ req[r].user = u

TokenIsKept(t) ==
    /\ tokenRow[t].state = "fresh" => tokenRow[t].userId \in users
    /\ t \notin disturbed => spent[t] <= 1
    /\ t \notin disturbed /\ spent[t] > 0 => tokenRow[t].state # "unissued"
    /\ t \notin disturbed /\ spent[t] > 0 /\ tokenRow[t].state = "fresh" =>
          \E r \in Request : /\ req[r].next \in {"relink", "useToken"}
                             /\ req[r].token = t

TaskIsKept(c) ==
    /\ c \notin clients => /\ checklist[c].state = "unseeded"
                           /\ ~checklist[c].completed
    /\ <<"task", c>> \notin disturbed
         => (checklist[c].completed <=> checklist[c].state = "DONE")

LeadIsKept(l) ==
    /\ l \in leads => leadRow[l].email \in Email
    /\ l \notin leads => made[l] = {}
    /\ l \notin moved => \A c \in made[l] :
          /\ c \in clients /\ clientRow[c].email = leadRow[l].email
          /\ leadRow[l].clientId = c

AccountsInv ==
    /\ ReqTyped /\ Noticed
    /\ \A r \in Request : Fits(req[r], disturbed)
    /\ \A c \in Client : LinkIsKept(c)
    /\ \A t \in Token : TokenIsKept(t)
    /\ \A c \in Client : TaskIsKept(c)
    /\ \A l \in Lead : LeadIsKept(l)

Notices == disturbed' = disturbed \cup Met' \cup Halted'
-----------------------------------------------------------------------------
LEMMA NoticesIsNoticed ==
    ASSUME Notices
    PROVE  Noticed' /\ disturbed \subseteq disturbed'
BY DEF Notices, Noticed

\* What two requests have in hand is disturbed.
LEMMA SharedIsDisturbed ==
    ASSUME Noticed, NEW q \in Request, NEW r \in Request, q # r,
           NEW x, x \in InHand(req[q]), x \in InHand(req[r])
    PROVE  x \in disturbed
<1>1. x \in Met
  BY DEF Met
<1> QED BY <1>1 DEF Noticed

LEMMA StoppedIsDisturbed ==
    ASSUME Noticed, NEW r \in Request, req[r].next = "stopped",
           NEW x, x \in InHand(req[r])
    PROVE  x \in disturbed
<1>1. x \in Halted
  BY DEF Halted
<1> QED BY <1>1 DEF Noticed

\* What two requests have in hand after a step is disturbed then.
LEMMA SharedNext ==
    ASSUME Notices, NEW q \in Request, NEW r \in Request, q # r,
           NEW x, x \in InHand(req[q])', x \in InHand(req[r])'
    PROVE  x \in disturbed'
<1>1. x \in Met'
  BY DEF Met
<1> QED BY <1>1 DEF Notices

\* The fields that are in hand.
LEMMA InHandIs ==
    ASSUME NEW call
    PROVE  /\ call.user # None => call.user \in InHand(call)
           /\ call.client # None => call.client \in InHand(call)
           /\ call.token # None => call.token \in InHand(call)
           /\ call.task # None => <<"task", call.task>> \in InHand(call)
           /\ call.next = "relink" => ClientOf(call.email) \subseteq InHand(call)
BY DEF InHand

LEMMA NoneIsNone ==
    /\ \A u \in User : u # None
    /\ \A c \in Client : c # None
    /\ \A l \in Lead : l # None
    /\ \A t \in Token : t # None
    /\ \A e \in Email : e # None
    /\ None \notin Role /\ None # "CLIENT" /\ None # "STAFF"
    /\ None \notin Status /\ None # "OPEN" /\ None # "DONE"
BY NoneAssumption DEF Role

\* A request whose statement is none of those that rely on what was read.
LEMMA PlainFits ==
    ASSUME NEW call, NEW d, Shape(call), Known(call),
           call.next \notin {"findLink", "link", "portalLink", "updateUser", "relink",
                             "editTask", "convert", "editClient"},
           call.next = "insertToken" => call.role # "CLIENT"
    PROVE  Fits(call, d)
BY DEF Fits, RoleKnown, ToLink, TokenKnown, TaskKnown, LeadKnown, ClientKnown

LEMMA PlainFitsNext ==
    ASSUME NEW call, Shape(call), Known(call)',
           call.next \notin {"findLink", "link", "portalLink", "updateUser", "relink",
                             "editTask", "convert", "editClient"},
           call.next = "insertToken" => call.role # "CLIENT"
    PROVE  Fits(call, disturbed)'
<1>1. Shape(call)'
  BY DEF Shape
<1> QED BY <1>1 DEF Fits, RoleKnown, ToLink, TokenKnown, TaskKnown, LeadKnown, ClientKnown

LEMMA BlankIs ==
    /\ Blank \in Asked /\ Blank.next = "new"
    /\ Blank.user = None /\ Blank.client = None /\ Blank.token = None
    /\ Blank.task = None /\ Blank.role = None /\ Shape(Blank)
    /\ Known(Blank)
BY DEF Blank, Asked, Shape, Known
-----------------------------------------------------------------------------
(***************************************************************************)
(* A request that goes on while no row changes.                            *)
(***************************************************************************)
LEMMA TablesAre ==
    ASSUME UNCHANGED tables
    PROVE  UNCHANGED <<users, userRow, removed, clients, clientRow, checklist,
                       leads, leadRow, made, moved, tokenRow, spent>>
BY DEF tables, userVars, clientVars, leadVars, tokenVars

\* What is known stays known when the rows stay and more is disturbed.
LEMMA FitsStays ==
    ASSUME NEW call, NEW d, Fits(call, d), d \subseteq disturbed',
           UNCHANGED tables
    PROVE  Fits(call, disturbed)'
<1>0. UNCHANGED <<users, userRow, removed, clients, clientRow, checklist,
                  leads, leadRow, made, moved, tokenRow, spent>>
  BY TablesAre
<1>1. Shape(call)' /\ Known(call)'
  BY <1>0 DEF Fits, Shape, Known
<1>2. RoleKnown(call, disturbed)'
  BY <1>0 DEF Fits, RoleKnown, ToLink, LinkedTo
<1>3. TokenKnown(call, disturbed)' /\ TaskKnown(call, disturbed)'
  BY <1>0 DEF Fits, TokenKnown, TaskKnown
<1>4. LeadKnown(call)' /\ ClientKnown(call, disturbed)'
  BY <1>0 DEF Fits, LeadKnown, ClientKnown
<1> QED BY <1>1, <1>2, <1>3, <1>4 DEF Fits

\* A request that leaves its place between two updates is no excuse any more;
\* so it may do that, with no row changed, only if it stops.
LEMMA ProceedInv ==
    ASSUME AccountsTypeOK, AccountsInv, Notices, NEW r \in Request,
           NEW call \in Asked, req' = [req EXCEPT ![r] = call],
           UNCHANGED tables, Fits(call, disturbed'),
           req[r].next \in {"relink", "useToken"} =>
              /\ req[r].user # None => req[r].user \in disturbed'
              /\ req[r].token # None => req[r].token \in disturbed'
    PROVE  AccountsInv'
<1>0. UNCHANGED <<users, userRow, removed, clients, clientRow, checklist,
                  leads, leadRow, made, moved, tokenRow, spent>>
  BY TablesAre
<1>1. Noticed' /\ disturbed \subseteq disturbed'
  BY NoticesIsNoticed
<1>2. req'[r] = call /\ \A q \in Request \ {r} : req'[q] = req[q]
  BY DEF AccountsTypeOK
<1>3. ASSUME NEW q \in Request PROVE Fits(req[q], disturbed)'
  <2>1. CASE q = r
    BY <1>2, <2>1, FitsStays
  <2>2. CASE q # r
    <3>1. PICK old : old = req[q] /\ Fits(old, disturbed)
      BY DEF AccountsInv
    <3>2. Fits(old, disturbed)'
      BY <1>1, <3>1, FitsStays
    <3> QED BY <1>2, <2>2, <3>1, <3>2
  <2> QED BY <2>1, <2>2
<1>4. ASSUME NEW c \in Client PROVE LinkIsKept(c)'
  <2>1. LinkIsKept(c)
    BY DEF AccountsInv
  <2>2. ASSUME NEW q \in Request, req[q].next = "relink",
               req[q].user = clientRow[c].userId, clientRow[c].userId # None
        PROVE  \/ req'[q].next = "relink" /\ req'[q].user = req[q].user
               \/ req[q].user \in disturbed'
    BY <1>2, <2>2
  <2> QED BY <1>0, <1>1, <2>1, <2>2 DEF LinkIsKept
<1>5. ASSUME NEW t \in Token PROVE TokenIsKept(t)'
  <2>1. TokenIsKept(t)
    BY DEF AccountsInv
  <2>2. ASSUME NEW q \in Request, req[q].next \in {"relink", "useToken"},
               req[q].token = t
        PROVE  \/ /\ req'[q].next \in {"relink", "useToken"}
                  /\ req'[q].token = t
               \/ t \in disturbed'
    BY <1>2, <2>2, NoneIsNone
  <2> QED BY <1>0, <1>1, <2>1, <2>2 DEF TokenIsKept
<1>6. ASSUME NEW c \in Client PROVE TaskIsKept(c)'
  BY <1>0, <1>1 DEF AccountsInv, TaskIsKept
<1>7. ASSUME NEW l \in Lead PROVE LeadIsKept(l)'
  BY <1>0 DEF AccountsInv, LeadIsKept
<1>8. ReqTyped'
  BY DEF AccountsTypeOK, ReqTyped
<1> QED BY <1>8, <1>1, <1>3, <1>4, <1>5, <1>6, <1>7 DEF AccountsInv

LEMMA OnlyNone == ASSUME Only({}) PROVE UNCHANGED tables
BY DEF Only, tables

\* A request in flight has a record of its own, that fits.
LEMMA CallIs ==
    ASSUME AccountsTypeOK, AccountsInv, NEW r \in Request
    PROVE  \E call \in Asked : call = req[r] /\ Fits(call, disturbed)
BY DEF AccountsTypeOK, AccountsInv

\* One that fails half-way.
LEMMA StopInv ==
    ASSUME AccountsTypeOK, AccountsInv, Notices, NEW r \in Request, Stops(r),
           UNCHANGED tables
    PROVE  AccountsInv'
<1>1. PICK old \in Asked : old = req[r] /\ Fits(old, disturbed)
  BY CallIs
<1>2. PICK call : call = [old EXCEPT !.next = "stopped"]
  OBVIOUS
<1>3. /\ call \in Asked /\ call.next = "stopped" /\ call.user = old.user
      /\ call.client = old.client /\ call.token = old.token
      /\ call.task = old.task
  BY <1>2 DEF Asked
<1>4. req' = [req EXCEPT ![r] = call] /\ req'[r] = call
  BY <1>1, <1>2 DEF Stops, Proceed, AccountsTypeOK
<1>5. Shape(call) /\ Known(call)
  BY <1>1, <1>3 DEF Fits, Shape, Known
<1>6. Fits(call, disturbed')
  BY <1>3, <1>5, PlainFits
<1>7. InHand(call)' \subseteq disturbed'
  <2>1. InHand(call)' \subseteq Halted'
    BY <1>3, <1>4 DEF Halted
  <2> QED BY <2>1 DEF Notices
<1>8. /\ call.user # None => call.user \in disturbed'
      /\ call.token # None => call.token \in disturbed'
  BY <1>7 DEF InHand
<1> QED BY <1>1, <1>3, <1>4, <1>6, <1>8, ProceedInv

\* One that ends without having written anything.
LEMMA EndInv ==
    ASSUME AccountsTypeOK, AccountsInv, Notices, NEW r \in Request, Ends(r),
           req[r].next \notin {"relink", "useToken"}, UNCHANGED tables
    PROVE  AccountsInv'
<1>1. PICK call : call = Blank
  OBVIOUS
<1>2. Fits(call, disturbed') /\ call \in Asked
  BY <1>1, BlankIs, PlainFits
<1>3. req' = [req EXCEPT ![r] = call]
  BY <1>1 DEF Ends, Proceed
<1> QED BY <1>2, <1>3, ProceedInv

\* One that begins.
LEMMA BeginInv ==
    ASSUME AccountsTypeOK, AccountsInv, Notices, NEW r \in Request,
           NEW call \in Asked, Begins(r, call), Fits(call, disturbed'), Only({})
    PROVE  AccountsInv'
<1>1. req' = [req EXCEPT ![r] = call] /\ req[r].next = "new"
  BY DEF Begins, Proceed
<1> QED BY <1>1, OnlyNone, ProceedInv
-----------------------------------------------------------------------------
(***************************************************************************)
(* What the requests are when they begin.                                  *)
(***************************************************************************)
RegisterCall(e, role) == [Blank EXCEPT !.next = "insertUser", !.email = e, !.role = role]

InviteCall(e, role) == [Blank EXCEPT !.next = "insertUser", !.email = e, !.role = role,
                                     !.invite = TRUE]

LEMMA InsertCall ==
    ASSUME NEW e \in Email, NEW role \in Role, NEW call,
           call = RegisterCall(e, role) \/ call = InviteCall(e, role)
    PROVE  /\ call \in Asked /\ call.next = "insertUser"
           /\ call.user = None /\ call.client = None /\ call.token = None
           /\ Shape(call) /\ Known(call)
BY DEF RegisterCall, InviteCall, Blank, Asked, Waiting, Shape, Known

TokenCallOf(u) == [Blank EXCEPT !.next = "insertToken", !.user = u]

LEMMA TokenCall ==
    ASSUME NEW u \in User, NEW call, call = TokenCallOf(u)
    PROVE  /\ call \in Asked /\ call.next = "insertToken"
           /\ call.user = u /\ call.client = None /\ call.token = None
           /\ call.task = None /\ call.role # "CLIENT" /\ Shape(call)
BY NoneIsNone DEF TokenCallOf, Blank, Asked, Waiting, Shape

LEMMA BeginUserInv ==
    ASSUME AccountsTypeOK, AccountsInv, Notices, NEW r \in Request,
           NEW i \in RegisterInput, Register(r, i) \/ InviteUser(r, i)
    PROVE  AccountsInv'
<1>1. i.email \in Email /\ i.role \in Role
  BY DEF RegisterInput
<1>2. CASE Register(r, i)
  <2>1. PICK call : call = RegisterCall(i.email, i.role)
    OBVIOUS
  <2>2. call \in Asked /\ Fits(call, disturbed')
    <3>1. call \in Asked /\ call.next = "insertUser" /\ Shape(call) /\ Known(call)
      BY <1>1, <2>1, InsertCall
    <3> QED BY <3>1, PlainFits
  <2> QED BY <1>2, <2>1, <2>2, BeginInv DEF Register, RegisterCall
<1>3. CASE InviteUser(r, i)
  <2>1. PICK call : call = InviteCall(i.email, i.role)
    OBVIOUS
  <2>2. call \in Asked /\ Fits(call, disturbed')
    <3>1. call \in Asked /\ call.next = "insertUser" /\ Shape(call) /\ Known(call)
      BY <1>1, <2>1, InsertCall
    <3> QED BY <3>1, PlainFits
  <2> QED BY <1>3, <2>1, <2>2, BeginInv DEF InviteUser, InviteCall
<1> QED BY <1>2, <1>3

LEMMA BeginTokenInv ==
    ASSUME AccountsTypeOK, AccountsInv, Notices, NEW r \in Request, NEW u \in User,
           ForgotPassword(r, u) \/ SendPasswordReset(r, u)
    PROVE  AccountsInv'
<1>1. PICK call : call = TokenCallOf(u)
  OBVIOUS
<1>2. u \in users /\ Begins(r, call) /\ Only({})
  BY <1>1, Zenon DEF ForgotPassword, SendPasswordReset, TokenCallOf
<1>3. call \in Asked /\ Fits(call, disturbed')
  <2>1. /\ call \in Asked /\ call.next = "insertToken" /\ call.user = u
        /\ call.client = None /\ call.token = None /\ call.task = None
        /\ call.role # "CLIENT" /\ Shape(call)
    BY <1>1, TokenCall
  <2>2. Known(call)
    BY <1>2, <2>1 DEF Known
  <2> QED BY <2>1, <2>2, PlainFits
<1> QED BY <1>2, <1>3, BeginInv

UpdateOf(u, e, role, status, was) ==
    [Blank EXCEPT !.next = "updateUser", !.user = u, !.email = e, !.role = role,
                  !.status = status, !.was = was]

LEMMA UpdateCall ==
    ASSUME NEW u \in User, u \in users, NEW e \in Email \cup {None},
           NEW role \in Role \cup {None}, NEW status \in Status \cup {None},
           NEW was \in Role, NEW call, call = UpdateOf(u, e, role, status, was)
    PROVE  /\ call \in Asked /\ call.next = "updateUser" /\ call.user = u
           /\ call.token = None /\ call.was = was /\ Shape(call) /\ Known(call)
BY NoneIsNone DEF UpdateOf, Blank, Asked, Waiting, Shape, Known

ResetOf(u, t, was) == [Blank EXCEPT !.next = "updateUser", !.user = u,
                                    !.token = t, !.status = "ACTIVE", !.was = was]

LEMMA ResetCall ==
    ASSUME NEW u \in User, u \in users, NEW t \in Token, NEW was \in Role,
           tokenRow[t].state = "fresh", NEW call, call = ResetOf(u, t, was)
    PROVE  /\ call \in Asked /\ call.next = "updateUser" /\ call.user = u
           /\ call.token = t /\ call.was = was /\ Shape(call) /\ Known(call)
BY NoneIsNone DEF ResetOf, Blank, Asked, Waiting, Shape, Known, Status

\* An update knows the role of its user.
LEMMA UpdateFits ==
    ASSUME NEW call, NEW d, Shape(call), Known(call), call.next = "updateUser",
           userRow[call.user].role = call.was,
           call.token \in Token \ d => spent[call.token] = 0
    PROVE  Fits(call, d)
BY DEF Fits, RoleKnown, ToLink, TokenKnown, TaskKnown, LeadKnown, ClientKnown

LEMMA BeginUpdateInv ==
    ASSUME AccountsTypeOK, AccountsInv, Notices, NEW r \in Request, NEW u \in User,
           NEW i \in UpdateUserInput, StartUpdate(r, u, i)
    PROVE  AccountsInv'
<1>1. PICK e \in Email \cup {None}, role \in Role \cup {None},
           status \in Status \cup {None}, was \in Role :
           /\ e = i.email /\ role = i.role /\ status = i.status
           /\ was = userRow[u].role
  BY DEF UpdateUserInput, AccountsTypeOK, UserRow
<1>2. PICK call : call = UpdateOf(u, e, role, status, was)
  OBVIOUS
<1>3. u \in users /\ Begins(r, call) /\ Only({})
  BY <1>1, <1>2, Zenon DEF StartUpdate, MayUpdate, UpdateOf
<1>4. /\ call \in Asked /\ call.next = "updateUser" /\ call.user = u
      /\ call.token = None /\ call.was = was /\ Shape(call) /\ Known(call)
  BY <1>1, <1>2, <1>3, UpdateCall
<1>5. Fits(call, disturbed')
  BY <1>1, <1>4, UpdateFits, NoneIsNone
<1> QED BY <1>3, <1>4, <1>5, BeginInv

\* A link that was not used yet has set no password, unless a request that
\* has it in hand is about to mark it.
LEMMA BeginResetInv ==
    ASSUME AccountsTypeOK, AccountsInv, Notices, NEW r \in Request, NEW t \in Token,
           ResetPassword(r, t)
    PROVE  AccountsInv'
<1>0. TokenIsKept(t) /\ tokenRow[t].state = "fresh"
  BY DEF AccountsInv, ResetPassword
<1>1. PICK u \in User, was \in Role :
           /\ u = tokenRow[t].userId /\ u \in users /\ was = userRow[u].role
  BY <1>0 DEF TokenIsKept, AccountsTypeOK, UserRow
<1>2. PICK call : call = ResetOf(u, t, was)
  OBVIOUS
<1>3. Begins(r, call) /\ Only({})
  BY <1>1, <1>2, Zenon DEF ResetPassword, ResetOf
<1>4. /\ call \in Asked /\ call.next = "updateUser" /\ call.user = u
      /\ call.token = t /\ call.was = was /\ Shape(call) /\ Known(call)
  BY <1>0, <1>1, <1>2, ResetCall
<1>5. req'[r] = call /\ \A q \in Request \ {r} : req'[q] = req[q]
  BY <1>3 DEF Begins, Proceed, AccountsTypeOK
<1>6. disturbed \subseteq disturbed' /\ Noticed'
  BY NoticesIsNoticed
<1>7. t \notin disturbed' => spent[t] = 0
  <2>1. ASSUME NEW q \in Request, req[q].next \in {"relink", "useToken"},
               req[q].token = t
        PROVE  t \in disturbed'
    <3>1. q # r /\ req'[q] = req[q]
      BY <1>3, <1>5, <2>1 DEF Begins
    <3>2. t \in InHand(req[q])' /\ t \in InHand(req[r])'
      BY <1>4, <1>5, <2>1, <3>1, NoneIsNone DEF InHand
    <3>3. t \in Met'
      BY <3>1, <3>2 DEF Met
    <3> QED BY <3>3 DEF Notices
  <2>2. spent[t] \in 0 .. 2
    BY DEF AccountsTypeOK
  <2> QED BY <1>0, <1>6, <2>1, <2>2 DEF TokenIsKept
<1>8. Fits(call, disturbed')
  BY <1>1, <1>4, <1>7, UpdateFits
<1> QED BY <1>3, <1>4, <1>8, BeginInv

LEMMA PortalCall ==
    ASSUME NEW c \in Client, c \in clients, NEW e \in Email, NEW call,
           call = [Blank EXCEPT !.next = "portal", !.client = c, !.email = e]
    PROVE  /\ call \in Asked /\ call.next = "portal"
           /\ Shape(call) /\ Known(call)
BY NoneIsNone DEF Blank, Asked, Waiting, Shape, Known

LEMMA UnlinkCall ==
    ASSUME NEW c \in Client, c \in clients, NEW call,
           call = [Blank EXCEPT !.next = "unlink", !.client = c]
    PROVE  /\ call \in Asked /\ call.next = "unlink"
           /\ Shape(call) /\ Known(call)
BY NoneIsNone DEF Blank, Asked, Waiting, Shape, Known

EditOf(c, e) ==
    [Blank EXCEPT !.next = "editClient", !.client = c, !.email = e]

LEMMA EditCall ==
    ASSUME NEW c \in Client, c \in clients, NEW e \in Email, NEW call,
           call = EditOf(c, e)
    PROVE  /\ call \in Asked /\ call.next = "editClient" /\ call.client = c
           /\ call.email = e /\ call.user = None /\ Shape(call) /\ Known(call)
BY NoneIsNone DEF EditOf, Blank, Asked, Waiting, Shape, Known

LEMMA DisableCall ==
    ASSUME NEW u \in User, u \in users, NEW call,
           call = [Blank EXCEPT !.next = "disable", !.user = u]
    PROVE  /\ call \in Asked /\ call.next = "disable" /\ Shape(call) /\ Known(call)
BY NoneIsNone DEF Blank, Asked, Waiting, Shape, Known

ConvertOf(l, e) ==
    [Blank EXCEPT !.next = "convert", !.lead = l, !.email = e]

LEMMA LeadCall ==
    ASSUME NEW l \in Lead, l \in leads, NEW e \in Email \cup {None}, NEW call,
           call = ConvertOf(l, e)
    PROVE  /\ call \in Asked /\ call.next = "convert" /\ call.lead = l
           /\ call.email = e /\ call.user = None
           /\ Shape(call) /\ Known(call)
BY NoneIsNone DEF ConvertOf, Blank, Asked, Waiting, Shape, Known

DoneTaskOf(c, state) ==
    [Blank EXCEPT !.next = "editTask", !.task = c, !.state = state,
                  !.completed = TRUE]

OpenTaskOf(c, state) ==
    [Blank EXCEPT !.next = "editTask", !.task = c, !.state = state,
                  !.completed = FALSE]

LEMMA TaskCall ==
    ASSUME NEW c \in clients, c \in Client, NEW state \in {"OPEN", "DONE", None},
           NEW call,
           call = DoneTaskOf(c, state)
    PROVE  /\ call \in Asked /\ call.next = "editTask" /\ call.task = c
           /\ call.state = state /\ call.user = None
           /\ Shape(call) /\ Known(call) /\ call.completed
BY NoneIsNone DEF DoneTaskOf, Blank, Asked, Waiting, Shape, Known

LEMMA OpenTaskCall ==
    ASSUME NEW c \in clients, c \in Client, NEW state \in {"OPEN", "DONE", None},
           NEW call,
           call = OpenTaskOf(c, state)
    PROVE  /\ call \in Asked /\ call.next = "editTask" /\ call.task = c
           /\ call.state = state /\ call.user = None
           /\ Shape(call) /\ Known(call) /\ ~call.completed
BY NoneIsNone DEF OpenTaskOf, Blank, Asked, Waiting, Shape, Known

LEMMA BeginClientInv ==
    ASSUME AccountsTypeOK, AccountsInv, Notices, NEW r \in Request, NEW c \in Client,
           StartPortalUser(r, c) \/ StartDisable(r, c) \/ StartUnlink(r, c)
    PROVE  AccountsInv'
<1>0. LinkIsKept(c) /\ clientRow[c].email \in Email \cup {None}
  BY DEF AccountsInv, AccountsTypeOK, ClientRow
<1>1. CASE StartPortalUser(r, c)
  <2>1. PICK e \in Email : e = clientRow[c].email
    BY <1>0, <1>1 DEF StartPortalUser
  <2>2. PICK call : call = [Blank EXCEPT !.next = "portal", !.client = c,
                                         !.email = e]
    OBVIOUS
  <2>3. c \in clients /\ Begins(r, call) /\ Only({})
    BY <1>1, <2>1, <2>2, Zenon DEF StartPortalUser
  <2>4. call \in Asked /\ Fits(call, disturbed')
    <3>1. call \in Asked /\ call.next = "portal" /\ Shape(call) /\ Known(call)
      BY <2>2, <2>3, PortalCall
    <3> QED BY <3>1, PlainFits
  <2> QED BY <2>3, <2>4, BeginInv
<1>2. CASE StartDisable(r, c)
  <2>1. PICK u \in User : u = clientRow[c].userId /\ u \in users
    BY <1>0, <1>2 DEF StartDisable, LinkIsKept, AccountsTypeOK
  <2>2. PICK call : call = [Blank EXCEPT !.next = "disable", !.user = u]
    OBVIOUS
  <2>3. Begins(r, call) /\ Only({})
    BY <1>2, <2>1, <2>2, Zenon DEF StartDisable
  <2>4. call \in Asked /\ Fits(call, disturbed')
    <3>1. call \in Asked /\ call.next = "disable" /\ Shape(call) /\ Known(call)
      BY <2>1, <2>2, DisableCall
    <3> QED BY <3>1, PlainFits
  <2> QED BY <2>3, <2>4, BeginInv
<1>3. CASE StartUnlink(r, c)
  <2>2. PICK call : call = [Blank EXCEPT !.next = "unlink", !.client = c]
    OBVIOUS
  <2>3. c \in clients /\ Begins(r, call) /\ Only({})
    BY <1>3, <2>2, Zenon DEF StartUnlink
  <2>4. call \in Asked /\ Fits(call, disturbed')
    <3>1. call \in Asked /\ call.next = "unlink" /\ Shape(call) /\ Known(call)
      BY <2>2, <2>3, UnlinkCall
    <3> QED BY <3>1, PlainFits
  <2> QED BY <2>3, <2>4, BeginInv
<1> QED BY <1>1, <1>2, <1>3

\* An edit is let through for a client without a portal user only.
LEMMA BeginEditInv ==
    ASSUME AccountsTypeOK, AccountsInv, Notices, NEW r \in Request, NEW c \in Client,
           NEW e \in Email, StartEdit(r, c, e)
    PROVE  AccountsInv'
<1>1. PICK call : call = EditOf(c, e)
  OBVIOUS
<1>2. c \in clients /\ MayEdit(c, e) /\ Begins(r, call) /\ Only({})
  BY <1>1, Zenon DEF StartEdit, EditOf
<1>3. /\ call \in Asked /\ call.next = "editClient" /\ call.client = c
      /\ call.email = e /\ call.user = None /\ Shape(call) /\ Known(call)
  BY <1>1, <1>2, EditCall
<1>4. Fits(call, disturbed')
  <2>1. RoleKnown(call, disturbed')
    BY <1>3 DEF RoleKnown, ToLink
  <2> QED BY <1>2, <1>3, <2>1
          DEF Fits, TokenKnown, TaskKnown, LeadKnown, ClientKnown, MayEdit
<1> QED BY <1>2, <1>3, <1>4, BeginInv

LEMMA BeginConvertInv ==
    ASSUME AccountsTypeOK, AccountsInv, Notices, NEW r \in Request, NEW l \in Lead,
           StartConvert(r, l)
    PROVE  AccountsInv'
<1>1. PICK e \in Email \cup {None} : e = leadRow[l].email
  BY DEF AccountsTypeOK, LeadRow
<1>2. PICK call : call = ConvertOf(l, e)
  OBVIOUS
<1>3. l \in leads /\ Begins(r, call) /\ Only({})
  BY <1>1, <1>2, Zenon DEF StartConvert, ConvertOf
<1>4. /\ call \in Asked /\ call.next = "convert" /\ call.lead = l
      /\ call.email = e /\ call.user = None /\ Shape(call) /\ Known(call)
  BY <1>2, <1>3, LeadCall
<1>5. Fits(call, disturbed')
  <2>1. RoleKnown(call, disturbed')
    BY <1>4 DEF RoleKnown, ToLink
  <2> QED BY <1>1, <1>4, <2>1
          DEF Fits, TokenKnown, TaskKnown, LeadKnown, ClientKnown
<1> QED BY <1>3, <1>4, <1>5, BeginInv

\* What an update will write of completedAt agrees with the state it will
\* leave, if nobody else changes the task.
LEMMA BeginTaskInv ==
    ASSUME AccountsTypeOK, AccountsInv, Notices, NEW r \in Request, NEW c \in Client,
           NEW state \in {"OPEN", "DONE", None}, StartTask(r, c, state)
    PROVE  AccountsInv'
<1>0. TaskIsKept(c) /\ disturbed \subseteq disturbed'
  BY NoticesIsNoticed DEF AccountsInv
<1> DEFINE b == Completed(state, checklist[c].completed)
<1>1. checklist[c].state \in {"OPEN", "DONE"} /\ Only({}) /\ c \in clients
  BY <1>0 DEF StartTask, TaskIsKept
<1>2. b \in BOOLEAN
  <2>1. checklist[c].completed \in BOOLEAN
    BY DEF AccountsTypeOK, TaskRow
  <2> QED BY <2>1 DEF Completed
<1>3. <<"task", c>> \notin disturbed'
        => (b <=> Given(state, checklist[c].state) = "DONE")
  BY <1>0, <1>1, NoneIsNone DEF TaskIsKept, Completed, Given
<1>4. ASSUME NEW call \in Asked, call.next = "editTask", call.task = c,
             call.state = state, call.user = None, Shape(call), Known(call),
             <<"task", c>> \notin disturbed' =>
                (call.completed <=> Given(state, checklist[c].state) = "DONE"),
             Begins(r, call)
      PROVE  AccountsInv'
  <2>1. RoleKnown(call, disturbed')
    BY <1>4 DEF RoleKnown, ToLink
  <2>2. TaskKnown(call, disturbed')
    BY <1>1, <1>4 DEF TaskKnown
  <2>3. Fits(call, disturbed')
    BY <1>4, <2>1, <2>2 DEF Fits, TokenKnown, LeadKnown, ClientKnown
  <2> QED BY <1>1, <1>4, <2>3, BeginInv
<1>5. CASE b = TRUE
  <2>1. PICK call : call = DoneTaskOf(c, state)
    OBVIOUS
  <2>2. Begins(r, call)
    BY <1>5, <2>1, Zenon DEF StartTask, DoneTaskOf
  <2>3. /\ call \in Asked /\ call.next = "editTask" /\ call.task = c
        /\ call.state = state /\ call.user = None
        /\ Shape(call) /\ Known(call) /\ call.completed
    BY <1>1, <2>1, TaskCall
  <2> QED BY <1>3, <1>4, <1>5, <2>2, <2>3
<1>6. CASE b = FALSE
  <2>1. PICK call : call = OpenTaskOf(c, state)
    OBVIOUS
  <2>2. Begins(r, call)
    BY <1>6, <2>1, Zenon DEF StartTask, OpenTaskOf
  <2>3. /\ call \in Asked /\ call.next = "editTask" /\ call.task = c
        /\ call.state = state /\ call.user = None
        /\ Shape(call) /\ Known(call) /\ ~call.completed
    BY <1>1, <2>1, OpenTaskCall
  <2> QED BY <1>3, <1>4, <1>6, <2>2, <2>3
<1> QED BY <1>2, <1>5, <1>6
-----------------------------------------------------------------------------
(***************************************************************************)
(* What a step that changes rows leaves as it was.                         *)
(***************************************************************************)

\* Nothing that was disturbed, moved or made is forgotten.
Grows ==
    /\ disturbed \subseteq disturbed' /\ moved \subseteq moved'
    /\ users \cup removed \subseteq users' \cup removed'
    /\ clients \subseteq clients' /\ leads \subseteq leads'
    /\ \A t \in Token :
          tokenRow[t].state # "unissued" => tokenRow'[t].state # "unissued"

\* What a step leaves alone of a row that is not disturbed after it: the role
\* of a user, who is linked to nothing new; the passwords a link has set; a
\* task; the email of a lead; the email of a client, that gets no link.
UserStays(u) ==
    u \in users' \ disturbed' =>
        /\ u \in users /\ userRow'[u].role = userRow[u].role
        /\ LinkedTo(u)' \subseteq LinkedTo(u)

TokenStays(t) == t \in Token \ disturbed' => spent'[t] = spent[t]

TaskStays(c) ==
    /\ c \in Client /\ <<"task", c>> \notin disturbed'
    /\ checklist[c].state \in {"OPEN", "DONE"}
    => checklist'[c] = checklist[c]

LeadStays(l) == l \in leads \ moved' => leadRow'[l].email = leadRow[l].email

ClientStays(c) ==
    c \in clients \ disturbed' =>
        /\ clientRow'[c].email = clientRow[c].email
        /\ clientRow'[c].userId \in {None, clientRow[c].userId}

\* What a request knows is so after a step that leaves alone what it has in
\* hand.
LEMMA FitsKept ==
    ASSUME Grows, NEW call, Fits(call, disturbed), UserStays(call.user),
           TokenStays(call.token), TaskStays(call.task), LeadStays(call.lead),
           ClientStays(call.client)
    PROVE  Fits(call, disturbed)'
<1>1. Shape(call)' /\ Known(call)'
  BY DEF Fits, Shape, Known, Grows
<1>2. RoleKnown(call, disturbed)'
  <2>1. RoleKnown(call, disturbed)
    BY DEF Fits
  <2> QED BY <2>1 DEF RoleKnown, ToLink, Grows, UserStays
<1>3. TokenKnown(call, disturbed)'
  BY DEF Fits, TokenKnown, Grows, TokenStays
<1>4. TaskKnown(call, disturbed)'
  <2>1. TaskKnown(call, disturbed) /\ Shape(call)
    BY DEF Fits
  <2>2. SUFFICES ASSUME call.next = "editTask",
                        <<"task", call.task>> \notin disturbed'
                 PROVE  /\ checklist'[call.task].state \in {"OPEN", "DONE"}
                        /\ call.completed <=>
                            Given(call.state, checklist'[call.task].state) = "DONE"
    BY DEF TaskKnown
  <2>3. <<"task", call.task>> \notin disturbed /\ call.task \in Client
    BY <2>1, <2>2 DEF Shape, Grows
  <2>4. /\ checklist[call.task].state \in {"OPEN", "DONE"}
        /\ call.completed <=>
             Given(call.state, checklist[call.task].state) = "DONE"
    BY <2>1, <2>2, <2>3 DEF TaskKnown
  <2>5. checklist'[call.task] = checklist[call.task]
    BY <2>2, <2>3, <2>4 DEF TaskStays
  <2> QED BY <2>4, <2>5
<1>5. LeadKnown(call)'
  BY DEF Fits, Known, LeadKnown, Grows, LeadStays
<1>6. ClientKnown(call, disturbed)'
  <2>1. ClientKnown(call, disturbed) /\ Shape(call) /\ Known(call)
    BY DEF Fits
  <2>2. SUFFICES ASSUME call.next = "editClient", call.client \notin disturbed'
                 PROVE  \/ clientRow'[call.client].userId = None
                        \/ call.email = clientRow'[call.client].email
    BY DEF ClientKnown
  <2>3. call.client \notin disturbed /\ call.client \in clients
    BY <2>1, <2>2, NoneIsNone DEF Shape, Known, Grows
  <2>4. \/ clientRow[call.client].userId = None
        \/ call.email = clientRow[call.client].email
    BY <2>1, <2>2, <2>3 DEF ClientKnown
  <2> QED BY <2>2, <2>3, <2>4 DEF ClientStays
<1> QED BY <1>1, <1>2, <1>3, <1>4, <1>5, <1>6 DEF Fits

\* No request leaves its place between two updates of one change.
HoldsStay ==
    \A q \in Request :
        req[q].next \in {"relink", "useToken"} => req'[q] = req[q]

\* A link that is not made stays true, if the role of its user stays.
LEMMA LinkKept ==
    ASSUME Grows, HoldsStay, NEW c \in Client, LinkIsKept(c),
           \/ clientRow'[c].userId = None
           \/ /\ clientRow'[c].userId = clientRow[c].userId
              /\ clientRow[c].userId \in users =>
                    /\ clientRow[c].userId \in users'
                    /\ userRow'[clientRow[c].userId].role
                          = userRow[clientRow[c].userId].role
    PROVE  LinkIsKept(c)'
BY DEF Grows, HoldsStay, LinkIsKept

LEMMA TokenKept ==
    ASSUME Grows, HoldsStay, NEW t \in Token, TokenIsKept(t),
           spent'[t] = spent[t], tokenRow'[t] = tokenRow[t],
           tokenRow[t].state = "fresh" /\ tokenRow[t].userId \in users
              => tokenRow[t].userId \in users'
    PROVE  TokenIsKept(t)'
BY DEF Grows, HoldsStay, TokenIsKept

LEMMA TaskKept ==
    ASSUME Grows, NEW c \in Client, TaskIsKept(c), checklist'[c] = checklist[c]
    PROVE  TaskIsKept(c)'
BY DEF Grows, TaskIsKept

\* What was made of a lead keeps its email, unless the lead counts as moved.
LEMMA LeadKept ==
    ASSUME Grows, NEW l \in Lead, LeadIsKept(l), made'[l] = made[l],
           leadRow'[l] = leadRow[l], l \in leads' => l \in leads,
           l \notin moved' =>
              \A c \in made[l] : c \in clients =>
                 clientRow'[c].email = clientRow[c].email
    PROVE  LeadIsKept(l)'
BY DEF Grows, LeadIsKept
-----------------------------------------------------------------------------
(***************************************************************************)
(* The steps that are one statement, or one transaction.                   *)
(***************************************************************************)
\* Postgres makes a row that was not there, and the automation's checklist of
\* it is not seeded yet.
LEMMA InsertedClient ==
    ASSUME AccountsTypeOK, AccountsInv, Notices, NEW c0 \in Client, NEW e, NEW u,
           InsertClient(c0, e, u)
    PROVE  /\ clients' = clients \cup {c0} /\ c0 \notin clients
           /\ clientRow'[c0].email = e /\ clientRow'[c0].userId = u
           /\ \A c \in Client \ {c0} : /\ clientRow'[c] = clientRow[c]
                                       /\ checklist'[c] = checklist[c]
           /\ checklist[c0].state = "unseeded"
           /\ \A c \in Client : TaskIsKept(c)'
<1>1. /\ clients' = clients \cup {c0} /\ c0 \notin clients
      /\ clientRow'[c0] = [email |-> e, userId |-> u]
      /\ \A c \in Client \ {c0} : /\ clientRow'[c] = clientRow[c]
                                  /\ checklist'[c] = checklist[c]
  BY DEF InsertClient, AccountsTypeOK
<1>2. checklist'[c0] = [checklist[c0] EXCEPT !.state = "seeding"]
  BY DEF InsertClient, AccountsTypeOK
<1>3. checklist[c0].state = "unseeded" /\ ~checklist[c0].completed
  BY <1>1 DEF AccountsInv, TaskIsKept
<1>4. checklist[c0] \in TaskRow
  BY DEF AccountsTypeOK
<1>5. checklist'[c0].state = "seeding" /\ ~checklist'[c0].completed
  BY <1>2, <1>3, <1>4 DEF TaskRow
<1>6. disturbed \subseteq disturbed'
  BY NoticesIsNoticed
<1>7. ASSUME NEW c \in Client PROVE TaskIsKept(c)'
  <2>1. CASE c = c0
    BY <1>1, <1>5, <2>1 DEF TaskIsKept
  <2>2. CASE c # c0
    BY <1>1, <1>6, <2>2 DEF AccountsInv, TaskIsKept
  <2> QED BY <2>1, <2>2
<1> QED BY <1>1, <1>3, <1>7

LEMMA CreateClientInv ==
    ASSUME AccountsTypeOK, AccountsInv, Notices, NEW c0 \in Client, NEW e,
           CreateClient(c0, e)
    PROVE  AccountsInv'
<1>0. /\ UNCHANGED <<users, userRow, removed, leads, leadRow, made, moved,
                     tokenRow, spent, req>>
      /\ InsertClient(c0, e, None)
  BY DEF CreateClient, Only, userVars, leadVars, tokenVars
<1>1. /\ clients' = clients \cup {c0} /\ c0 \notin clients
      /\ clientRow'[c0].userId = None
      /\ \A c \in Client \ {c0} : /\ clientRow'[c] = clientRow[c]
                                  /\ checklist'[c] = checklist[c]
      /\ checklist[c0].state = "unseeded"
      /\ \A c \in Client : TaskIsKept(c)'
  BY <1>0, InsertedClient
<1>2. Noticed' /\ Grows /\ HoldsStay
  BY <1>0, <1>1, NoticesIsNoticed DEF Grows, HoldsStay
<1>3. ASSUME NEW q \in Request PROVE Fits(req[q], disturbed)'
  <2>1. PICK call \in Asked : call = req[q] /\ Fits(call, disturbed)
    BY CallIs
  <2>2. UserStays(call.user)
    BY <1>0, <1>1, NoneIsNone DEF UserStays, LinkedTo, AccountsTypeOK
  <2>3. TokenStays(call.token) /\ TaskStays(call.task) /\ LeadStays(call.lead)
    BY <1>0, <1>1 DEF TokenStays, TaskStays, LeadStays
  <2>4. ClientStays(call.client)
    BY <1>1 DEF ClientStays, AccountsTypeOK
  <2>5. Fits(call, disturbed)'
    BY <1>2, <2>1, <2>2, <2>3, <2>4, FitsKept
  <2> QED BY <1>0, <2>1, <2>5
<1>4. ASSUME NEW c \in Client PROVE LinkIsKept(c)'
  BY <1>0, <1>1, <1>2, LinkKept DEF AccountsInv
<1>5. ASSUME NEW t \in Token PROVE TokenIsKept(t)'
  BY <1>0, <1>2, TokenKept DEF AccountsInv
<1>6. ASSUME NEW l \in Lead PROVE LeadIsKept(l)'
  BY <1>0, <1>1, <1>2, LeadKept DEF AccountsInv, AccountsTypeOK
<1>8. ReqTyped'
  BY <1>0 DEF AccountsTypeOK, ReqTyped
<1> QED BY <1>8, <1>1, <1>2, <1>3, <1>4, <1>5, <1>6 DEF AccountsInv

LEMMA SeedForClientInv ==
    ASSUME AccountsTypeOK, AccountsInv, Notices, NEW c0 \in Client,
           SeedForClient(c0)
    PROVE  AccountsInv'
<1>0. /\ UNCHANGED <<users, userRow, removed, leads, leadRow, made, moved,
                     tokenRow, spent, req, clients, clientRow>>
      /\ checklist[c0].state = "seeding"
      /\ checklist' = [checklist EXCEPT ![c0].state = "OPEN"]
  BY DEF SeedForClient, Only, userVars, leadVars, tokenVars
<1>1. /\ \A c \in Client \ {c0} : checklist'[c] = checklist[c]
      /\ checklist'[c0].state = "OPEN"
      /\ checklist'[c0].completed = checklist[c0].completed
  BY <1>0 DEF AccountsTypeOK, TaskRow
<1>2. Noticed' /\ Grows /\ HoldsStay
  BY <1>0, NoticesIsNoticed DEF Grows, HoldsStay
<1>3. ASSUME NEW q \in Request PROVE Fits(req[q], disturbed)'
  <2>1. PICK call \in Asked : call = req[q] /\ Fits(call, disturbed)
    BY CallIs
  <2>2. UserStays(call.user) /\ ClientStays(call.client)
    BY <1>0 DEF UserStays, LinkedTo, ClientStays
  <2>3. TokenStays(call.token) /\ TaskStays(call.task) /\ LeadStays(call.lead)
    BY <1>0, <1>1, <1>2 DEF TokenStays, TaskStays, LeadStays, AccountsTypeOK
  <2>4. Fits(call, disturbed)'
    BY <1>2, <2>1, <2>2, <2>3, FitsKept
  <2> QED BY <1>0, <2>1, <2>4
<1>4. ASSUME NEW c \in Client PROVE LinkIsKept(c)'
  BY <1>0, <1>2, LinkKept DEF AccountsInv
<1>5. ASSUME NEW t \in Token PROVE TokenIsKept(t)'
  BY <1>0, <1>2, TokenKept DEF AccountsInv
<1>6. ASSUME NEW l \in Lead PROVE LeadIsKept(l)'
  BY <1>0, <1>2, LeadKept DEF AccountsInv
<1>7. ASSUME NEW c \in Client PROVE TaskIsKept(c)'
  <2>1. CASE c = c0
    BY <1>0, <1>1, <1>2, <2>1 DEF AccountsInv, TaskIsKept, Grows
  <2> QED BY <1>1, <1>2, <2>1, TaskKept DEF AccountsInv
<1>8. ReqTyped'
  BY <1>0 DEF AccountsTypeOK, ReqTyped
<1> QED BY <1>8, <1>2, <1>3, <1>4, <1>5, <1>6, <1>7 DEF AccountsInv

LEMMA CreateLeadInv ==
    ASSUME AccountsTypeOK, AccountsInv, Notices, NEW l0 \in Lead, NEW e \in Email,
           CreateLead(l0, e)
    PROVE  AccountsInv'
<1>0. /\ UNCHANGED <<users, userRow, removed, made, moved, tokenRow, spent, req,
                     clients, clientRow, checklist>>
      /\ l0 \notin leads /\ leads' = leads \cup {l0}
      /\ leadRow' = [leadRow EXCEPT ![l0].email = e]
  BY DEF CreateLead, Only, userVars, clientVars, tokenVars
<1>1. leadRow'[l0].email = e /\ \A l \in Lead \ {l0} : leadRow'[l] = leadRow[l]
  BY <1>0 DEF AccountsTypeOK, LeadRow
<1>2. Noticed' /\ Grows /\ HoldsStay
  BY <1>0, NoticesIsNoticed DEF Grows, HoldsStay
<1>3. ASSUME NEW q \in Request PROVE Fits(req[q], disturbed)'
  <2>1. PICK call \in Asked : call = req[q] /\ Fits(call, disturbed)
    BY CallIs
  <2>2. UserStays(call.user) /\ ClientStays(call.client)
    BY <1>0 DEF UserStays, LinkedTo, ClientStays
  <2>3. TokenStays(call.token) /\ TaskStays(call.task) /\ LeadStays(call.lead)
    BY <1>0, <1>1, <1>2 DEF TokenStays, TaskStays, LeadStays, AccountsTypeOK
  <2>4. Fits(call, disturbed)'
    BY <1>2, <2>1, <2>2, <2>3, FitsKept
  <2> QED BY <1>0, <2>1, <2>4
<1>4. ASSUME NEW c \in Client PROVE LinkIsKept(c)'
  BY <1>0, <1>2, LinkKept DEF AccountsInv
<1>5. ASSUME NEW t \in Token PROVE TokenIsKept(t)'
  BY <1>0, <1>2, TokenKept DEF AccountsInv
<1>6. ASSUME NEW l \in Lead PROVE LeadIsKept(l)'
  <2>1. CASE l = l0
    BY <1>0, <1>1, <2>1 DEF AccountsInv, LeadIsKept
  <2> QED BY <1>0, <1>1, <1>2, <2>1, LeadKept DEF AccountsInv
<1>7. ASSUME NEW c \in Client PROVE TaskIsKept(c)'
  BY <1>0, <1>2, TaskKept DEF AccountsInv
<1>8. ReqTyped'
  BY <1>0 DEF AccountsTypeOK, ReqTyped
<1> QED BY <1>8, <1>2, <1>3, <1>4, <1>5, <1>6, <1>7 DEF AccountsInv

\* A lead whose email or client is given by hand counts as moved.
LEMMA UpdateLeadInv ==
    ASSUME AccountsTypeOK, AccountsInv, Notices, NEW l0 \in Lead,
           NEW row \in UpdateLeadInput, UpdateLead(l0, row)
    PROVE  AccountsInv'
<1>0. /\ UNCHANGED <<users, userRow, removed, leads, made, tokenRow, spent, req,
                     clients, clientRow, checklist>>
      /\ l0 \in leads /\ leadRow' = [leadRow EXCEPT ![l0] = row]
      /\ row # leadRow[l0]
      /\ moved' = IF \/ row.email # leadRow[l0].email
                     \/ row.clientId # leadRow[l0].clientId
                  THEN moved \cup {l0} ELSE moved
  BY DEF UpdateLead, Only, userVars, clientVars, tokenVars
<1>1. leadRow'[l0] = row /\ \A l \in Lead \ {l0} : leadRow'[l] = leadRow[l]
  BY <1>0 DEF AccountsTypeOK
<1>m. moved \subseteq moved' /\ l0 \in moved'
  <2>1. row.email # leadRow[l0].email \/ row.clientId # leadRow[l0].clientId
    BY <1>0 DEF UpdateLeadInput, AccountsTypeOK, LeadRow, CreateLeadInput
  <2> QED BY <1>0, <2>1
<1>2. Noticed' /\ Grows /\ HoldsStay
  BY <1>0, <1>m, NoticesIsNoticed DEF Grows, HoldsStay
<1>3. ASSUME NEW q \in Request PROVE Fits(req[q], disturbed)'
  <2>1. PICK call \in Asked : call = req[q] /\ Fits(call, disturbed)
    BY CallIs
  <2>2. UserStays(call.user) /\ ClientStays(call.client)
    BY <1>0 DEF UserStays, LinkedTo, ClientStays
  <2>3. TokenStays(call.token) /\ TaskStays(call.task) /\ LeadStays(call.lead)
    BY <1>0, <1>1, <1>m, <1>2 DEF TokenStays, TaskStays, LeadStays, AccountsTypeOK
  <2>4. Fits(call, disturbed)'
    BY <1>2, <2>1, <2>2, <2>3, FitsKept
  <2> QED BY <1>0, <2>1, <2>4
<1>4. ASSUME NEW c \in Client PROVE LinkIsKept(c)'
  BY <1>0, <1>2, LinkKept DEF AccountsInv
<1>5. ASSUME NEW t \in Token PROVE TokenIsKept(t)'
  BY <1>0, <1>2, TokenKept DEF AccountsInv
<1>6. ASSUME NEW l \in Lead PROVE LeadIsKept(l)'
  <2>1. CASE l = l0
    BY <1>0, <1>1, <1>m, <2>1
       DEF LeadIsKept, UpdateLeadInput, CreateLeadInput
  <2> QED BY <1>0, <1>1, <1>2, <2>1, LeadKept DEF AccountsInv
<1>7. ASSUME NEW c \in Client PROVE TaskIsKept(c)'
  BY <1>0, <1>2, TaskKept DEF AccountsInv
<1>8. ReqTyped'
  BY <1>0 DEF AccountsTypeOK, ReqTyped
<1> QED BY <1>8, <1>2, <1>3, <1>4, <1>5, <1>6, <1>7 DEF AccountsInv

LEMMA ExpireInv ==
    ASSUME AccountsTypeOK, AccountsInv, Notices, NEW t0 \in Token, Expire(t0)
    PROVE  AccountsInv'
<1>0. /\ UNCHANGED <<users, userRow, removed, leads, leadRow, made, moved, spent,
                     req, clients, clientRow, checklist>>
      /\ tokenRow' = [tokenRow EXCEPT ![t0].state = "expired"]
  BY DEF Expire, Only, userVars, clientVars, leadVars
<1>1. /\ \A t \in Token \ {t0} : tokenRow'[t] = tokenRow[t]
      /\ tokenRow'[t0].state = "expired"
  BY <1>0 DEF AccountsTypeOK, TokenRow
<1>2. Noticed' /\ Grows /\ HoldsStay
  BY <1>0, NoticesIsNoticed DEF Grows, HoldsStay
<1>3. ASSUME NEW q \in Request PROVE Fits(req[q], disturbed)'
  <2>1. PICK call \in Asked : call = req[q] /\ Fits(call, disturbed)
    BY CallIs
  <2>2. UserStays(call.user) /\ ClientStays(call.client)
    BY <1>0 DEF UserStays, LinkedTo, ClientStays
  <2>3. TokenStays(call.token) /\ TaskStays(call.task) /\ LeadStays(call.lead)
    BY <1>0 DEF TokenStays, TaskStays, LeadStays
  <2>4. Fits(call, disturbed)'
    BY <1>2, <2>1, <2>2, <2>3, FitsKept
  <2> QED BY <1>0, <2>1, <2>4
<1>4. ASSUME NEW c \in Client PROVE LinkIsKept(c)'
  BY <1>0, <1>2, LinkKept DEF AccountsInv
<1>5. ASSUME NEW t \in Token PROVE TokenIsKept(t)'
  <2>1. CASE t = t0
    BY <1>0, <1>1, <1>2, <2>1 DEF AccountsInv, TokenIsKept, Grows
  <2> QED BY <1>0, <1>1, <1>2, <2>1, TokenKept DEF AccountsInv
<1>6. ASSUME NEW l \in Lead PROVE LeadIsKept(l)'
  BY <1>0, <1>2, LeadKept DEF AccountsInv
<1>7. ASSUME NEW c \in Client PROVE TaskIsKept(c)'
  BY <1>0, <1>2, TaskKept DEF AccountsInv
<1>8. ReqTyped'
  BY <1>0 DEF AccountsTypeOK, ReqTyped
<1> QED BY <1>8, <1>2, <1>3, <1>4, <1>5, <1>6, <1>7 DEF AccountsInv

\* The links and the tokens of a user go with the user.
LEMMA RemoveUserInv ==
    ASSUME AccountsTypeOK, AccountsInv, Notices, NEW u0 \in User, RemoveUser(u0)
    PROVE  AccountsInv'
<1>0. /\ UNCHANGED <<leads, leadRow, made, moved, spent, req, clients, checklist>>
      /\ users' = users \ {u0} /\ removed' = removed \cup {u0}
      /\ userRow' = [userRow EXCEPT ![u0] = NoUser]
      /\ clientRow' = [c \in Client |-> IF clientRow[c].userId = u0
                                        THEN [clientRow[c] EXCEPT !.userId = None]
                                        ELSE clientRow[c]]
      /\ tokenRow' = [t \in Token |-> IF tokenRow[t].userId = u0
                                      THEN [state |-> "deleted", userId |-> None]
                                      ELSE tokenRow[t]]
  BY DEF RemoveUser, Only, leadVars
<1>1. /\ \A u \in User \ {u0} : userRow'[u] = userRow[u]
      /\ \A c \in Client :
            /\ clientRow'[c].email = clientRow[c].email
            /\ clientRow'[c].userId =
                 IF clientRow[c].userId = u0 THEN None ELSE clientRow[c].userId
      /\ \A t \in Token : IF tokenRow[t].userId = u0
                          THEN tokenRow'[t].state = "deleted"
                          ELSE tokenRow'[t] = tokenRow[t]
  BY <1>0 DEF AccountsTypeOK, ClientRow
<1>2. Noticed' /\ Grows /\ HoldsStay
  BY <1>0, NoticesIsNoticed DEF Grows, HoldsStay
<1>3. ASSUME NEW q \in Request PROVE Fits(req[q], disturbed)'
  <2>1. PICK call \in Asked : call = req[q] /\ Fits(call, disturbed)
    BY CallIs
  <2>2. UserStays(call.user)
    BY <1>0, <1>1, NoneIsNone DEF UserStays, LinkedTo, AccountsTypeOK
  <2>3. TokenStays(call.token) /\ TaskStays(call.task) /\ LeadStays(call.lead)
    BY <1>0 DEF TokenStays, TaskStays, LeadStays
  <2>4. ClientStays(call.client)
    BY <1>1 DEF ClientStays, AccountsTypeOK
  <2>5. Fits(call, disturbed)'
    BY <1>2, <2>1, <2>2, <2>3, <2>4, FitsKept
  <2> QED BY <1>0, <2>1, <2>5
<1>4. ASSUME NEW c \in Client PROVE LinkIsKept(c)'
  <2>1. CASE clientRow[c].userId \in {u0, None}
    BY <1>1, <2>1 DEF LinkIsKept
  <2>2. CASE clientRow[c].userId \notin {u0, None}
    <3>1. clientRow[c].userId \in User
      BY <2>2 DEF AccountsTypeOK, ClientRow
    <3> QED BY <1>0, <1>1, <1>2, <2>2, <3>1, LinkKept DEF AccountsInv
  <2> QED BY <2>1, <2>2
<1>5. ASSUME NEW t \in Token PROVE TokenIsKept(t)'
  <2>1. CASE tokenRow[t].userId = u0
    BY <1>0, <1>1, <1>2, <2>1 DEF AccountsInv, TokenIsKept, Grows
  <2> QED BY <1>0, <1>1, <1>2, <2>1, TokenKept DEF AccountsInv
<1>6. ASSUME NEW l \in Lead PROVE LeadIsKept(l)'
  BY <1>0, <1>1, <1>2, LeadKept DEF AccountsInv, AccountsTypeOK
<1>7. ASSUME NEW c \in Client PROVE TaskIsKept(c)'
  BY <1>0, <1>2, TaskKept DEF AccountsInv
<1>8. ReqTyped'
  BY <1>0 DEF AccountsTypeOK, ReqTyped
<1> QED BY <1>8, <1>2, <1>3, <1>4, <1>5, <1>6, <1>7 DEF AccountsInv

\* A client and its portal user made together; who sends a link to the user
\* then is the only request that moves.
LEMMA CreateBothInv ==
    ASSUME AccountsTypeOK, AccountsInv, Notices, NEW c0 \in Client,
           NEW u0 \in User, NEW e \in Email, CreateBoth(c0, u0, e), HoldsStay, ReqTyped',
           \A q \in Request : req'[q] = req[q] \/ Fits(req[q], disturbed)'
    PROVE  AccountsInv'
<1>0. /\ UNCHANGED <<removed, leads, leadRow, made, moved, tokenRow, spent>>
      /\ InsertClient(c0, e, u0) /\ u0 \notin users \cup removed
      /\ users' = users \cup {u0}
      /\ userRow' = [userRow EXCEPT ![u0] = [email |-> e, role |-> "CLIENT",
                                             status |-> "ACTIVE"]]
  BY DEF CreateBoth, InsertUser, Only, leadVars, tokenVars
<1>1. /\ clients' = clients \cup {c0} /\ c0 \notin clients
      /\ clientRow'[c0].userId = u0
      /\ \A c \in Client \ {c0} : /\ clientRow'[c] = clientRow[c]
                                  /\ checklist'[c] = checklist[c]
      /\ checklist[c0].state = "unseeded"
      /\ \A c \in Client : TaskIsKept(c)'
  BY <1>0, InsertedClient
<1>u. userRow'[u0].role = "CLIENT" /\ \A u \in User \ {u0} : userRow'[u] = userRow[u]
  BY <1>0 DEF AccountsTypeOK
<1>2. Noticed' /\ Grows
  BY <1>0, <1>1, NoticesIsNoticed DEF Grows
<1>3. ASSUME NEW q \in Request PROVE Fits(req[q], disturbed)'
  <2>1. CASE req'[q] = req[q]
    <3>1. PICK call \in Asked : call = req[q] /\ Fits(call, disturbed)
      BY CallIs
    <3>2. UserStays(call.user)
      <4>1. call.user # None => call.user \in users \cup removed
        BY <3>1 DEF Fits, Known
      <4> QED BY <4>1, <1>0, <1>1, <1>u, NoneIsNone DEF UserStays, LinkedTo, AccountsTypeOK
    <3>3. TokenStays(call.token) /\ TaskStays(call.task) /\ LeadStays(call.lead)
      BY <1>0, <1>1 DEF TokenStays, TaskStays, LeadStays
    <3>4. ClientStays(call.client)
      BY <1>1 DEF ClientStays, AccountsTypeOK
    <3>5. Fits(call, disturbed)'
      BY <1>2, <3>1, <3>2, <3>3, <3>4, FitsKept
    <3> QED BY <2>1, <3>1, <3>5
  <2> QED BY <2>1
<1>4. ASSUME NEW c \in Client PROVE LinkIsKept(c)'
  <2>1. CASE c = c0
    BY <1>0, <1>1, <1>u, <2>1 DEF LinkIsKept
  <2>2. CASE c # c0
    <3>1. LinkIsKept(c) /\ clientRow'[c] = clientRow[c]
      BY <1>1, <2>2 DEF AccountsInv
    <3>2. clientRow[c].userId \in users =>
             /\ clientRow[c].userId \in users'
             /\ userRow'[clientRow[c].userId] = userRow[clientRow[c].userId]
      BY <1>0, <1>u DEF AccountsTypeOK
    <3> QED BY <1>2, <3>1, <3>2, LinkKept
  <2> QED BY <2>1, <2>2
<1>5. ASSUME NEW t \in Token PROVE TokenIsKept(t)'
  BY <1>0, <1>2, TokenKept DEF AccountsInv
<1>6. ASSUME NEW l \in Lead PROVE LeadIsKept(l)'
  BY <1>0, <1>1, <1>2, LeadKept DEF AccountsInv, AccountsTypeOK
<1> QED BY <1>1, <1>2, <1>3, <1>4, <1>5, <1>6 DEF AccountsInv

LEMMA CreatePortalClientInv ==
    ASSUME AccountsTypeOK, AccountsInv, Notices, NEW c \in Client, NEW u \in User,
           NEW e \in Email, CreateWithPortalUser(c, u, e)
    PROVE  AccountsInv'
<1>1. CreateBoth(c, u, e) /\ UNCHANGED req
  BY DEF CreateWithPortalUser
<1>2. HoldsStay /\ \A q \in Request : req'[q] = req[q]
  BY <1>1 DEF HoldsStay
<1>3. ReqTyped'
  BY <1>1 DEF AccountsTypeOK, ReqTyped
<1> QED BY <1>1, <1>2, <1>3, CreateBothInv

LEMMA CreateInvitedClientInv ==
    ASSUME AccountsTypeOK, AccountsInv, Notices, NEW r \in Request, NEW c \in Client,
           NEW u \in User, NEW e \in Email, CreateWithPortalInvite(r, c, u, e)
    PROVE  AccountsInv'
<1>1. PICK call : call = TokenCallOf(u)
  OBVIOUS
<1>2. CreateBoth(c, u, e) /\ Begins(r, call)
  BY <1>1, Zenon DEF CreateWithPortalInvite, TokenCallOf
<1>3. /\ call \in Asked /\ call.next = "insertToken" /\ call.user = u
      /\ call.client = None /\ call.token = None /\ call.task = None
      /\ call.role # "CLIENT" /\ Shape(call)
  BY <1>1, TokenCall
<1>4. u \in users'
  BY <1>2 DEF CreateBoth, InsertUser
<1>5. Known(call)'
  BY <1>3, <1>4 DEF Known
<1>6. Fits(call, disturbed)'
  BY <1>3, <1>5, PlainFitsNext
<1>7. req'[r] = call /\ \A q \in Request \ {r} : req'[q] = req[q]
  BY <1>2 DEF Begins, Proceed, AccountsTypeOK
<1>8. HoldsStay
  BY <1>2, <1>7 DEF HoldsStay, Begins
<1>9. \A q \in Request : req'[q] = req[q] \/ Fits(req[q], disturbed)'
  BY <1>6, <1>7
<1>10. ReqTyped'
  BY <1>2, <1>3 DEF Begins, Proceed, AccountsTypeOK, ReqTyped
<1> QED BY <1>2, <1>8, <1>9, <1>10, CreateBothInv
-----------------------------------------------------------------------------
(***************************************************************************)
(* The statements of a request.                                            *)
(***************************************************************************)
LEMMA BlankFits == Fits(Blank, disturbed)'
<1>1. PICK call : call = Blank
  OBVIOUS
<1>2. Shape(call) /\ call.next = "new" /\ Known(call)'
  <2>1. /\ call.user = None /\ call.client = None /\ call.token = None
        /\ call.task = None /\ call.next = "new" /\ Shape(call)
    BY <1>1, BlankIs
  <2> QED BY <2>1 DEF Known
<1>3. Fits(call, disturbed)'
  BY <1>2, PlainFitsNext
<1> QED BY <1>1, <1>3

\* What two requests have in hand before a step is disturbed.
LEMMA SharedStays ==
    ASSUME AccountsInv, Notices, NEW q \in Request, NEW r \in Request, q # r,
           NEW x, x \in InHand(req[q]), x \in InHand(req[r])
    PROVE  x \in disturbed'
BY SharedIsDisturbed DEF AccountsInv, Notices

\* What a registration goes on with.
GoesOnAs(call, me, u) ==
    \/ call = [me EXCEPT !.next = "insertToken", !.user = u]
    \/ call = [me EXCEPT !.user = u, !.next = "findLink"] /\ me.role = "CLIENT"
    \/ call = Blank

LEMMA NextUserCall ==
    ASSUME NEW me \in Asked, Shape(me), me.next = "insertUser", NEW u \in User,
           NEW call, GoesOnAs(call, me, u)
    PROVE  /\ call \in Asked /\ Shape(call)
           /\ \/ call = Blank
              \/ /\ call.next \in {"insertToken", "findLink"} /\ call.user = u
                 /\ call.role = me.role /\ call.client = me.client
                 /\ call.token = me.token /\ call.task = me.task
                 /\ call.role = "CLIENT" => me.role = "CLIENT"
<1>1. CASE call = Blank
  BY <1>1, BlankIs
<1>2. CASE call = [me EXCEPT !.next = "insertToken", !.user = u]
  BY <1>2, NoneIsNone DEF Asked, Waiting, Shape
<1>3. CASE call = [me EXCEPT !.user = u, !.next = "findLink"] /\ me.role = "CLIENT"
  BY <1>3, NoneIsNone DEF Asked, Waiting, Shape
<1> QED BY <1>1, <1>2, <1>3 DEF GoesOnAs

\* A new user has the role that was asked for, which the link relies on.
LEMMA CreateUserInv ==
    ASSUME AccountsTypeOK, AccountsInv, Notices, NEW r \in Request, CreateUser(r)
    PROVE  AccountsInv'
<1>r. PICK me \in Asked : me = req[r] /\ Fits(me, disturbed)
  BY CallIs
<1>n. me.next = "insertUser" /\ Shape(me)
  BY <1>r DEF CreateUser, Fits
<1>1. CASE UserOf(me.email) # {}
  <2>1. Ends(r) /\ Only({})
    BY <1>1, <1>r DEF CreateUser
  <2> QED BY <1>n, <1>r, <2>1, OnlyNone, EndInv
<1>2. CASE UserOf(me.email) = {}
  <2>0. PICK u0 \in User :
           /\ InsertUser(u0, me.email, me.role) /\ Only({"users"})
           /\ Proceed(r, IF me.invite
                         THEN [me EXCEPT !.next = "insertToken", !.user = u0]
                         ELSE ThenLink([me EXCEPT !.user = u0]))
    BY <1>2, <1>r, Zenon DEF CreateUser
  <2>c. PICK call : GoesOnAs(call, me, u0) /\ req' = [req EXCEPT ![r] = call]
    <3>1. CASE me.invite
      BY <2>0, <3>1, Zenon DEF Proceed, GoesOnAs
    <3>2. CASE ~me.invite
      <4>1. req' = [req EXCEPT ![r] = ThenLink([me EXCEPT !.user = u0])]
        BY <2>0, <3>2, Zenon DEF Proceed
      <4>2. [me EXCEPT !.user = u0].role = me.role
        BY DEF Asked
      <4>3. CASE me.role = "CLIENT"
        <5>1. req' = [req EXCEPT ![r] = [me EXCEPT !.user = u0, !.next = "findLink"]]
          BY <4>1, <4>2, <4>3 DEF ThenLink
        <5> QED BY <4>3, <5>1, Zenon DEF GoesOnAs
      <4>4. CASE me.role # "CLIENT"
        <5>1. req' = [req EXCEPT ![r] = Blank]
          BY <4>1, <4>2, <4>4 DEF ThenLink
        <5> QED BY <5>1, Zenon DEF GoesOnAs
      <4> QED BY <4>3, <4>4
    <3> QED BY <3>1, <3>2
  <2>m. /\ call \in Asked /\ Shape(call)
        /\ \/ call = Blank
           \/ /\ call.next \in {"insertToken", "findLink"} /\ call.user = u0
              /\ call.role = me.role /\ call.client = me.client
              /\ call.token = me.token /\ call.task = me.task
    BY <1>n, <2>c, NextUserCall
  <2>1. /\ UNCHANGED <<removed, leads, leadRow, made, moved, tokenRow, spent,
                       clients, clientRow, checklist>>
        /\ u0 \notin users \cup removed /\ users' = users \cup {u0}
        /\ userRow' = [userRow EXCEPT ![u0] = [email |-> me.email, role |-> me.role,
                                               status |-> "ACTIVE"]]
    BY <2>0 DEF InsertUser, Only, clientVars, leadVars, tokenVars
  <2>u. /\ userRow'[u0].role = me.role
        /\ \A u \in User \ {u0} : userRow'[u] = userRow[u]
    BY <2>1 DEF AccountsTypeOK
  <2>q. req'[r] = call /\ \A q \in Request \ {r} : req'[q] = req[q]
    BY <2>c DEF AccountsTypeOK
  <2>2. Noticed' /\ Grows /\ HoldsStay
    BY <1>n, <1>r, <2>1, <2>q, NoticesIsNoticed DEF Grows, HoldsStay
  <2>s. Fits(call, disturbed)'
    <3>1. CASE call = Blank
      BY <3>1, BlankFits
    <3>2. CASE call # Blank
      <4>1. Known(call)'
        BY <1>r, <2>1, <2>m, <3>2 DEF Fits, Known
      <4>2. RoleKnown(call, disturbed)'
        BY <2>m, <2>u, <3>2 DEF RoleKnown, ToLink
      <4> QED BY <2>m, <3>2, <4>1, <4>2
              DEF Fits, Shape, TokenKnown, TaskKnown, LeadKnown, ClientKnown
    <3> QED BY <3>1, <3>2
  <2>3. ASSUME NEW q \in Request PROVE Fits(req[q], disturbed)'
    <3>1. CASE q = r
      BY <2>q, <2>s, <3>1
    <3>2. CASE q # r
      <4>1. PICK other \in Asked : other = req[q] /\ Fits(other, disturbed)
        BY CallIs
      <4>2. UserStays(other.user)
        <5>1. other.user # None => other.user \in users \cup removed
          BY <4>1 DEF Fits, Known
        <5> QED BY <2>1, <2>u, <5>1, NoneIsNone DEF UserStays, LinkedTo, AccountsTypeOK
      <4>3. /\ TokenStays(other.token) /\ TaskStays(other.task)
            /\ LeadStays(other.lead) /\ ClientStays(other.client)
        BY <2>1 DEF TokenStays, TaskStays, LeadStays, ClientStays
      <4>4. Fits(other, disturbed)'
        BY <2>2, <4>1, <4>2, <4>3, FitsKept
      <4> QED BY <2>q, <3>2, <4>1, <4>4
    <3> QED BY <3>1, <3>2
  <2>4. ASSUME NEW c \in Client PROVE LinkIsKept(c)'
    <3>1. clientRow[c].userId \in users =>
             /\ clientRow[c].userId \in users'
             /\ userRow'[clientRow[c].userId] = userRow[clientRow[c].userId]
      BY <2>1, <2>u DEF AccountsTypeOK
    <3> QED BY <2>1, <2>2, <3>1, LinkKept DEF AccountsInv
  <2>5. ASSUME NEW t \in Token PROVE TokenIsKept(t)'
    BY <2>1, <2>2, TokenKept DEF AccountsInv
  <2>6. ASSUME NEW l \in Lead PROVE LeadIsKept(l)'
    BY <2>1, <2>2, LeadKept DEF AccountsInv
  <2>7. ASSUME NEW c \in Client PROVE TaskIsKept(c)'
    BY <2>1, <2>2, TaskKept DEF AccountsInv
  <2>8. ReqTyped'
    BY <2>c, <2>m DEF AccountsTypeOK, ReqTyped
  <2> QED BY <2>8, <2>2, <2>3, <2>4, <2>5, <2>6, <2>7 DEF AccountsInv
<1> QED BY <1>1, <1>2

LEMMA FindCall ==
    ASSUME NEW me \in Asked, Shape(me), me.next = "insertToken",
           me.role = "CLIENT", NEW call, call = [me EXCEPT !.next = "findLink"]
    PROVE  /\ call \in Asked /\ Shape(call) /\ call.next = "findLink"
           /\ call.user = me.user /\ call.role = me.role
           /\ call.client = me.client /\ call.token = me.token
           /\ call.task = me.task
BY NoneIsNone DEF Asked, Waiting, Shape

\* A link is made for a user who is there.
LEMMA InsertTokenInv ==
    ASSUME AccountsTypeOK, AccountsInv, Notices, NEW r \in Request, InsertToken(r)
    PROVE  AccountsInv'
<1>r. PICK me \in Asked : me = req[r] /\ Fits(me, disturbed)
  BY CallIs
<1>n. me.next = "insertToken" /\ Shape(me)
  BY <1>r DEF InsertToken, Fits
<1>1. CASE me.user \notin users
  <2>1. Stops(r) /\ Only({})
    BY <1>1, <1>r DEF InsertToken
  <2> QED BY <2>1, OnlyNone, StopInv
<1>2. CASE me.user \in users
  <2>0. PICK t0 \in Token :
           /\ tokenRow[t0].state = "unissued" /\ UNCHANGED spent /\ Only({"tokens"})
           /\ tokenRow' = [tokenRow EXCEPT ![t0] = [state |-> "fresh",
                                                    userId |-> me.user]]
           /\ Proceed(r, ThenLink(me))
    BY <1>2, <1>r DEF InsertToken
  <2>c. PICK call : /\ req' = [req EXCEPT ![r] = call]
                    /\ \/ call = Blank
                       \/ /\ call = [me EXCEPT !.next = "findLink"]
                          /\ me.role = "CLIENT"
    BY <2>0 DEF Proceed, ThenLink
  <2>1. UNCHANGED <<users, userRow, removed, leads, leadRow, made, moved,
                    clients, clientRow, checklist, spent>>
    BY <2>0 DEF Only, userVars, clientVars, leadVars
  <2>t. /\ tokenRow'[t0].state = "fresh" /\ tokenRow'[t0].userId = me.user
        /\ \A t \in Token \ {t0} : tokenRow'[t] = tokenRow[t]
    BY <2>0 DEF AccountsTypeOK
  <2>q. req'[r] = call /\ \A q \in Request \ {r} : req'[q] = req[q]
    BY <2>c DEF AccountsTypeOK
  <2>2. Noticed' /\ Grows /\ HoldsStay
    BY <1>n, <1>r, <2>1, <2>t, <2>q, NoticesIsNoticed DEF Grows, HoldsStay
  <2>s. Fits(call, disturbed)'
    <3>1. CASE call = Blank
      BY <3>1, BlankFits
    <3>2. CASE call # Blank
      <4>1. /\ call \in Asked /\ Shape(call) /\ call.next = "findLink"
            /\ call.user = me.user /\ call.role = me.role
            /\ call.client = me.client /\ call.token = me.token
            /\ call.task = me.task /\ me.role = "CLIENT"
        BY <1>n, <2>c, <3>2, FindCall
      <4>2. Known(call)'
        BY <1>n, <1>r, <2>1, <2>2, <4>1 DEF Fits, Shape, Known, Grows
      <4>3. RoleKnown(call, disturbed)'
        BY <1>n, <1>r, <2>1, <2>2, <4>1 DEF Fits, RoleKnown, ToLink, Grows
      <4> QED BY <4>1, <4>2, <4>3
              DEF Fits, Shape, TokenKnown, TaskKnown, LeadKnown, ClientKnown
    <3> QED BY <3>1, <3>2
  <2>3. ASSUME NEW q \in Request PROVE Fits(req[q], disturbed)'
    <3>1. CASE q = r
      BY <2>q, <2>s, <3>1
    <3>2. CASE q # r
      <4>1. PICK other \in Asked : other = req[q] /\ Fits(other, disturbed)
        BY CallIs
      <4>2. UserStays(other.user) /\ ClientStays(other.client)
        BY <2>1 DEF UserStays, LinkedTo, ClientStays
      <4>3. TokenStays(other.token) /\ TaskStays(other.task) /\ LeadStays(other.lead)
        BY <2>1 DEF TokenStays, TaskStays, LeadStays
      <4>4. Fits(other, disturbed)'
        BY <2>2, <4>1, <4>2, <4>3, FitsKept
      <4> QED BY <2>q, <3>2, <4>1, <4>4
    <3> QED BY <3>1, <3>2
  <2>4. ASSUME NEW c \in Client PROVE LinkIsKept(c)'
    BY <2>1, <2>2, LinkKept DEF AccountsInv
  <2>5. ASSUME NEW t \in Token PROVE TokenIsKept(t)'
    <3>1. CASE t = t0
      <4>1. t0 \notin disturbed' => ~(spent'[t0] > 0)
        BY <2>0, <2>1, <2>2 DEF AccountsInv, TokenIsKept, Grows
      <4>2. spent'[t0] \in 0 .. 2
        BY <2>1 DEF AccountsTypeOK
      <4> QED BY <1>2, <2>1, <2>t, <3>1, <4>1, <4>2 DEF TokenIsKept
    <3> QED BY <2>1, <2>2, <2>t, <3>1, TokenKept DEF AccountsInv
  <2>6. ASSUME NEW l \in Lead PROVE LeadIsKept(l)'
    BY <2>1, <2>2, LeadKept DEF AccountsInv
  <2>7. ASSUME NEW c \in Client PROVE TaskIsKept(c)'
    BY <2>1, <2>2, TaskKept DEF AccountsInv
  <2>8. ReqTyped'
    BY <1>n, <2>c, BlankIs, FindCall DEF AccountsTypeOK, ReqTyped
  <2> QED BY <2>8, <2>2, <2>3, <2>4, <2>5, <2>6, <2>7 DEF AccountsInv
<1> QED BY <1>1, <1>2

LinkCallOf(me, c) == [me EXCEPT !.next = "link", !.client = c]

LEMMA LinkCall ==
    ASSUME NEW me \in Asked, Shape(me), me.next = "findLink", NEW c \in Client,
           NEW call, call = LinkCallOf(me, c)
    PROVE  /\ call \in Asked /\ Shape(call) /\ call.next = "link"
           /\ call.user = me.user /\ call.role = me.role
           /\ call.client = c /\ call.token = me.token /\ call.task = me.task
BY NoneIsNone DEF LinkCallOf, Asked, Waiting, Shape

LEMMA FindLinkInv ==
    ASSUME AccountsTypeOK, AccountsInv, Notices, NEW r \in Request, FindLink(r)
    PROVE  AccountsInv'
<1>r. PICK me \in Asked : me = req[r] /\ Fits(me, disturbed)
  BY CallIs
<1>n. me.next = "findLink" /\ Shape(me) /\ Only({})
  BY <1>r DEF FindLink, Fits
<1>1. CASE ~Linkable(me.email, me.user)
  <2>1. Stops(r)
    BY <1>1, <1>r DEF FindLink
  <2> QED BY <1>n, <2>1, OnlyNone, StopInv
<1>2. CASE Linkable(me.email, me.user)
  <2>1. PICK c \in ClientOf(me.email) :
           Proceed(r, [me EXCEPT !.next = "link", !.client = c])
    BY <1>2, <1>r DEF FindLink
  <2>2. c \in clients /\ c \in Client
    BY <2>1 DEF ClientOf, AccountsTypeOK
  <2>3. PICK call : call = LinkCallOf(me, c) /\ req' = [req EXCEPT ![r] = call]
    BY <2>1, Zenon DEF Proceed, LinkCallOf
  <2>4. /\ call \in Asked /\ Shape(call) /\ call.next = "link"
        /\ call.user = me.user /\ call.role = me.role
        /\ call.client = c /\ call.token = me.token /\ call.task = me.task
    BY <1>n, <2>2, <2>3, LinkCall
  <2>5. disturbed \subseteq disturbed'
    BY NoticesIsNoticed
  <2>6. Known(call) /\ RoleKnown(call, disturbed')
    BY <1>n, <1>r, <2>2, <2>4, <2>5 DEF Fits, Known, RoleKnown, ToLink
  <2>7. Fits(call, disturbed')
    BY <2>4, <2>6 DEF Fits, TokenKnown, TaskKnown, LeadKnown, ClientKnown
  <2> QED BY <1>n, <1>r, <2>3, <2>4, <2>7, OnlyNone, ProceedInv
<1> QED BY <1>1, <1>2

\* The user that is linked has the role CLIENT still, unless another request
\* has the user in hand.
LEMMA LinkClientUserInv ==
    ASSUME AccountsTypeOK, AccountsInv, Notices, NEW r \in Request,
           LinkClientUser(r)
    PROVE  AccountsInv'
<1>r. PICK me \in Asked : me = req[r] /\ Fits(me, disturbed)
  BY CallIs
<1>n. me.next = "link" /\ Shape(me) /\ Known(me) /\ RoleKnown(me, disturbed)
  BY <1>r DEF LinkClientUser, Fits
<1>h. /\ me.user \in User /\ me.client \in Client /\ me.client \in clients
      /\ me.user \in InHand(me) /\ me.client \in InHand(me)
  BY <1>n, NoneIsNone, InHandIs DEF Shape, Known
<1>1. CASE me.user \notin users \/ LinkedTo(me.user) \ {me.client} # {}
  <2>1. Stops(r) /\ Only({})
    BY <1>1, <1>r DEF LinkClientUser
  <2> QED BY <2>1, OnlyNone, StopInv
<1>2. CASE ~(me.user \notin users \/ LinkedTo(me.user) \ {me.client} # {})
  <2>0. /\ clientRow' = [clientRow EXCEPT ![me.client].userId = me.user]
        /\ Ends(r) /\ UNCHANGED <<clients, checklist>> /\ Only({"clients"})
    BY <1>2, <1>r DEF LinkClientUser
  <2>1. UNCHANGED <<users, userRow, removed, leads, leadRow, made, moved,
                    clients, checklist, tokenRow, spent>>
    BY <2>0 DEF Only, userVars, tokenVars, leadVars
  <2>c. /\ clientRow'[me.client].userId = me.user
        /\ \A c \in Client : clientRow'[c].email = clientRow[c].email
        /\ \A c \in Client \ {me.client} : clientRow'[c] = clientRow[c]
    BY <1>h, <2>0 DEF AccountsTypeOK, ClientRow
  <2>q. req'[r] = Blank /\ \A q \in Request \ {r} : req'[q] = req[q]
    BY <2>0 DEF Ends, Proceed, AccountsTypeOK
  <2>2. Noticed' /\ Grows /\ HoldsStay
    BY <1>n, <1>r, <2>1, <2>q, NoticesIsNoticed DEF Grows, HoldsStay
  <2>3. ASSUME NEW q \in Request PROVE Fits(req[q], disturbed)'
    <3>1. CASE q = r
      BY <2>q, <3>1, BlankFits
    <3>2. CASE q # r
      <4>1. PICK other \in Asked : other = req[q] /\ Fits(other, disturbed)
        BY CallIs
      <4>s. ASSUME NEW x, x \in InHand(me), x \in InHand(other)
            PROVE  x \in disturbed'
        BY <1>r, <3>2, <4>1, <4>s, SharedStays
      <4>2. UserStays(other.user)
        <5>1. other.user = me.user => other.user \in disturbed'
          BY <1>h, <4>s, InHandIs, NoneIsNone
        <5> QED BY <2>1, <2>c, <5>1 DEF UserStays, LinkedTo, AccountsTypeOK
      <4>3. TokenStays(other.token) /\ TaskStays(other.task) /\ LeadStays(other.lead)
        BY <2>1 DEF TokenStays, TaskStays, LeadStays
      <4>4. ClientStays(other.client)
        <5>1. other.client = me.client => other.client \in disturbed'
          BY <1>h, <4>s, InHandIs, NoneIsNone
        <5> QED BY <2>c, <5>1 DEF ClientStays, AccountsTypeOK
      <4>5. Fits(other, disturbed)'
        BY <2>2, <4>1, <4>2, <4>3, <4>4, FitsKept
      <4> QED BY <2>q, <3>2, <4>1, <4>5
    <3> QED BY <3>1, <3>2
  <2>4. ASSUME NEW c \in Client PROVE LinkIsKept(c)'
    <3>1. CASE c = me.client
      <4>1. me.user \in users' /\ c \in clients'
        BY <1>2, <1>h, <2>1, <3>1
      <4>2. userRow'[me.user].role = "CLIENT" \/ me.user \in disturbed'
        BY <1>2, <1>n, <2>1, <2>2 DEF RoleKnown, ToLink, Shape, Grows
      <4> QED BY <2>c, <3>1, <4>1, <4>2 DEF LinkIsKept
    <3> QED BY <2>1, <2>2, <2>c, <3>1, LinkKept DEF AccountsInv
  <2>5. ASSUME NEW t \in Token PROVE TokenIsKept(t)'
    BY <2>1, <2>2, TokenKept DEF AccountsInv
  <2>6. ASSUME NEW l \in Lead PROVE LeadIsKept(l)'
    BY <2>1, <2>2, <2>c, LeadKept DEF AccountsInv, AccountsTypeOK
  <2>7. ASSUME NEW c \in Client PROVE TaskIsKept(c)'
    BY <2>1, <2>2, TaskKept DEF AccountsInv
  <2>8. ReqTyped'
    BY <2>0, BlankIs DEF Ends, Proceed, AccountsTypeOK, ReqTyped
  <2> QED BY <2>8, <2>2, <2>3, <2>4, <2>5, <2>6, <2>7 DEF AccountsInv
<1> QED BY <1>1, <1>2

RelinkCallOf(me, e, role) ==
    [me EXCEPT !.next = "relink", !.email = e, !.role = role]

LEMMA RelinkCall ==
    ASSUME NEW me \in Asked, Shape(me), me.next = "updateUser",
           NEW e \in Email \cup {None}, NEW role \in Role,
           NEW call, call = RelinkCallOf(me, e, role)
    PROVE  /\ call \in Asked /\ Shape(call) /\ call.next = "relink"
           /\ call.user = me.user /\ call.role = role /\ call.was = me.was
           /\ call.client = me.client /\ call.token = me.token
           /\ call.task = me.task
BY NoneIsNone DEF RelinkCallOf, Asked, Waiting, Shape

\* The first update of a user: from it until the second one the request itself
\* answers for the link, and for the token that let it in.
LEMMA UpdateUserInv ==
    ASSUME AccountsTypeOK, AccountsInv, Notices, NEW r \in Request, UpdateUser(r)
    PROVE  AccountsInv'
<1>r. PICK me \in Asked : me = req[r] /\ Fits(me, disturbed)
  BY CallIs
<1>n. /\ me.next = "updateUser" /\ Shape(me) /\ Known(me)
      /\ RoleKnown(me, disturbed) /\ TokenKnown(me, disturbed)
  BY <1>r DEF UpdateUser, Fits
<1>h. /\ me.user \in User /\ me.user \in InHand(me)
      /\ me.token # None => me.token \in Token /\ me.token \in InHand(me)
  BY <1>n, NoneIsNone, InHandIs DEF Shape
<1> DEFINE row == Updated(userRow[me.user], me)
<1>1. CASE me.user \notin users \/ ~(UserOf(row.email) \subseteq {me.user})
  <2>1. Ends(r) /\ Only({})
    BY <1>1, <1>r DEF UpdateUser
  <2> QED BY <1>n, <1>r, <2>1, OnlyNone, EndInv
<1>2. CASE ~(me.user \notin users \/ ~(UserOf(row.email) \subseteq {me.user}))
  <2>w. PICK e \in Email \cup {None}, role \in Role, status \in Status :
           row = [email |-> e, role |-> role, status |-> status]
    BY <1>h DEF Updated, Given, AccountsTypeOK, UserRow, Asked
  <2>w2. row.email = e /\ row.role = role
    BY <2>w
  <2>0. /\ userRow' = [userRow EXCEPT ![me.user] = row]
        /\ spent' = IF me.token = None THEN spent
                    ELSE [spent EXCEPT ![me.token] = IF @ = 0 THEN 1 ELSE 2]
        /\ Proceed(r, [me EXCEPT !.next = "relink", !.email = row.email,
                                 !.role = row.role])
        /\ UNCHANGED <<users, removed, tokenRow>> /\ Only({"users", "tokens"})
    BY <1>2, <1>r, Zenon DEF UpdateUser
  <2>u. /\ userRow'[me.user].role = role
        /\ \A u \in User \ {me.user} : userRow'[u] = userRow[u]
    BY <1>h, <2>0, <2>w2 DEF AccountsTypeOK
  <2>c. PICK call : /\ call = RelinkCallOf(me, e, role)
                    /\ req' = [req EXCEPT ![r] = call]
    BY <2>0, <2>w2, Zenon DEF Proceed, RelinkCallOf
  <2> HIDE DEF row
  <2>m. /\ call \in Asked /\ Shape(call) /\ call.next = "relink"
        /\ call.user = me.user /\ call.role = role /\ call.was = me.was
        /\ call.client = me.client /\ call.token = me.token
        /\ call.task = me.task
    BY <1>n, <2>c, RelinkCall
  <2>1. UNCHANGED <<users, removed, leads, leadRow, made, moved, tokenRow,
                    clients, clientRow, checklist>>
    BY <2>0 DEF Only, clientVars, leadVars
  <2>t. /\ \A t \in Token \ {me.token} : spent'[t] = spent[t]
        /\ me.token \in Token =>
              spent'[me.token] = IF spent[me.token] = 0 THEN 1 ELSE 2
    BY <2>0, NoneIsNone DEF AccountsTypeOK
  <2>q. req'[r] = call /\ \A q \in Request \ {r} : req'[q] = req[q]
    BY <2>c DEF AccountsTypeOK
  <2>2. Noticed' /\ Grows /\ HoldsStay
    BY <1>n, <1>r, <2>1, <2>q, NoticesIsNoticed DEF Grows, HoldsStay
  <2>x. ASSUME NEW q \in Request, q # r, NEW x, x \in InHand(me),
               x \in InHand(req[q])
        PROVE  x \in disturbed'
    BY <1>r, <2>x, SharedStays
  <2>s. Fits(call, disturbed)'
    <3>1. Known(call)'
      BY <1>n, <1>h, <2>1, <2>m DEF Known
    <3>2. RoleKnown(call, disturbed)'
      <4>1. ASSUME me.user \notin disturbed', me.was # "CLIENT", me.user \in users,
                   NEW c \in clients, clientRow[c].userId = me.user
            PROVE  FALSE
        <5>1. LinkIsKept(c) /\ me.user # None
          BY <1>h, <4>1, NoneIsNone DEF AccountsInv, AccountsTypeOK
        <5>2. userRow[me.user].role # "CLIENT" /\ me.user \notin disturbed
          BY <1>n, <2>2, <4>1 DEF RoleKnown, ToLink, Grows
        <5>3. PICK q \in Request : req[q].next = "relink" /\ req[q].user = me.user
          BY <4>1, <5>1, <5>2 DEF LinkIsKept
        <5>4. q # r /\ me.user \in InHand(req[q])
          BY <1>n, <1>r, <5>1, <5>3, InHandIs
        <5> QED BY <1>h, <2>x, <4>1, <5>4
      <4>2. \/ me.user \in disturbed' \/ me.was = "CLIENT" \/ me.user \notin users
            \/ LinkedTo(me.user)' = {}
        BY <2>1, <4>1 DEF LinkedTo
      <4> QED BY <2>1, <2>m, <2>u, <4>2 DEF RoleKnown, ToLink
    <3> QED BY <2>m, <3>1, <3>2
            DEF Fits, Shape, TokenKnown, TaskKnown, LeadKnown, ClientKnown
  <2>3. ASSUME NEW q \in Request PROVE Fits(req[q], disturbed)'
    <3>1. CASE q = r
      BY <2>q, <2>s, <3>1
    <3>2. CASE q # r
      <4>1. PICK other \in Asked : other = req[q] /\ Fits(other, disturbed)
        BY CallIs
      <4>2. UserStays(other.user)
        <5>1. other.user = me.user => other.user \in disturbed'
          BY <1>h, <2>x, <3>2, <4>1, InHandIs, NoneIsNone
        <5> QED BY <2>1, <2>u, <5>1 DEF UserStays, LinkedTo, AccountsTypeOK
      <4>3. TokenStays(other.token)
        <5>1. other.token = me.token /\ me.token # None => other.token \in disturbed'
          BY <1>h, <2>x, <3>2, <4>1, InHandIs
        <5> QED BY <2>t, <5>1, NoneIsNone DEF TokenStays
      <4>4. /\ TaskStays(other.task) /\ LeadStays(other.lead)
            /\ ClientStays(other.client)
        BY <2>1 DEF TaskStays, LeadStays, ClientStays
      <4>5. Fits(other, disturbed)'
        BY <2>2, <4>1, <4>2, <4>3, <4>4, FitsKept
      <4> QED BY <2>q, <3>2, <4>1, <4>5
    <3> QED BY <3>1, <3>2
  <2>4. ASSUME NEW c \in Client PROVE LinkIsKept(c)'
    <3>1. CASE clientRow[c].userId = me.user
      <4>1. LinkIsKept(c)
        BY DEF AccountsInv
      <4>2. req'[r].next = "relink" /\ req'[r].user = me.user
        BY <2>m, <2>q
      <4> QED BY <2>1, <3>1, <4>1, <4>2 DEF LinkIsKept
    <3>2. CASE clientRow[c].userId # me.user
      <4>1. clientRow[c].userId \in users => clientRow[c].userId \in User \ {me.user}
        BY <3>2 DEF AccountsTypeOK
      <4> QED BY <2>1, <2>2, <2>u, <4>1, LinkKept DEF AccountsInv
    <3> QED BY <3>1, <3>2
  <2>5. ASSUME NEW t \in Token PROVE TokenIsKept(t)'
    <3>1. CASE t = me.token
      <4>1. TokenIsKept(t) /\ tokenRow[t].state # "unissued"
        BY <1>n, <3>1, NoneIsNone DEF AccountsInv, Known
      <4>2. t \notin disturbed' => spent'[t] = 1
        BY <1>n, <2>2, <2>t, <3>1 DEF TokenKnown, Grows
      <4>3. req'[r].next = "relink" /\ req'[r].token = t
        BY <2>m, <2>q, <3>1
      <4> QED BY <2>1, <4>1, <4>2, <4>3 DEF TokenIsKept
    <3> QED BY <2>1, <2>2, <2>t, <3>1, TokenKept DEF AccountsInv
  <2>6. ASSUME NEW l \in Lead PROVE LeadIsKept(l)'
    BY <2>1, <2>2, LeadKept DEF AccountsInv
  <2>7. ASSUME NEW c \in Client PROVE TaskIsKept(c)'
    BY <2>1, <2>2, TaskKept DEF AccountsInv
  <2>8. ReqTyped'
    BY <2>c, <2>m DEF AccountsTypeOK, ReqTyped
  <2> QED BY <2>8, <2>2, <2>3, <2>4, <2>5, <2>6, <2>7 DEF AccountsInv
<1> QED BY <1>1, <1>2

UseCallOf(me) == [me EXCEPT !.next = "useToken"]

LEMMA UseCall ==
    ASSUME NEW me \in Asked, Shape(me), me.next = "relink", me.token # None,
           NEW call, call = UseCallOf(me)
    PROVE  /\ call \in Asked /\ Shape(call) /\ call.next = "useToken"
           /\ call.user = me.user /\ call.client = me.client
           /\ call.token = me.token /\ call.task = me.task
BY NoneIsNone DEF UseCallOf, Asked, Waiting, Shape

\* The second update of a user: the link follows the role.
LEMMA RelinkInv ==
    ASSUME AccountsTypeOK, AccountsInv, Notices, NEW r \in Request, Relink(r)
    PROVE  AccountsInv'
<1>r. PICK me \in Asked : me = req[r] /\ Fits(me, disturbed)
  BY CallIs
<1>n. /\ me.next = "relink" /\ Shape(me) /\ Known(me) /\ RoleKnown(me, disturbed)
  BY <1>r DEF Relink, Fits
<1>h. /\ me.user \in User /\ me.user \in InHand(me)
      /\ ClientOf(me.email) \subseteq InHand(me)
  BY <1>n, NoneIsNone, InHandIs DEF Shape
<1>1. CASE RelinkFails(me)
  <2>1. Stops(r) /\ Only({})
    BY <1>1, <1>r DEF Relink
  <2> QED BY <2>1, OnlyNone, StopInv
<1>2. CASE ~RelinkFails(me)
  <2>0. /\ clientRow' = [c \in Client |->
                           [clientRow[c] EXCEPT !.userId = Relinked(me)[c]]]
        /\ IF me.token = None THEN Ends(r)
           ELSE Proceed(r, [me EXCEPT !.next = "useToken"])
        /\ UNCHANGED <<clients, checklist>> /\ Only({"clients"})
    BY <1>2, <1>r DEF Relink
  <2>1. UNCHANGED <<users, userRow, removed, leads, leadRow, made, moved,
                    clients, checklist, tokenRow, spent>>
    BY <2>0 DEF Only, userVars, tokenVars, leadVars
  <2>c. \A c \in Client :
           /\ clientRow'[c].email = clientRow[c].email
           /\ me.role = "CLIENT" /\ c \in ClientOf(me.email)
                => clientRow'[c].userId = me.user
           /\ ~(me.role = "CLIENT" /\ c \in ClientOf(me.email))
                => /\ clientRow'[c].userId \in {None, clientRow[c].userId}
                   /\ me.role # "CLIENT" /\ me.was = "CLIENT"
                      /\ c \in LinkedTo(me.user)
                        => clientRow'[c].userId = None
    BY <2>0 DEF Relinked, AccountsTypeOK, ClientRow
  <2>k. PICK call : /\ req' = [req EXCEPT ![r] = call]
                    /\ \/ call = Blank /\ me.token = None
                       \/ call = UseCallOf(me) /\ me.token # None
    BY <2>0, Zenon DEF Ends, Proceed, UseCallOf
  <2>m. me.token # None =>
           /\ call \in Asked /\ Shape(call) /\ call.next = "useToken"
           /\ call.user = me.user /\ call.client = me.client
           /\ call.token = me.token /\ call.task = me.task
    BY <1>n, <2>k, UseCall
  <2>q. req'[r] = call /\ \A q \in Request \ {r} : req'[q] = req[q]
    BY <2>k DEF AccountsTypeOK
  <2>2. Noticed' /\ Grows
    BY <2>1, NoticesIsNoticed DEF Grows
  <2>x. ASSUME NEW q \in Request, q # r, NEW x, x \in InHand(me),
               x \in InHand(req[q])
        PROVE  x \in disturbed'
    BY <1>r, <2>x, SharedStays
  <2>s. Fits(call, disturbed)'
    <3>1. CASE me.token = None
      BY <2>k, <3>1, BlankFits
    <3>2. CASE me.token # None
      <4>1. Known(call)'
        BY <1>n, <2>1, <2>m, <3>2 DEF Known
      <4> QED BY <2>m, <3>2, <4>1, PlainFitsNext
    <3> QED BY <3>1, <3>2
  <2>3. ASSUME NEW q \in Request PROVE Fits(req[q], disturbed)'
    <3>1. CASE q = r
      BY <2>q, <2>s, <3>1
    <3>2. CASE q # r
      <4>1. PICK other \in Asked : other = req[q] /\ Fits(other, disturbed)
        BY CallIs
      <4>2. UserStays(other.user)
        <5>1. other.user = me.user => other.user \in disturbed'
          BY <1>h, <2>x, <3>2, <4>1, InHandIs, NoneIsNone
        <5>2. ASSUME other.user # me.user, other.user # None
              PROVE  LinkedTo(other.user)' \subseteq LinkedTo(other.user)
          BY <2>1, <2>c, <5>2 DEF LinkedTo, AccountsTypeOK
        <5>3. other.user \in users => other.user # None
          BY NoneIsNone DEF AccountsTypeOK
        <5> QED BY <2>1, <5>1, <5>2, <5>3 DEF UserStays
      <4>3. TokenStays(other.token) /\ TaskStays(other.task) /\ LeadStays(other.lead)
        BY <2>1 DEF TokenStays, TaskStays, LeadStays
      <4>4. ClientStays(other.client)
        <5>1. other.client \in ClientOf(me.email) /\ other.client \in Client
                => other.client \in disturbed'
          BY <1>h, <2>x, <3>2, <4>1, InHandIs, NoneIsNone
        <5> QED BY <2>c, <5>1 DEF ClientStays, AccountsTypeOK
      <4>5. Fits(other, disturbed)'
        BY <2>2, <4>1, <4>2, <4>3, <4>4, FitsKept
      <4> QED BY <2>q, <3>2, <4>1, <4>5
    <3> QED BY <3>1, <3>2
  <2>4. ASSUME NEW c \in Client PROVE LinkIsKept(c)'
    <3>0. LinkIsKept(c)
      BY DEF AccountsInv
    <3>1. CASE me.role = "CLIENT" /\ c \in ClientOf(me.email)
      <4>1. me.user \in users /\ c \in clients
        BY <1>2, <3>1 DEF RelinkFails, ClientOf
      <4>2. userRow[me.user].role = "CLIENT" \/ me.user \in disturbed
        BY <1>n, <3>1, <4>1 DEF RoleKnown, ToLink
      <4> QED BY <2>1, <2>2, <2>c, <3>1, <4>1, <4>2 DEF LinkIsKept, Grows
    <3>2. CASE ~(me.role = "CLIENT" /\ c \in ClientOf(me.email))
      <4>1. CASE clientRow'[c].userId = None
        BY <4>1 DEF LinkIsKept
      <4>2. CASE clientRow'[c].userId # None
        <5>1. clientRow'[c].userId = clientRow[c].userId
          BY <2>c, <3>2, <4>2
        <5>2. ASSUME NEW q \in Request, req[q].next = "relink",
                     req[q].user = clientRow[c].userId, q # r
              PROVE  req'[q].next = "relink" /\ req'[q].user = clientRow[c].userId
          BY <2>q, <5>2
        <5>3. ASSUME clientRow[c].userId = me.user, me.user \notin disturbed
              PROVE  userRow[me.user].role = "CLIENT"
          <6>1. c \in clients /\ me.user \in users /\ c \in LinkedTo(me.user)
            BY <3>0, <4>2, <5>1, <5>3 DEF LinkIsKept, LinkedTo
          <6>2. me.role # "CLIENT" => me.was # "CLIENT"
            BY <2>c, <3>2, <4>2, <6>1
          <6>3. me.role = "CLIENT"
            BY <1>n, <5>3, <6>1, <6>2 DEF RoleKnown, ToLink
          <6> QED BY <1>n, <5>3, <6>1, <6>3 DEF RoleKnown, ToLink
        <5> QED BY <1>r, <2>1, <2>2, <3>0, <4>2, <5>1, <5>2, <5>3
                DEF LinkIsKept, Grows
      <4> QED BY <4>1, <4>2
    <3> QED BY <3>1, <3>2
  <2>5. ASSUME NEW t \in Token PROVE TokenIsKept(t)'
    <3>0. TokenIsKept(t)
      BY DEF AccountsInv
    <3>1. ASSUME NEW q \in Request, req[q].next \in {"relink", "useToken"},
                 req[q].token = t
          PROVE  req'[q].next \in {"relink", "useToken"} /\ req'[q].token = t
      BY <1>r, <2>m, <2>q, <3>1, NoneIsNone
    <3> QED BY <2>1, <2>2, <3>0, <3>1 DEF TokenIsKept, Grows
  <2>6. ASSUME NEW l \in Lead PROVE LeadIsKept(l)'
    BY <2>1, <2>2, <2>c, LeadKept DEF AccountsInv, AccountsTypeOK
  <2>7. ASSUME NEW c \in Client PROVE TaskIsKept(c)'
    BY <2>1, <2>2, TaskKept DEF AccountsInv
  <2>8. ReqTyped'
    BY <2>k, <2>m, BlankIs DEF AccountsTypeOK, ReqTyped
  <2> QED BY <2>8, <2>2, <2>3, <2>4, <2>5, <2>6, <2>7 DEF AccountsInv
<1> QED BY <1>1, <1>2

\* The last statement of a reset: the token is marked.
LEMMA UseTokenInv ==
    ASSUME AccountsTypeOK, AccountsInv, Notices, NEW r \in Request, UseToken(r)
    PROVE  AccountsInv'
<1>r. PICK me \in Asked : me = req[r] /\ Fits(me, disturbed)
  BY CallIs
<1>n. me.next = "useToken" /\ Shape(me) /\ me.token \in Token
  BY <1>r DEF UseToken, Fits, Shape
<1>0. /\ tokenRow' = [tokenRow EXCEPT ![me.token].state = SpentState(@)]
      /\ Ends(r) /\ UNCHANGED spent /\ Only({"tokens"})
  BY <1>r DEF UseToken
<1>1. UNCHANGED <<users, userRow, removed, leads, leadRow, made, moved, spent,
                  clients, clientRow, checklist>>
  BY <1>0 DEF Only, userVars, clientVars, leadVars
<1>t. /\ tokenRow'[me.token].state \in {"used", "deleted"}
      /\ \A t \in Token \ {me.token} : tokenRow'[t] = tokenRow[t]
  BY <1>0, <1>n DEF AccountsTypeOK, TokenRow, SpentState
<1>q. req'[r] = Blank /\ \A q \in Request \ {r} : req'[q] = req[q]
  BY <1>0 DEF Ends, Proceed, AccountsTypeOK
<1>2. Noticed' /\ Grows
  BY <1>1, <1>t, NoticesIsNoticed DEF Grows
<1>3. ASSUME NEW q \in Request PROVE Fits(req[q], disturbed)'
  <2>1. CASE q = r
    BY <1>q, <2>1, BlankFits
  <2>2. CASE q # r
    <3>1. PICK other \in Asked : other = req[q] /\ Fits(other, disturbed)
      BY CallIs
    <3>2. UserStays(other.user) /\ ClientStays(other.client)
      BY <1>1 DEF UserStays, LinkedTo, ClientStays
    <3>3. TokenStays(other.token) /\ TaskStays(other.task) /\ LeadStays(other.lead)
      BY <1>1 DEF TokenStays, TaskStays, LeadStays
    <3>4. Fits(other, disturbed)'
      BY <1>2, <3>1, <3>2, <3>3, FitsKept
    <3> QED BY <1>q, <2>2, <3>1, <3>4
  <2> QED BY <2>1, <2>2
<1>4. ASSUME NEW c \in Client PROVE LinkIsKept(c)'
  <2>1. ASSUME NEW q \in Request, req[q].next = "relink"
        PROVE  req'[q] = req[q]
    BY <1>n, <1>r, <1>q, <2>1
  <2> QED BY <1>1, <1>2, <2>1 DEF AccountsInv, LinkIsKept, Grows
<1>5. ASSUME NEW t \in Token PROVE TokenIsKept(t)'
  <2>0. TokenIsKept(t)
    BY DEF AccountsInv
  <2>1. CASE t = me.token
    BY <1>1, <1>2, <1>t, <2>0, <2>1 DEF TokenIsKept, Grows
  <2>2. CASE t # me.token
    <3>1. ASSUME NEW q \in Request, req[q].token = t
          PROVE  req'[q] = req[q]
      BY <1>r, <1>q, <2>2, <3>1
    <3> QED BY <1>1, <1>2, <1>t, <2>0, <2>2, <3>1 DEF TokenIsKept, Grows
  <2> QED BY <2>1, <2>2
<1>6. ASSUME NEW l \in Lead PROVE LeadIsKept(l)'
  BY <1>1, <1>2, LeadKept DEF AccountsInv
<1>7. ASSUME NEW c \in Client PROVE TaskIsKept(c)'
  BY <1>1, <1>2, TaskKept DEF AccountsInv
<1>8. ReqTyped'
  BY <1>0, BlankIs DEF Ends, Proceed, AccountsTypeOK, ReqTyped
<1> QED BY <1>8, <1>2, <1>3, <1>4, <1>5, <1>6, <1>7 DEF AccountsInv

\* The link of a new portal user, the user found or created: what the request
\* changes of the users is one row at most, that nobody had before.
LEMMA PortalLinkInv ==
    ASSUME AccountsTypeOK, AccountsInv, Notices, NEW r \in Request,
           req[r].next = "portalLink", NEW u0 \in User, PortalLink(r, u0),
           UNCHANGED <<leads, leadRow, made, moved, tokenRow, spent, removed>>,
           u0 \in users', userRow'[u0].role = "CLIENT" \/ u0 \in disturbed',
           \/ UNCHANGED <<users, userRow>>
           \/ /\ u0 \notin users \cup removed /\ users' = users \cup {u0}
              /\ \A u \in User \ {u0} : userRow'[u] = userRow[u]
    PROVE  AccountsInv'
<1>r. PICK me \in Asked : me = req[r] /\ Fits(me, disturbed)
  BY CallIs
<1>n. me.next = "portalLink" /\ me.client \in Client /\ me.client \in clients
  BY <1>r, NoneIsNone DEF Fits, Shape, Known
<1>h. me.client \in InHand(me)
  BY <1>n, NoneIsNone, InHandIs
<1>c. PICK call : call = TokenCallOf(u0)
  OBVIOUS
<1>p. req' = [req EXCEPT ![r] = call]
  BY <1>c, Zenon DEF PortalLink, Proceed, TokenCallOf
<1>m. /\ call \in Asked /\ call.next = "insertToken"
      /\ call.user = u0 /\ call.client = None /\ call.token = None
      /\ call.task = None /\ call.role # "CLIENT" /\ Shape(call)
  BY <1>c, TokenCall
<1>q. req'[r] = call /\ \A q \in Request \ {r} : req'[q] = req[q]
  BY <1>p DEF AccountsTypeOK
<1>1. UNCHANGED <<clients, checklist>>
  BY DEF PortalLink
<1>l. /\ clientRow'[me.client].userId = u0
      /\ \A c \in Client : clientRow'[c].email = clientRow[c].email
      /\ \A c \in Client \ {me.client} : clientRow'[c] = clientRow[c]
  BY <1>n, <1>r DEF PortalLink, AccountsTypeOK, ClientRow
<1>2. Noticed' /\ Grows /\ HoldsStay
  BY <1>n, <1>r, <1>1, <1>q, NoticesIsNoticed DEF Grows, HoldsStay
<1>s. Fits(call, disturbed)'
  <2>1. Known(call)'
    BY <1>m DEF Known
  <2> QED BY <1>m, <2>1, PlainFitsNext
<1>u. ASSUME NEW u \in users
      PROVE  u \in users' /\ userRow'[u] = userRow[u]
  BY <1>u DEF AccountsTypeOK
<1>3. ASSUME NEW q \in Request PROVE Fits(req[q], disturbed)'
  <2>1. CASE q = r
    BY <1>q, <1>s, <2>1
  <2>2. CASE q # r
    <3>1. PICK other \in Asked : other = req[q] /\ Fits(other, disturbed)
      BY CallIs
    <3>2. UserStays(other.user)
      <4>1. other.user = u0 => other.user \in disturbed'
        <5>1. other.user = u0 => u0 \in InHand(req[q])' /\ u0 \in InHand(req[r])'
          BY <1>m, <1>q, <2>2, <3>1, NoneIsNone DEF InHand
        <5> QED BY <2>2, <5>1, SharedNext
      <4>2. other.user # None => other.user \in users \cup removed
        BY <3>1 DEF Fits, Known
      <4>3. ASSUME other.user # u0, other.user # None
            PROVE  LinkedTo(other.user)' \subseteq LinkedTo(other.user)
        BY <1>1, <1>l, <4>3 DEF LinkedTo, AccountsTypeOK
      <4>4. other.user \in users' => other.user # None
        BY <4>2, NoneIsNone DEF AccountsTypeOK
      <4> QED BY <1>u, <4>1, <4>3, <4>4 DEF UserStays
    <3>3. TokenStays(other.token) /\ TaskStays(other.task) /\ LeadStays(other.lead)
      BY <1>1 DEF TokenStays, TaskStays, LeadStays
    <3>4. ClientStays(other.client)
      <4>1. other.client = me.client => other.client \in disturbed'
        BY <1>h, <1>n, <1>r, <2>2, <3>1, InHandIs, NoneIsNone, SharedStays
      <4> QED BY <1>l, <4>1 DEF ClientStays, AccountsTypeOK
    <3>5. Fits(other, disturbed)'
      BY <1>2, <3>1, <3>2, <3>3, <3>4, FitsKept
    <3> QED BY <1>q, <2>2, <3>1, <3>5
  <2> QED BY <2>1, <2>2
<1>4. ASSUME NEW c \in Client PROVE LinkIsKept(c)'
  <2>1. CASE c = me.client
    BY <1>1, <1>l, <1>n, <2>1 DEF LinkIsKept
  <2>2. CASE c # me.client
    BY <1>2, <1>l, <1>u, <2>2, LinkKept DEF AccountsInv
  <2> QED BY <2>1, <2>2
<1>5. ASSUME NEW t \in Token PROVE TokenIsKept(t)'
  BY <1>2, <1>u, TokenKept DEF AccountsInv
<1>6. ASSUME NEW l \in Lead PROVE LeadIsKept(l)'
  BY <1>2, <1>l, LeadKept DEF AccountsInv, AccountsTypeOK
<1>7. ASSUME NEW c \in Client PROVE TaskIsKept(c)'
  BY <1>1, <1>2, TaskKept DEF AccountsInv
<1>8. ReqTyped'
  BY <1>p, <1>m DEF AccountsTypeOK, ReqTyped
<1> QED BY <1>8, <1>2, <1>3, <1>4, <1>5, <1>6, <1>7 DEF AccountsInv

FoundOf(me, u) == [me EXCEPT !.next = "portalLink", !.user = u, !.role = "CLIENT"]

NotFoundOf(me) == [me EXCEPT !.next = "portalLink"]

LEMMA FoundCall ==
    ASSUME NEW me \in Asked, Shape(me), Known(me), me.next = "portal",
           NEW u \in User, u \in users, NEW call, call = FoundOf(me, u)
    PROVE  /\ call \in Asked /\ Shape(call) /\ Known(call)
           /\ call.next = "portalLink" /\ call.user = u
BY NoneIsNone DEF FoundOf, Asked, Waiting, Role, Shape, Known

LEMMA NotFoundCall ==
    ASSUME NEW me \in Asked, Shape(me), Known(me), me.next = "portal",
           NEW call, call = NotFoundOf(me)
    PROVE  /\ call \in Asked /\ Shape(call) /\ Known(call)
           /\ call.next = "portalLink" /\ call.user = me.user
           /\ call.role = me.role
BY NoneIsNone DEF NotFoundOf, Asked, Waiting, Shape, Known

\* The user found has the role CLIENT when it is read.
LEMMA FindPortalUserInv ==
    ASSUME AccountsTypeOK, AccountsInv, Notices, NEW r \in Request,
           FindPortalUser(r)
    PROVE  AccountsInv'
<1>r. PICK me \in Asked : me = req[r] /\ Fits(me, disturbed)
  BY CallIs
<1>n. /\ me.next = "portal" /\ Shape(me) /\ Known(me) /\ Only({})
      /\ me.user = None
  BY <1>r DEF FindPortalUser, Fits, Shape
<1>1. CASE Ends(r)
  BY <1>1, <1>n, <1>r, OnlyNone, EndInv
<1>2. ASSUME NEW u \in UserOf(me.email), userRow[u].role = "CLIENT",
             Proceed(r, FoundOf(me, u))
      PROVE  AccountsInv'
  <2>1. u \in users /\ u \in User
    BY <1>2 DEF UserOf, AccountsTypeOK
  <2>2. PICK call : call = FoundOf(me, u)
    OBVIOUS
  <2>3. /\ call \in Asked /\ Shape(call) /\ Known(call)
        /\ call.next = "portalLink" /\ call.user = u
    BY <1>n, <2>1, <2>2, FoundCall
  <2>4. Fits(call, disturbed')
    BY <1>2, <2>3
       DEF Fits, RoleKnown, ToLink, TokenKnown, TaskKnown, LeadKnown, ClientKnown
  <2>5. req' = [req EXCEPT ![r] = call]
    BY <1>2, <2>2 DEF Proceed
  <2> QED BY <1>n, <1>r, <2>3, <2>4, <2>5, OnlyNone, ProceedInv
<1>3. ASSUME Proceed(r, NotFoundOf(me)) PROVE AccountsInv'
  <2>2. PICK call : call = NotFoundOf(me)
    OBVIOUS
  <2>3. /\ call \in Asked /\ Shape(call) /\ Known(call)
        /\ call.next = "portalLink" /\ call.user = None
    BY <1>n, <2>2, NotFoundCall
  <2>4. Fits(call, disturbed')
    BY <2>3, NoneIsNone
       DEF Fits, RoleKnown, ToLink, TokenKnown, TaskKnown, LeadKnown, ClientKnown,
           AccountsTypeOK
  <2>5. req' = [req EXCEPT ![r] = call]
    BY <1>3, <2>2 DEF Proceed
  <2> QED BY <1>n, <1>r, <2>3, <2>4, <2>5, OnlyNone, ProceedInv
<1>4. \/ Ends(r) \/ Proceed(r, NotFoundOf(me))
      \/ \E u \in UserOf(me.email) : /\ userRow[u].role = "CLIENT"
                                     /\ Proceed(r, FoundOf(me, u))
  BY <1>r, Zenon DEF FindPortalUser, FoundOf, NotFoundOf
<1> QED BY <1>1, <1>2, <1>3, <1>4

\* It has that role still when it is linked, unless another request has the
\* user in hand.
LEMMA CreatePortalUserInv ==
    ASSUME AccountsTypeOK, AccountsInv, Notices, NEW r \in Request,
           CreatePortalUser(r)
    PROVE  AccountsInv'
<1>n. req[r].next = "portalLink"
  BY DEF CreatePortalUser
<1>r. PICK me \in Asked : me = req[r] /\ Fits(me, disturbed)
  BY CallIs
<1>1. ASSUME Ends(r), Only({}) PROVE AccountsInv'
  BY <1>1, <1>n, OnlyNone, EndInv
<1>2. ASSUME me.user \in users, PortalLink(r, me.user), Only({"clients"})
      PROVE  AccountsInv'
  <2>1. UNCHANGED <<leads, leadRow, made, moved, tokenRow, spent, removed, users,
                    userRow>>
    BY <1>2 DEF Only, leadVars, tokenVars, userVars
  <2>2. me.user \in User
    BY <1>2 DEF AccountsTypeOK
  <2>3. userRow'[me.user].role = "CLIENT" \/ me.user \in disturbed'
    <3>1. me.role = "CLIENT"
      BY <1>n, <1>r, <2>2, NoneIsNone DEF Fits, Shape
    <3>2. me.user \notin disturbed => userRow[me.user].role = "CLIENT"
      BY <1>2, <1>n, <1>r, <3>1 DEF Fits, RoleKnown, ToLink
    <3> QED BY <2>1, <3>2, NoticesIsNoticed
  <2> QED BY <1>n, <1>2, <2>1, <2>2, <2>3, PortalLinkInv
<1>3. ASSUME NEW u \in User, InsertUser(u, req[r].email, "CLIENT"),
             PortalLink(r, u), Only({"users", "clients"})
      PROVE  AccountsInv'
  <2>1. UNCHANGED <<leads, leadRow, made, moved, tokenRow, spent, removed>>
    BY <1>3 DEF Only, leadVars, tokenVars, InsertUser
  <2>2. /\ u \notin users \cup removed /\ users' = users \cup {u}
        /\ userRow'[u].role = "CLIENT"
        /\ \A v \in User \ {u} : userRow'[v] = userRow[v]
    BY <1>3 DEF InsertUser, AccountsTypeOK
  <2> QED BY <1>n, <1>3, <2>1, <2>2, PortalLinkInv
<1>4. \/ Ends(r) /\ Only({})
      \/ me.user \in users /\ PortalLink(r, me.user) /\ Only({"clients"})
      \/ \E u \in User : /\ InsertUser(u, req[r].email, "CLIENT") /\ PortalLink(r, u)
                         /\ Only({"users", "clients"})
  BY <1>r, Zenon DEF CreatePortalUser
<1> QED BY <1>1, <1>2, <1>3, <1>4

LEMMA DisablePortalUserInv ==
    ASSUME AccountsTypeOK, AccountsInv, Notices, NEW r \in Request,
           DisablePortalUser(r)
    PROVE  AccountsInv'
<1>n. req[r].next = "disable" /\ Ends(r)
  BY DEF DisablePortalUser
<1>0. UNCHANGED <<users, removed, clients, clientRow, checklist, leads, leadRow,
                  made, moved, tokenRow, spent>>
  BY DEF DisablePortalUser, Only, clientVars, leadVars, tokenVars
<1>1. \A u \in User : userRow'[u].role = userRow[u].role
  BY DEF DisablePortalUser, AccountsTypeOK, UserRow
<1>q. req'[r] = Blank /\ \A q \in Request \ {r} : req'[q] = req[q]
  BY <1>n DEF Ends, Proceed, AccountsTypeOK
<1>2. Noticed' /\ Grows /\ HoldsStay
  BY <1>n, <1>0, <1>q, NoticesIsNoticed DEF Grows, HoldsStay
<1>3. ASSUME NEW q \in Request PROVE Fits(req[q], disturbed)'
  <2>1. CASE q = r
    BY <1>q, <2>1, BlankFits
  <2>2. CASE q # r
    <3>1. PICK other \in Asked : other = req[q] /\ Fits(other, disturbed)
      BY CallIs
    <3>2. UserStays(other.user) /\ ClientStays(other.client)
      BY <1>0, <1>1 DEF UserStays, LinkedTo, ClientStays, AccountsTypeOK
    <3>3. TokenStays(other.token) /\ TaskStays(other.task) /\ LeadStays(other.lead)
      BY <1>0 DEF TokenStays, TaskStays, LeadStays
    <3>4. Fits(other, disturbed)'
      BY <1>2, <3>1, <3>2, <3>3, FitsKept
    <3> QED BY <1>q, <2>2, <3>1, <3>4
  <2> QED BY <2>1, <2>2
<1>4. ASSUME NEW c \in Client PROVE LinkIsKept(c)'
  BY <1>0, <1>1, <1>2, LinkKept DEF AccountsInv, AccountsTypeOK
<1>5. ASSUME NEW t \in Token PROVE TokenIsKept(t)'
  BY <1>0, <1>2, TokenKept DEF AccountsInv
<1>6. ASSUME NEW l \in Lead PROVE LeadIsKept(l)'
  BY <1>0, <1>2, LeadKept DEF AccountsInv
<1>7. ASSUME NEW c \in Client PROVE TaskIsKept(c)'
  BY <1>0, <1>2, TaskKept DEF AccountsInv
<1>8. ReqTyped'
  BY <1>n, BlankIs DEF Ends, Proceed, AccountsTypeOK, ReqTyped
<1> QED BY <1>8, <1>2, <1>3, <1>4, <1>5, <1>6, <1>7 DEF AccountsInv

LEMMA UnlinkPortalUserInv ==
    ASSUME AccountsTypeOK, AccountsInv, Notices, NEW r \in Request,
           UnlinkPortalUser(r)
    PROVE  AccountsInv'
<1>n. req[r].next = "unlink" /\ Ends(r) /\ req[r].client \in Client
  BY DEF UnlinkPortalUser, AccountsInv, Fits, Shape
<1>0. UNCHANGED <<users, userRow, removed, clients, checklist, leads, leadRow,
                  made, moved, tokenRow, spent>>
  BY DEF UnlinkPortalUser, Only, userVars, leadVars, tokenVars
<1>1. \A c \in Client :
         /\ clientRow'[c].email = clientRow[c].email
         /\ clientRow'[c].userId \in {None, clientRow[c].userId}
  BY <1>n DEF UnlinkPortalUser, AccountsTypeOK, ClientRow
<1>q. req'[r] = Blank /\ \A q \in Request \ {r} : req'[q] = req[q]
  BY <1>n DEF Ends, Proceed, AccountsTypeOK
<1>2. Noticed' /\ Grows /\ HoldsStay
  BY <1>n, <1>0, <1>q, NoticesIsNoticed DEF Grows, HoldsStay
<1>3. ASSUME NEW q \in Request PROVE Fits(req[q], disturbed)'
  <2>1. CASE q = r
    BY <1>q, <2>1, BlankFits
  <2>2. CASE q # r
    <3>1. PICK other \in Asked : other = req[q] /\ Fits(other, disturbed)
      BY CallIs
    <3>2. UserStays(other.user) /\ ClientStays(other.client)
      BY <1>0, <1>1, NoneIsNone DEF UserStays, LinkedTo, ClientStays, AccountsTypeOK
    <3>3. TokenStays(other.token) /\ TaskStays(other.task) /\ LeadStays(other.lead)
      BY <1>0 DEF TokenStays, TaskStays, LeadStays
    <3>4. Fits(other, disturbed)'
      BY <1>2, <3>1, <3>2, <3>3, FitsKept
    <3> QED BY <1>q, <2>2, <3>1, <3>4
  <2> QED BY <2>1, <2>2
<1>4. ASSUME NEW c \in Client PROVE LinkIsKept(c)'
  BY <1>0, <1>1, <1>2, LinkKept DEF AccountsInv
<1>5. ASSUME NEW t \in Token PROVE TokenIsKept(t)'
  BY <1>0, <1>2, TokenKept DEF AccountsInv
<1>6. ASSUME NEW l \in Lead PROVE LeadIsKept(l)'
  BY <1>0, <1>1, <1>2, LeadKept DEF AccountsInv, AccountsTypeOK
<1>7. ASSUME NEW c \in Client PROVE TaskIsKept(c)'
  BY <1>0, <1>2, TaskKept DEF AccountsInv
<1>8. ReqTyped'
  BY <1>n, BlankIs DEF Ends, Proceed, AccountsTypeOK, ReqTyped
<1> QED BY <1>8, <1>2, <1>3, <1>4, <1>5, <1>6, <1>7 DEF AccountsInv

\* An edit changes the email of a client; what was made of a lead counts as
\* moved then.
LEMMA EditClientInv ==
    ASSUME AccountsTypeOK, AccountsInv, Notices, NEW r \in Request, EditClient(r)
    PROVE  AccountsInv'
<1>r. PICK me \in Asked : me = req[r] /\ Fits(me, disturbed)
  BY CallIs
<1>n. /\ me.next = "editClient" /\ Ends(r) /\ me.client \in Client
      /\ me.client \in InHand(me)
  BY <1>r, InHandIs, NoneIsNone DEF EditClient, Fits, Shape
<1>1. CASE me.email = clientRow[me.client].email \/ ~EmailFree(me.email)
  <2>1. Only({})
    BY <1>1, <1>r DEF EditClient
  <2> QED BY <1>n, <1>r, <2>1, OnlyNone, EndInv
<1>2. CASE ~(me.email = clientRow[me.client].email \/ ~EmailFree(me.email))
  <2>0. /\ clientRow' = [clientRow EXCEPT ![me.client].email = me.email]
        /\ moved' = moved \cup {l \in Lead : me.client \in made[l]}
        /\ UNCHANGED <<users, userRow, removed, clients, checklist, leads, leadRow,
                       made, tokenRow, spent>>
    BY <1>2, <1>r DEF EditClient, Only, userVars, tokenVars
  <2>1. /\ \A c \in Client : clientRow'[c].userId = clientRow[c].userId
        /\ \A c \in Client \ {me.client} : clientRow'[c] = clientRow[c]
    BY <2>0 DEF AccountsTypeOK, ClientRow
  <2>q. req'[r] = Blank /\ \A q \in Request \ {r} : req'[q] = req[q]
    BY <1>n DEF Ends, Proceed, AccountsTypeOK
  <2>2. Noticed' /\ Grows /\ HoldsStay
    BY <1>n, <1>r, <2>0, <2>q, NoticesIsNoticed DEF Grows, HoldsStay
  <2>3. ASSUME NEW q \in Request PROVE Fits(req[q], disturbed)'
    <3>1. CASE q = r
      BY <2>q, <3>1, BlankFits
    <3>2. CASE q # r
      <4>1. PICK other \in Asked : other = req[q] /\ Fits(other, disturbed)
        BY CallIs
      <4>2. UserStays(other.user)
        BY <2>0, <2>1 DEF UserStays, LinkedTo, AccountsTypeOK
      <4>3. TokenStays(other.token) /\ TaskStays(other.task) /\ LeadStays(other.lead)
        BY <2>0 DEF TokenStays, TaskStays, LeadStays
      <4>4. ClientStays(other.client)
        <5>1. other.client = me.client => other.client \in disturbed'
          BY <1>n, <1>r, <3>2, <4>1, InHandIs, NoneIsNone, SharedStays
        <5> QED BY <2>1, <5>1 DEF ClientStays, AccountsTypeOK
      <4>5. Fits(other, disturbed)'
        BY <2>2, <4>1, <4>2, <4>3, <4>4, FitsKept
      <4> QED BY <2>q, <3>2, <4>1, <4>5
    <3> QED BY <3>1, <3>2
  <2>4. ASSUME NEW c \in Client PROVE LinkIsKept(c)'
    BY <2>0, <2>1, <2>2, LinkKept DEF AccountsInv
  <2>5. ASSUME NEW t \in Token PROVE TokenIsKept(t)'
    BY <2>0, <2>2, TokenKept DEF AccountsInv
  <2>6. ASSUME NEW l \in Lead PROVE LeadIsKept(l)'
    BY <2>0, <2>1, <2>2, LeadKept DEF AccountsInv, AccountsTypeOK
  <2>7. ASSUME NEW c \in Client PROVE TaskIsKept(c)'
    BY <2>0, <2>2, TaskKept DEF AccountsInv
  <2>8. ReqTyped'
    BY <1>n, BlankIs DEF Ends, Proceed, AccountsTypeOK, ReqTyped
  <2> QED BY <2>8, <2>2, <2>3, <2>4, <2>5, <2>6, <2>7 DEF AccountsInv
<1> QED BY <1>1, <1>2

\* A lead that was converted still has the email of its client, so that a
\* second conversion does not get through.
LEMMA ConvertInv ==
    ASSUME AccountsTypeOK, AccountsInv, Notices, NEW r \in Request,
           ConvertToClient(r)
    PROVE  AccountsInv'
<1>r. PICK me \in Asked : me = req[r] /\ Fits(me, disturbed)
  BY CallIs
<1>n. /\ me.next = "convert" /\ Ends(r) /\ me.lead \in Lead /\ me.lead \in leads
      /\ LeadKnown(me)
  BY <1>r DEF ConvertToClient, Fits, Shape, Known
<1>1. CASE ~EmailFree(me.email)
  <2>1. Only({})
    BY <1>1, <1>r DEF ConvertToClient
  <2> QED BY <1>n, <1>r, <2>1, OnlyNone, EndInv
<1>2. CASE EmailFree(me.email)
  <2>0. PICK c0 \in Client :
           /\ InsertClient(c0, me.email, None)
           /\ leadRow' = [leadRow EXCEPT ![me.lead] = WonRow(@, c0)]
           /\ made' = [made EXCEPT ![me.lead] = @ \cup {c0}]
           /\ UNCHANGED <<users, userRow, removed, leads, moved, tokenRow, spent>>
    BY <1>2, <1>r DEF ConvertToClient, Only, userVars, tokenVars
  <2>1. /\ clients' = clients \cup {c0} /\ c0 \notin clients
        /\ clientRow'[c0].email = me.email /\ clientRow'[c0].userId = None
        /\ \A c \in Client \ {c0} : /\ clientRow'[c] = clientRow[c]
                                    /\ checklist'[c] = checklist[c]
        /\ checklist[c0].state = "unseeded"
        /\ \A c \in Client : TaskIsKept(c)'
    BY <2>0, InsertedClient
  <2>l. /\ leadRow'[me.lead].clientId = c0
        /\ leadRow'[me.lead].email = leadRow[me.lead].email
        /\ \A l \in Lead \ {me.lead} : /\ leadRow'[l] = leadRow[l]
                                       /\ made'[l] = made[l]
        /\ made'[me.lead] = made[me.lead] \cup {c0}
    BY <1>n, <2>0 DEF WonRow, AccountsTypeOK, LeadRow
  <2>q. req'[r] = Blank /\ \A q \in Request \ {r} : req'[q] = req[q]
    BY <1>n DEF Ends, Proceed, AccountsTypeOK
  <2>2. Noticed' /\ Grows /\ HoldsStay
    BY <1>n, <1>r, <2>0, <2>1, <2>q, NoticesIsNoticed DEF Grows, HoldsStay
  <2>3. ASSUME NEW q \in Request PROVE Fits(req[q], disturbed)'
    <3>1. CASE q = r
      BY <2>q, <3>1, BlankFits
    <3>2. CASE q # r
      <4>1. PICK other \in Asked : other = req[q] /\ Fits(other, disturbed)
        BY CallIs
      <4>2. UserStays(other.user)
        BY <2>0, <2>1, NoneIsNone DEF UserStays, LinkedTo, AccountsTypeOK
      <4>3. TokenStays(other.token) /\ TaskStays(other.task)
        BY <2>0, <2>1 DEF TokenStays, TaskStays
      <4>4. LeadStays(other.lead) /\ ClientStays(other.client)
        BY <2>1, <2>l DEF LeadStays, ClientStays, AccountsTypeOK
      <4>5. Fits(other, disturbed)'
        BY <2>2, <4>1, <4>2, <4>3, <4>4, FitsKept
      <4> QED BY <2>q, <3>2, <4>1, <4>5
    <3> QED BY <3>1, <3>2
  <2>4. ASSUME NEW c \in Client PROVE LinkIsKept(c)'
    BY <2>0, <2>1, <2>2, LinkKept DEF AccountsInv
  <2>5. ASSUME NEW t \in Token PROVE TokenIsKept(t)'
    BY <2>0, <2>2, TokenKept DEF AccountsInv
  <2>6. ASSUME NEW l \in Lead PROVE LeadIsKept(l)'
    <3>0. LeadIsKept(l)
      BY DEF AccountsInv
    <3>1. CASE l = me.lead
      <4>1. ASSUME me.lead \notin moved, NEW c \in made[me.lead] PROVE FALSE
        <5>1. /\ c \in clients /\ clientRow[c].email = leadRow[me.lead].email
              /\ leadRow[me.lead].email \in Email
          BY <1>n, <3>0, <3>1, <4>1 DEF LeadIsKept
        <5>2. me.email = leadRow[me.lead].email
          BY <1>n, <4>1 DEF LeadKnown
        <5> QED BY <1>2, <5>1, <5>2, NoneIsNone DEF EmailFree, ClientOf
      <4>2. me.lead \notin moved => me.email = leadRow[me.lead].email
        BY <1>n DEF LeadKnown
      <4> QED BY <1>n, <2>0, <2>1, <2>l, <3>0, <3>1, <4>1, <4>2 DEF LeadIsKept
    <3>2. CASE l # me.lead
      BY <2>0, <2>1, <2>2, <2>l, <3>0, <3>2, LeadKept DEF AccountsTypeOK
    <3> QED BY <3>1, <3>2
  <2>8. ReqTyped'
    BY <1>n, BlankIs DEF Ends, Proceed, AccountsTypeOK, ReqTyped
  <2> QED BY <2>8, <2>1, <2>2, <2>3, <2>4, <2>5, <2>6 DEF AccountsInv
<1> QED BY <1>1, <1>2

\* What an update of a task writes back agrees, unless another one came
\* between.
LEMMA EditTaskInv ==
    ASSUME AccountsTypeOK, AccountsInv, Notices, NEW r \in Request, EditTask(r)
    PROVE  AccountsInv'
<1>r. PICK me \in Asked : me = req[r] /\ Fits(me, disturbed)
  BY CallIs
<1>n. /\ me.next = "editTask" /\ Ends(r) /\ me.task \in Client
      /\ me.task \in clients /\ TaskKnown(me, disturbed)
      /\ <<"task", me.task>> \in InHand(me)
  BY <1>r, InHandIs, NoneIsNone DEF EditTask, Fits, Shape, Known
<1>0. /\ UNCHANGED <<users, userRow, removed, clients, clientRow, leads, leadRow,
                     made, moved, tokenRow, spent>>
      /\ checklist' = [checklist EXCEPT ![me.task] =
                         [state |-> Given(me.state, @.state),
                          completed |-> me.completed]]
  BY <1>r DEF EditTask, Only, userVars, leadVars, tokenVars
<1>1. /\ checklist'[me.task].state = Given(me.state, checklist[me.task].state)
      /\ checklist'[me.task].completed = me.completed
      /\ \A c \in Client \ {me.task} : checklist'[c] = checklist[c]
  BY <1>n, <1>0 DEF AccountsTypeOK
<1>q. req'[r] = Blank /\ \A q \in Request \ {r} : req'[q] = req[q]
  BY <1>n DEF Ends, Proceed, AccountsTypeOK
<1>2. Noticed' /\ Grows /\ HoldsStay
  BY <1>n, <1>r, <1>0, <1>q, NoticesIsNoticed DEF Grows, HoldsStay
<1>3. ASSUME NEW q \in Request PROVE Fits(req[q], disturbed)'
  <2>1. CASE q = r
    BY <1>q, <2>1, BlankFits
  <2>2. CASE q # r
    <3>1. PICK other \in Asked : other = req[q] /\ Fits(other, disturbed)
      BY CallIs
    <3>2. UserStays(other.user) /\ ClientStays(other.client)
      BY <1>0 DEF UserStays, LinkedTo, ClientStays
    <3>3. TokenStays(other.token) /\ LeadStays(other.lead)
      BY <1>0 DEF TokenStays, LeadStays
    <3>4. TaskStays(other.task)
      <4>1. other.task = me.task => <<"task", me.task>> \in disturbed'
        <5>1. other.task = me.task => <<"task", me.task>> \in InHand(other)
          BY <1>n, InHandIs, NoneIsNone
        <5> QED BY <1>n, <1>r, <2>2, <3>1, <5>1, SharedStays
      <4> QED BY <1>1, <4>1 DEF TaskStays
    <3>5. Fits(other, disturbed)'
      BY <1>2, <3>1, <3>2, <3>3, <3>4, FitsKept
    <3> QED BY <1>q, <2>2, <3>1, <3>5
  <2> QED BY <2>1, <2>2
<1>4. ASSUME NEW c \in Client PROVE LinkIsKept(c)'
  BY <1>0, <1>2, LinkKept DEF AccountsInv
<1>5. ASSUME NEW t \in Token PROVE TokenIsKept(t)'
  BY <1>0, <1>2, TokenKept DEF AccountsInv
<1>6. ASSUME NEW l \in Lead PROVE LeadIsKept(l)'
  BY <1>0, <1>2, LeadKept DEF AccountsInv
<1>7. ASSUME NEW c \in Client PROVE TaskIsKept(c)'
  <2>1. CASE c = me.task
    <3>1. <<"task", c>> \notin disturbed' =>
             (checklist'[c].completed <=> checklist'[c].state = "DONE")
      BY <1>n, <1>1, <1>2, <2>1 DEF TaskKnown, Grows
    <3> QED BY <1>n, <1>0, <2>1, <3>1 DEF TaskIsKept
  <2> QED BY <1>1, <1>2, <2>1, TaskKept DEF AccountsInv
<1>8. ReqTyped'
  BY <1>n, BlankIs DEF Ends, Proceed, AccountsTypeOK, ReqTyped
<1> QED BY <1>8, <1>2, <1>3, <1>4, <1>5, <1>6, <1>7 DEF AccountsInv
-----------------------------------------------------------------------------
(***************************************************************************)
(* The types, which rest on the shapes of the requests: every request that *)
(* begins or goes on is one of Asked, and what it writes is of its table.  *)
(***************************************************************************)
RowsTyped ==
    /\ users \subseteq User /\ removed \subseteq User
    /\ users \cap removed = {}
    /\ userRow \in [User -> UserRow]
    /\ clients \subseteq Client /\ clientRow \in [Client -> ClientRow]
    /\ leads \subseteq Lead /\ leadRow \in [Lead -> LeadRow]
    /\ tokenRow \in [Token -> TokenRow]
    /\ checklist \in [Client -> TaskRow]
    /\ spent \in [Token -> 0 .. 2]
    /\ made \in [Lead -> SUBSET Client] /\ moved \subseteq Lead

LEMMA AskedInHand ==
    ASSUME NEW call \in Asked, clients \subseteq Client
    PROVE  InHand(call) \subseteq User \cup Client \cup Token \cup ({"task"} \X Client)
<1>1. ClientOf(call.email) \subseteq Client
  BY DEF ClientOf
<1>2. {call.user, call.client, call.token} \ {None} \subseteq User \cup Client \cup Token
  BY DEF Asked
<1>3. call.task # None => <<"task", call.task>> \in {"task"} \X Client
  BY DEF Asked
<1> QED BY <1>1, <1>2, <1>3 DEF InHand

LEMMA AllInHand ==
    ASSUME ReqTyped, clients \subseteq Client
    PROVE  Met \cup Halted \subseteq
              User \cup Client \cup Token \cup ({"task"} \X Client)
<1>1. ASSUME NEW r \in Request
      PROVE  InHand(req[r]) \subseteq
                User \cup Client \cup Token \cup ({"task"} \X Client)
  <2>1. PICK call \in Asked : call = req[r]
    BY DEF ReqTyped
  <2> QED BY <2>1, AskedInHand
<1> QED BY <1>1 DEF Met, Halted

LEMMA RowsStay == ASSUME RowsTyped, UNCHANGED tables PROVE RowsTyped'
BY DEF RowsTyped, tables, userVars, clientVars, leadVars, tokenVars

ClientsTyped ==
    /\ clients \subseteq Client /\ clientRow \in [Client -> ClientRow]
    /\ checklist \in [Client -> TaskRow]

UsersTyped ==
    /\ users \subseteq User /\ removed \subseteq User /\ users \cap removed = {}
    /\ userRow \in [User -> UserRow]

LEMMA InsertClientTypes ==
    ASSUME RowsTyped, NEW c \in Client, NEW e \in Email \cup {None},
           NEW u \in User \cup {None}, InsertClient(c, e, u)
    PROVE  ClientsTyped'
BY DEF RowsTyped, InsertClient, ClientsTyped, ClientRow, TaskRow

LEMMA InsertUserTypes ==
    ASSUME RowsTyped, NEW u, NEW e \in Email \cup {None}, NEW role \in Role,
           InsertUser(u, e, role)
    PROVE  UsersTyped'
BY DEF RowsTyped, InsertUser, UsersTyped, UserRow, Status

LEMMA NewRowsTypes ==
    ASSUME RowsTyped, NewRows
    PROVE  RowsTyped'
<1>1. ASSUME NEW c \in Client, NEW e \in CreateClientInput, CreateClient(c, e)
      PROVE  RowsTyped'
  <2>1. ClientsTyped'
    BY <1>1, InsertClientTypes DEF CreateClient, CreateClientInput
  <2> QED BY <1>1, <2>1 DEF RowsTyped, ClientsTyped, CreateClient, Only, userVars,
                            leadVars, tokenVars
<1>2. ASSUME NEW c \in Client, NEW u \in User, NEW e \in Email, CreateBoth(c, u, e)
      PROVE  RowsTyped'
  <2>1. ClientsTyped'
    BY <1>2, InsertClientTypes DEF CreateBoth
  <2>2. UsersTyped'
    BY <1>2, InsertUserTypes DEF CreateBoth, Role
  <2> QED BY <1>2, <2>1, <2>2 DEF RowsTyped, ClientsTyped, UsersTyped, CreateBoth,
                                  Only, leadVars, tokenVars
<1>3. ASSUME NEW c \in Client, SeedForClient(c) PROVE RowsTyped'
  BY <1>3 DEF RowsTyped, SeedForClient, TaskRow, Only, userVars, leadVars, tokenVars
<1>4. ASSUME NEW l \in Lead, NEW e \in CreateLeadInput, CreateLead(l, e)
      PROVE  RowsTyped'
  BY <1>4 DEF RowsTyped, CreateLead, CreateLeadInput, LeadRow, Only, userVars,
              clientVars, tokenVars
<1>5. ASSUME NEW l \in Lead, NEW row \in UpdateLeadInput, UpdateLead(l, row)
      PROVE  RowsTyped'
  <2>1. row \in LeadRow
    BY DEF RowsTyped, UpdateLeadInput, CreateLeadInput, LeadRow
  <2> QED BY <1>5, <2>1 DEF RowsTyped, UpdateLead, Only, userVars, clientVars,
                            tokenVars
<1>6. ASSUME NEW u \in User, RemoveUser(u) PROVE RowsTyped'
  BY <1>6 DEF RowsTyped, RemoveUser, NoUser, UserRow, ClientRow, TokenRow, Role,
              Status, Only, leadVars
<1>7. ASSUME NEW t \in Token, Expire(t) PROVE RowsTyped'
  BY <1>7 DEF RowsTyped, Expire, TokenRow, Only, userVars, clientVars, leadVars
<1> QED BY <1>1, <1>2, <1>3, <1>4, <1>5, <1>6, <1>7
        DEF NewRows, ClientRows, LeadRows, RemoveUsers, CreateWithPortalUser

LEMMA StartsTypes ==
    ASSUME RowsTyped, NEW r \in Request, Starts(r)
    PROVE  RowsTyped'
<1>1. CASE Only({})
  BY <1>1, OnlyNone, RowsStay
<1>2. ASSUME NEW c \in Client, NEW u \in User, NEW e \in Email,
             CreateWithPortalInvite(r, c, u, e)
      PROVE  RowsTyped'
  <2>1. CreateBoth(c, u, e)
    BY <1>2 DEF CreateWithPortalInvite
  <2>2. ClientsTyped'
    BY <2>1, InsertClientTypes DEF CreateBoth
  <2>3. UsersTyped'
    BY <2>1, InsertUserTypes DEF CreateBoth, Role
  <2> QED BY <2>1, <2>2, <2>3 DEF RowsTyped, ClientsTyped, UsersTyped, CreateBoth,
                                  Only, leadVars, tokenVars
<1>3. \/ Only({})
      \/ \E c \in Client, u \in User, e \in Email : CreateWithPortalInvite(r, c, u, e)
  BY Zenon DEF Starts, AuthRequests, UserRequests, ClientRequests, OnboardingSubmit,
               LeadRequests, TaskRequests, Register, InviteUser, ForgotPassword,
               SendPasswordReset, ResetPassword, StartUpdate, StartPortalUser,
               StartDisable, StartUnlink, SendPortalPasswordReset, StartEdit,
               StartConvert, StartTask
<1> QED BY <1>1, <1>2, <1>3

LEMMA GoesOnTypes ==
    ASSUME AccountsTypeOK, AccountsInv, RowsTyped, NEW r \in Request, GoesOn(r)
    PROVE  RowsTyped'
<1>r. PICK me \in Asked : me = req[r] /\ Shape(me)
  BY DEF AccountsTypeOK, AccountsInv, Fits
<1>0. CASE Only({})
  BY <1>0, OnlyNone, RowsStay
<1>1. ASSUME CreateUser(r), ~Only({}) PROVE RowsTyped'
  <2>1. PICK u \in User : InsertUser(u, me.email, me.role) /\ Only({"users"})
    BY <1>1, <1>r DEF CreateUser
  <2>2. me.email \in Email /\ me.role \in Role
    BY <1>1, <1>r DEF CreateUser, Shape
  <2>3. UsersTyped'
    BY <2>1, <2>2, InsertUserTypes
  <2> QED BY <2>1, <2>3 DEF RowsTyped, UsersTyped, Only, clientVars, leadVars,
                            tokenVars
<1>2. ASSUME InsertToken(r), ~Only({}) PROVE RowsTyped'
  <2>1. me.user \in User \cup {None}
    BY DEF Asked
  <2> QED BY <1>2, <1>r, <2>1 DEF InsertToken, RowsTyped, TokenRow, Only, userVars,
                                  clientVars, leadVars
<1>3. ASSUME LinkClientUser(r), ~Only({}) PROVE RowsTyped'
  <2>1. me.user \in User \cup {None}
    BY DEF Asked
  <2> QED BY <1>3, <1>r, <2>1 DEF LinkClientUser, RowsTyped, ClientRow, Only,
                                  userVars, tokenVars, leadVars
<1>4. ASSUME UpdateUser(r), ~Only({}) PROVE RowsTyped'
  <2>1. me.user \in User
    BY <1>4, <1>r DEF UpdateUser, Shape
  <2>2. Updated(userRow[me.user], me) \in UserRow
    BY <2>1 DEF RowsTyped, Updated, Given, UserRow, Asked
  <2>3. /\ userRow' = [userRow EXCEPT ![me.user] = Updated(userRow[me.user], me)]
        /\ spent' = IF me.token = None THEN spent
                    ELSE [spent EXCEPT ![me.token] = IF @ = 0 THEN 1 ELSE 2]
        /\ UNCHANGED <<users, removed, tokenRow>> /\ Only({"users", "tokens"})
    BY <1>4, <1>r, Zenon DEF UpdateUser
  <2>4. userRow' \in [User -> UserRow]
    <3>1. PICK row \in UserRow : row = Updated(userRow[me.user], me)
      BY <2>2
    <3>2. userRow' = [userRow EXCEPT ![me.user] = row]
      BY <2>3, <3>1, Zenon
    <3> QED BY <3>2 DEF RowsTyped
  <2>5. spent' \in [Token -> 0 .. 2]
    <3>0. spent \in [Token -> 0 .. 2]
      BY DEF RowsTyped
    <3>1. CASE me.token = None
      BY <2>3, <3>0, <3>1
    <3>2. CASE me.token # None
      <4>1. PICK n \in 0 .. 2 : spent' = [spent EXCEPT ![me.token] = n]
        <5>1. PICK n \in 0 .. 2 : n = IF spent[me.token] = 0 THEN 1 ELSE 2
          OBVIOUS
        <5> QED BY <2>3, <3>2, <5>1
      <4> QED BY <3>0, <4>1
    <3> QED BY <3>1, <3>2
  <2> QED BY <2>3, <2>4, <2>5 DEF RowsTyped, Only, clientVars, leadVars
<1>5. ASSUME Relink(r), ~Only({}) PROVE RowsTyped'
  <2>1. me.user \in User
    BY <1>5, <1>r DEF Relink, Shape
  <2>2. /\ clientRow' = [c \in Client |->
                           [clientRow[c] EXCEPT !.userId = Relinked(me)[c]]]
        /\ UNCHANGED <<clients, checklist>> /\ Only({"clients"})
    BY <1>5, <1>r, Zenon DEF Relink
  <2>3. \A c \in Client : Relinked(me)[c] \in User \cup {None}
    BY <2>1 DEF Relinked, RowsTyped, ClientRow
  <2> HIDE DEF Relinked
  <2>4. clientRow' \in [Client -> ClientRow]
    BY <2>2, <2>3 DEF RowsTyped, ClientRow
  <2> QED BY <2>2, <2>4 DEF RowsTyped, Only, userVars, tokenVars, leadVars
<1>6. ASSUME UseToken(r) PROVE RowsTyped'
  BY <1>6 DEF UseToken, SpentState, RowsTyped, TokenRow, Only, userVars, clientVars,
              leadVars
<1>7. ASSUME CreatePortalUser(r), ~Only({}) PROVE RowsTyped'
  <2>0. me.email \in Email
    BY <1>7, <1>r DEF CreatePortalUser, Shape
  <2>1. ASSUME NEW u \in User, PortalLink(r, u)
        PROVE  ClientsTyped'
    BY <2>1 DEF PortalLink, RowsTyped, ClientsTyped, ClientRow
  <2>2. ASSUME NEW u \in users, PortalLink(r, u), Only({"clients"})
        PROVE  RowsTyped'
    <3>1. u \in User
      BY DEF RowsTyped
    <3>2. ClientsTyped'
      BY <2>1, <2>2, <3>1
    <3> QED BY <2>2, <3>2 DEF RowsTyped, ClientsTyped, Only, userVars, leadVars,
                              tokenVars
  <2>3. ASSUME NEW u \in User, InsertUser(u, me.email, "CLIENT"), PortalLink(r, u),
               Only({"users", "clients"})
        PROVE  RowsTyped'
    <3>1. ClientsTyped'
      BY <2>1, <2>3
    <3>2. UsersTyped'
      BY <2>0, <2>3, InsertUserTypes DEF Role
    <3> QED BY <2>3, <3>1, <3>2 DEF RowsTyped, ClientsTyped, UsersTyped, Only,
                                    leadVars, tokenVars
  <2>4. \/ \E u \in users : PortalLink(r, u) /\ Only({"clients"})
        \/ \E u \in User : /\ InsertUser(u, me.email, "CLIENT") /\ PortalLink(r, u)
                           /\ Only({"users", "clients"})
    BY <1>7, <1>r, Zenon DEF CreatePortalUser
  <2> QED BY <2>2, <2>3, <2>4
<1>8. ASSUME DisablePortalUser(r) PROVE RowsTyped'
  BY <1>8 DEF DisablePortalUser, RowsTyped, UserRow, Status, Only, clientVars,
              leadVars, tokenVars
<1>9. ASSUME UnlinkPortalUser(r) PROVE RowsTyped'
  BY <1>9 DEF UnlinkPortalUser, RowsTyped, ClientRow, Only, userVars, leadVars,
              tokenVars
<1>10. ASSUME EditClient(r), ~Only({}) PROVE RowsTyped'
  <2>1. me.email \in Email \cup {None}
    BY DEF Asked
  <2> QED BY <1>10, <1>r, <2>1 DEF EditClient, RowsTyped, ClientRow, Only, userVars,
                                   tokenVars
<1>11. ASSUME ConvertToClient(r), ~Only({}) PROVE RowsTyped'
  <2>1. me.email \in Email \cup {None}
    BY DEF Asked
  <2>2. PICK c \in Client :
           /\ InsertClient(c, me.email, None)
           /\ leadRow' = [leadRow EXCEPT ![me.lead] = WonRow(@, c)]
           /\ made' = [made EXCEPT ![me.lead] = @ \cup {c}]
           /\ UNCHANGED <<leads, moved>> /\ Only({"clients", "leads"})
    BY <1>11, <1>r DEF ConvertToClient
  <2>3. ClientsTyped'
    BY <2>1, <2>2, InsertClientTypes
  <2>4. leadRow' \in [Lead -> LeadRow] /\ made' \in [Lead -> SUBSET Client]
    BY <2>2 DEF RowsTyped, WonRow, LeadRow
  <2> QED BY <2>2, <2>3, <2>4 DEF RowsTyped, ClientsTyped, Only, userVars, tokenVars
<1>12. ASSUME EditTask(r) PROVE RowsTyped'
  <2>1. me.state \in {"OPEN", "DONE", None} /\ me.completed \in BOOLEAN
    BY DEF Asked
  <2>2. /\ checklist' = [checklist EXCEPT ![me.task] =
                           [state |-> Given(me.state, @.state),
                            completed |-> me.completed]]
        /\ UNCHANGED <<clients, clientRow>> /\ Only({"clients"})
    BY <1>12, <1>r DEF EditTask
  <2>3. \A c \in Client : [state |-> Given(me.state, checklist[c].state),
                           completed |-> me.completed] \in TaskRow
    BY <2>1 DEF RowsTyped, Given, TaskRow
  <2>4. checklist' \in [Client -> TaskRow]
    BY <2>2, <2>3 DEF RowsTyped
  <2> QED BY <2>2, <2>4 DEF RowsTyped, Only, userVars, leadVars, tokenVars
<1>13. ASSUME FindLink(r) \/ FindPortalUser(r) \/ Crash(r) PROVE Only({})
  BY <1>13 DEF FindLink, FindPortalUser, Crash
<1> QED BY <1>0, <1>1, <1>2, <1>3, <1>4, <1>5, <1>6, <1>7, <1>8, <1>9, <1>10,
           <1>11, <1>12, <1>13 DEF GoesOn
-----------------------------------------------------------------------------
(***************************************************************************)
(* Every step keeps the types and the invariant.                           *)
(***************************************************************************)
LEMMA NewRowsInv ==
    ASSUME AccountsTypeOK, AccountsInv, Notices, NewRows
    PROVE  AccountsInv'
<1>1. ASSUME NEW c \in Client, NEW e, CreateClient(c, e) PROVE AccountsInv'
  BY <1>1, CreateClientInv
<1>2. ASSUME NEW c \in Client, NEW u \in User, NEW e \in Email,
             CreateWithPortalUser(c, u, e)
      PROVE  AccountsInv'
  BY <1>2, CreatePortalClientInv
<1>3. ASSUME NEW l \in Lead, NEW e \in CreateLeadInput, CreateLead(l, e)
      PROVE  AccountsInv'
  BY <1>3, CreateLeadInv DEF CreateLeadInput
<1>4. ASSUME NEW l \in Lead, NEW row \in UpdateLeadInput, UpdateLead(l, row)
      PROVE  AccountsInv'
  BY <1>4, UpdateLeadInv
<1>5. ASSUME NEW u \in User, RemoveUser(u) PROVE AccountsInv'
  BY <1>5, RemoveUserInv
<1>6. ASSUME NEW c \in Client, SeedForClient(c) PROVE AccountsInv'
  BY <1>6, SeedForClientInv
<1>7. ASSUME NEW t \in Token, Expire(t) PROVE AccountsInv'
  BY <1>7, ExpireInv
<1> QED BY <1>1, <1>2, <1>3, <1>4, <1>5, <1>6, <1>7
        DEF NewRows, ClientRows, LeadRows, RemoveUsers

LEMMA StartsInv ==
    ASSUME AccountsTypeOK, AccountsInv, Notices, NEW r \in Request, Starts(r)
    PROVE  AccountsInv'
<1>1. ASSUME NEW i \in RegisterInput, Register(r, i) \/ InviteUser(r, i)
      PROVE  AccountsInv'
  BY <1>1, BeginUserInv
<1>2. ASSUME NEW u \in User, ForgotPassword(r, u) \/ SendPasswordReset(r, u)
      PROVE  AccountsInv'
  BY <1>2, BeginTokenInv
<1>3. ASSUME NEW t \in Token, ResetPassword(r, t) PROVE AccountsInv'
  BY <1>3, BeginResetInv
<1>4. ASSUME NEW u \in User, NEW i \in UpdateUserInput, StartUpdate(r, u, i)
      PROVE  AccountsInv'
  BY <1>4, BeginUpdateInv
<1>5. UpdateProfileInput \subseteq UpdateUserInput
  BY DEF UpdateProfileInput
<1>6. ASSUME AuthRequests(r) \/ UserRequests(r) PROVE AccountsInv'
  BY <1>1, <1>2, <1>3, <1>4, <1>5, <1>6 DEF AuthRequests, UserRequests
<1>7. ASSUME NEW c \in Client,
             StartPortalUser(r, c) \/ StartDisable(r, c) \/ StartUnlink(r, c)
      PROVE  AccountsInv'
  BY <1>7, BeginClientInv
<1>8. ASSUME NEW c \in Client, NEW u \in User, SendPortalPasswordReset(r, c, u)
      PROVE  AccountsInv'
  BY <1>8, <1>2 DEF SendPortalPasswordReset
<1>9. ASSUME NEW c \in Client, NEW e \in CreateClientInput \ {None}, StartEdit(r, c, e)
      PROVE  AccountsInv'
  BY <1>9, BeginEditInv DEF CreateClientInput
<1>10. ASSUME ClientRequests(r) PROVE AccountsInv'
  BY <1>7, <1>8, <1>9, <1>10 DEF ClientRequests
<1>11. ASSUME NEW c \in Client, NEW u \in User, NEW e \in Email,
              CreateWithPortalInvite(r, c, u, e)
       PROVE  AccountsInv'
  BY <1>11, CreateInvitedClientInv
<1>12. ASSUME NEW l \in Lead, StartConvert(r, l) PROVE AccountsInv'
  BY <1>12, BeginConvertInv
<1>13. ASSUME NEW c \in Client, NEW state \in {"OPEN", "DONE", None},
              StartTask(r, c, state)
       PROVE  AccountsInv'
  BY <1>13, BeginTaskInv
<1> QED BY <1>6, <1>10, <1>11, <1>12, <1>13
        DEF Starts, OnboardingSubmit, LeadRequests, TaskRequests

LEMMA GoesOnInv ==
    ASSUME AccountsTypeOK, AccountsInv, Notices, NEW r \in Request, GoesOn(r)
    PROVE  AccountsInv'
<1>1. ASSUME Crash(r) PROVE AccountsInv'
  BY <1>1, OnlyNone, StopInv DEF Crash
<1> QED BY <1>1, CreateUserInv, InsertTokenInv, FindLinkInv, LinkClientUserInv,
           UpdateUserInv, RelinkInv, UseTokenInv, FindPortalUserInv, CreatePortalUserInv,
           DisablePortalUserInv, UnlinkPortalUserInv, EditClientInv, ConvertInv,
           EditTaskInv DEF GoesOn

LEMMA StepKeeps ==
    ASSUME AccountsTypeOK, AccountsInv, Next
    PROVE  AccountsTypeOK' /\ AccountsInv'
<1>0. Notices /\ RowsTyped
  BY DEF Next, Notices, AccountsTypeOK, RowsTyped
<1>1. AccountsInv' /\ RowsTyped'
  <2>1. CASE NewRows
    BY <1>0, <2>1, NewRowsInv, NewRowsTypes
  <2>2. ASSUME NEW r \in Request, Starts(r) PROVE AccountsInv' /\ RowsTyped'
    BY <1>0, <2>2, StartsInv, StartsTypes
  <2>3. ASSUME NEW r \in Request, GoesOn(r) PROVE AccountsInv' /\ RowsTyped'
    BY <1>0, <2>3, GoesOnInv, GoesOnTypes
  <2> QED BY <2>1, <2>2, <2>3 DEF Next
<1>2. ReqTyped'
  BY <1>1 DEF AccountsInv
<1>3. (Met \cup Halted)' \subseteq User \cup Client \cup Token \cup ({"task"} \X Client)
  <2>1. clients' \subseteq Client
    BY <1>1 DEF RowsTyped
  <2>2. ASSUME NEW r \in Request
        PROVE  InHand(req[r])' \subseteq
                  User \cup Client \cup Token \cup ({"task"} \X Client)
    <3>1. PICK call \in Asked : call = req'[r]
      BY <1>2 DEF ReqTyped
    <3>2. ClientOf(call.email)' \subseteq Client
      BY <2>1 DEF ClientOf
    <3>3. {call.user, call.client, call.token} \ {None}
             \subseteq User \cup Client \cup Token
      BY DEF Asked
    <3>4. call.task # None => <<"task", call.task>> \in {"task"} \X Client
      BY DEF Asked
    <3> QED BY <3>1, <3>2, <3>3, <3>4 DEF InHand
  <2> QED BY <2>2 DEF Met, Halted
<1>4. disturbed' \subseteq User \cup Client \cup Token \cup ({"task"} \X Client)
  BY <1>0, <1>3 DEF Notices, AccountsTypeOK
<1>5. AccountsTypeOK'
  BY <1>1, <1>2, <1>4 DEF AccountsTypeOK, RowsTyped, ReqTyped
<1> QED BY <1>1, <1>5

\* A step that changes nothing.
LEMMA StutterKeeps ==
    ASSUME AccountsTypeOK, AccountsInv, UNCHANGED vars
    PROVE  AccountsTypeOK' /\ AccountsInv'
<1>0. /\ UNCHANGED tables /\ UNCHANGED <<req, disturbed>>
      /\ UNCHANGED <<users, userRow, removed, clients, clientRow, checklist,
                     leads, leadRow, made, moved, tokenRow, spent>>
  BY DEF vars, tables, userVars, clientVars, leadVars, tokenVars
<1>1. AccountsTypeOK'
  BY <1>0 DEF AccountsTypeOK
<1>2. ReqTyped' /\ Noticed'
  BY <1>0 DEF AccountsInv, ReqTyped, Noticed, Met, Halted, InHand, ClientOf
<1>3. ASSUME NEW q \in Request PROVE Fits(req[q], disturbed)'
  <2>1. PICK call \in Asked : call = req[q] /\ Fits(call, disturbed)
    BY CallIs
  <2>2. Fits(call, disturbed)'
    BY <1>0, <2>1, FitsStays
  <2> QED BY <1>0, <2>1, <2>2
<1>4. ASSUME NEW c \in Client PROVE LinkIsKept(c)' /\ TaskIsKept(c)'
  BY <1>0 DEF AccountsInv, LinkIsKept, TaskIsKept
<1>5. ASSUME NEW t \in Token PROVE TokenIsKept(t)'
  BY <1>0 DEF AccountsInv, TokenIsKept
<1>6. ASSUME NEW l \in Lead PROVE LeadIsKept(l)'
  BY <1>0 DEF AccountsInv, LeadIsKept
<1> QED BY <1>1, <1>2, <1>3, <1>4, <1>5, <1>6 DEF AccountsInv

LEMMA InitKeeps ==
    ASSUME Init
    PROVE  AccountsTypeOK /\ AccountsInv
<1>1. /\ \A r \in Request : req[r] = Blank
      /\ \A c \in Client : clientRow[c].userId = None
      /\ \A t \in Token : tokenRow[t].state = "unissued" /\ spent[t] = 0
      /\ \A c \in Client : checklist[c].state = "unseeded" /\ ~checklist[c].completed
      /\ \A l \in Lead : made[l] = {}
  BY DEF Init
<1>2. AccountsTypeOK
  BY BlankIs DEF Init, AccountsTypeOK, NoUser, UserRow, ClientRow, LeadRow,
                 TokenRow, TaskRow, Role, Status
<1>3. ReqTyped /\ Noticed
  <2>1. ASSUME NEW r \in Request
        PROVE  InHand(req[r]) = {} /\ req[r].next # "stopped"
    <3>1. PICK call : call = req[r] /\ call = Blank
      BY <1>1
    <3>2. InHand(call) = {} /\ call.next = "new"
      BY <3>1, BlankIs DEF InHand
    <3> QED BY <3>1, <3>2
  <2>2. Met = {} /\ Halted = {}
    BY <2>1 DEF Met, Halted
  <2> QED BY <1>2, <2>2 DEF AccountsTypeOK, ReqTyped, Noticed
<1>4. ASSUME NEW r \in Request PROVE Fits(req[r], disturbed)
  <2>1. PICK call : call = Blank
    OBVIOUS
  <2>2. Fits(call, disturbed)
    BY <2>1, BlankIs, PlainFits
  <2> QED BY <1>1, <2>1, <2>2
<1>5. ASSUME NEW c \in Client PROVE LinkIsKept(c) /\ TaskIsKept(c)
  BY <1>1 DEF LinkIsKept, TaskIsKept
<1>6. ASSUME NEW t \in Token PROVE TokenIsKept(t)
  BY <1>1 DEF TokenIsKept
<1>7. ASSUME NEW l \in Lead PROVE LeadIsKept(l)
  BY <1>1 DEF Init, LeadIsKept
<1> QED BY <1>2, <1>3, <1>4, <1>5, <1>6, <1>7 DEF AccountsInv

(***************************************************************************)
(* The inductive invariant of the accounts holds in every state, whatever  *)
(* requests of the onboarding, the portal and the leads run at once.       *)
(***************************************************************************)
THEOREM AccountsAreSound == Spec => [](AccountsTypeOK /\ AccountsInv)
<1>1. Init => AccountsTypeOK /\ AccountsInv
  BY InitKeeps
<1>2. AccountsTypeOK /\ AccountsInv /\ [Next]_vars
        => (AccountsTypeOK /\ AccountsInv)'
  BY StepKeeps, StutterKeeps
<1> QED BY <1>1, <1>2, PTL DEF Spec
-----------------------------------------------------------------------------
(***************************************************************************)
(* The theorems.                                                           *)
(***************************************************************************)

\* The tables and the requests have their types.
THEOREM AccountsAreTyped == Spec => []AccountsTypeOK
BY AccountsAreSound, PTL

\* Whoever signs in for a client has the role CLIENT, or a request is about
\* to take the link away, or two had the user in hand at once: one that
\* changes the role (UsersService.update) and one that links, after it looked
\* at the role (createPortalUser, linkClientUser).
THEOREM PortalUsersAreClients == Spec => []LinkedIsClientUser
<1>1. AccountsTypeOK /\ AccountsInv => LinkedIsClientUser
  <2> SUFFICES ASSUME AccountsInv, AccountsTypeOK, NEW c \in clients
               PROVE  LET u == clientRow[c].userId IN
                        \/ u = None
                        \/ u \in users /\ userRow[u].role = "CLIENT"
                        \/ u \in disturbed
                        \/ \E r \in Request : req[r].next = "relink" /\ req[r].user = u
    BY DEF LinkedIsClientUser
  <2> QED BY DEF AccountsInv, AccountsTypeOK, LinkIsKept
<1> QED BY <1>1, AccountsAreSound, PTL

\* A link sets one password, unless it was used twice at once.
THEOREM TokensAreSpentOnce == Spec => []TokenSpentOnce
<1>1. AccountsInv => TokenSpentOnce
  BY DEF AccountsInv, TokenSpentOnce, TokenIsKept
<1> QED BY <1>1, AccountsAreSound, PTL

\* A lead becomes one client, however many requests convert it at once.
THEOREM LeadsAreConvertedOnce == Spec => []ConvertedOnce
<1>1. AccountsTypeOK /\ AccountsInv => ConvertedOnce
  <2> SUFFICES ASSUME AccountsInv, AccountsTypeOK, NEW l \in Lead \ moved
               PROVE  /\ Cardinality(made[l]) <= 1
                      /\ made[l] # {} => leadRow[l].clientId \in made[l]
    BY DEF ConvertedOnce
  <2>1. \A c \in made[l] : leadRow[l].clientId = c
    BY DEF AccountsInv, LeadIsKept
  <2>2. CASE made[l] = {}
    <3>1. Cardinality(made[l]) = 0
      BY <2>2, FS_EmptySet, Zenon
    <3> QED BY <2>2, <3>1
  <2>3. CASE made[l] # {}
    <3>1. leadRow[l].clientId \in made[l] /\ made[l] = {leadRow[l].clientId}
      BY <2>1, <2>3
    <3>2. Cardinality({leadRow[l].clientId}) = 1
      BY FS_Singleton
    <3>3. Cardinality(made[l]) = 1
      BY <3>1, <3>2, Zenon
    <3> QED BY <3>1, <3>3
  <2> QED BY <2>2, <2>3
<1> QED BY <1>1, AccountsAreSound, PTL

\* completedAt is set exactly while a task is DONE, unless two updates of the
\* task met.
THEOREM TasksAgree == Spec => []CompletedWhenDone
<1>1. AccountsInv => CompletedWhenDone
  BY DEF AccountsInv, CompletedWhenDone, TaskIsKept
<1> QED BY <1>1, AccountsAreSound, PTL


\* An edit that changes the email of a client found it without a portal user,
\* or the link came while the edit was under way.
THEOREM PortalEmailsAreKept == Spec => LinkedEmailIsKept
<1> DEFINE Kept == \A c \in Client : clientRow'[c].email # clientRow[c].email
                     => \/ c \notin clients \/ clientRow[c].userId = None
                        \/ c \in disturbed
<1>1. ASSUME AccountsTypeOK, AccountsInv, Next
      PROVE  Kept
  <2>0. SUFFICES ASSUME NEW c \in Client, c \in clients,
                        clientRow'[c].email # clientRow[c].email
                 PROVE  clientRow[c].userId = None \/ c \in disturbed
    OBVIOUS
  <2>1. ASSUME UNCHANGED clientRow PROVE FALSE
    BY <2>0, <2>1
  <2>2. ASSUME NEW c0, NEW e, NEW u, InsertClient(c0, e, u) PROVE FALSE
    BY <1>1, <2>0, <2>2 DEF InsertClient, AccountsTypeOK
  <2>3. ASSUME NEW c0, NEW u, clientRow' = [clientRow EXCEPT ![c0].userId = u]
        PROVE  FALSE
    BY <1>1, <2>0, <2>3 DEF AccountsTypeOK, ClientRow
  <2>4. ASSUME Only({}) \/ Only({"users"}) \/ Only({"leads"}) \/ Only({"tokens"})
               \/ Only({"users", "tokens"})
        PROVE  FALSE
    <3>1. UNCHANGED clientRow
      BY <2>4 DEF Only, clientVars
    <3> QED BY <2>1, <3>1
  <2>5. CASE NewRows
    <3>1. ASSUME NEW u \in User, RemoveUser(u) PROVE FALSE
      BY <1>1, <2>0, <3>1 DEF RemoveUser, AccountsTypeOK, ClientRow
    <3> QED BY <2>1, <2>2, <2>4, <2>5, <3>1
            DEF NewRows, ClientRows, LeadRows, RemoveUsers, CreateWithPortalUser,
                CreateBoth, CreateClient, SeedForClient, Expire, CreateLead, UpdateLead
  <2>6. ASSUME NEW r \in Request, Starts(r) PROVE FALSE
    <3>1. \/ Only({})
          \/ \E c0 \in Client, u \in User, e \in Email : CreateWithPortalInvite(r, c0, u, e)
      BY <2>6, Zenon DEF Starts, AuthRequests, UserRequests, ClientRequests,
           OnboardingSubmit, LeadRequests, TaskRequests, Register, InviteUser,
           ForgotPassword, SendPasswordReset, ResetPassword, StartUpdate,
           StartPortalUser, StartDisable, StartUnlink, SendPortalPasswordReset,
           StartEdit, StartConvert, StartTask
    <3> QED BY <2>2, <2>4, <3>1 DEF CreateWithPortalInvite, CreateBoth
  <2>7. ASSUME NEW r \in Request, GoesOn(r), ~EditClient(r) PROVE FALSE
    <3>1. ASSUME Relink(r) PROVE FALSE
      <4>1. \/ Only({})
            \/ clientRow' = [d \in Client |->
                               [clientRow[d] EXCEPT !.userId = Relinked(req[r])[d]]]
        BY <3>1, Zenon DEF Relink
      <4> QED BY <1>1, <2>0, <2>4, <4>1 DEF AccountsTypeOK, ClientRow
    <3>2. ASSUME CreatePortalUser(r) PROVE FALSE
      <4>1. Only({}) \/ \E u : PortalLink(r, u)
        BY <3>2, Zenon DEF CreatePortalUser
      <4> QED BY <2>3, <2>4, <4>1 DEF PortalLink
    <3>3. ASSUME CreateUser(r) PROVE FALSE
      BY <2>4, <3>3, Zenon DEF CreateUser
    <3>4. ASSUME InsertToken(r) PROVE FALSE
      BY <2>4, <3>4, Zenon DEF InsertToken
    <3>5. ASSUME \/ FindLink(r) \/ Crash(r) \/ UseToken(r) \/ DisablePortalUser(r)
                 \/ FindPortalUser(r)
          PROVE  FALSE
      BY <2>4, <3>5, Zenon
         DEF FindLink, Crash, UseToken, DisablePortalUser, FindPortalUser
    <3>6. ASSUME LinkClientUser(r) PROVE FALSE
      BY <2>3, <2>4, <3>6, Zenon DEF LinkClientUser
    <3>7. ASSUME UpdateUser(r) PROVE FALSE
      BY <2>4, <3>7, Zenon DEF UpdateUser
    <3>8. ASSUME UnlinkPortalUser(r) PROVE FALSE
      BY <2>3, <3>8, Zenon DEF UnlinkPortalUser
    <3>9. ASSUME ConvertToClient(r) PROVE FALSE
      BY <2>2, <2>4, <3>9, Zenon DEF ConvertToClient
    <3>10. ASSUME EditTask(r) PROVE FALSE
      BY <2>1, <3>10 DEF EditTask
    <3> QED BY <2>7, <3>1, <3>2, <3>3, <3>4, <3>5, <3>6, <3>7, <3>8, <3>9, <3>10
            DEF GoesOn
  <2>8. ASSUME NEW r \in Request, EditClient(r)
        PROVE  clientRow[c].userId = None \/ c \in disturbed
    <3>1. PICK me \in Asked : me = req[r] /\ Fits(me, disturbed)
      BY <1>1, CallIs
    <3>2. clientRow' = [clientRow EXCEPT ![me.client].email = me.email]
      BY <2>4, <2>8, <3>1 DEF EditClient
    <3>3. c = me.client /\ clientRow'[c].email = me.email
      BY <1>1, <2>0, <3>2 DEF AccountsTypeOK, ClientRow
    <3>4. me.next = "editClient" /\ ClientKnown(me, disturbed)
      BY <2>8, <3>1 DEF EditClient, Fits
    <3> QED BY <2>0, <3>3, <3>4 DEF ClientKnown
  <2> QED BY <1>1, <2>5, <2>6, <2>7, <2>8 DEF Next
<1>2. AccountsTypeOK /\ AccountsInv /\ [Next]_vars => [Kept]_vars
  BY <1>1
<1>3. Spec => [][Kept]_vars
  BY <1>2, AccountsAreSound, PTL DEF Spec
<1>4. [Kept]_vars =>
        [\A c \in Client : clientRow'[c].email # clientRow[c].email
          => c \notin clients \/ clientRow[c].userId = None \/ c \in disturbed]_vars
  OBVIOUS
<1> QED BY <1>3, <1>4, PTL DEF LinkedEmailIsKept
=============================================================================
