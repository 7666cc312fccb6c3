--------------------------- MODULE ClientAccounts ---------------------------
(***************************************************************************)
(* Users, the clients they sign in for, the one-time links that set their  *)
(* passwords, the leads that become clients, and the onboarding checklist  *)
(* of a client: AuthService, UsersService, the portal half of              *)
(* ClientsService, LeadsService and OnboardingTasksService.                *)
(*                                                                         *)
(* Postgres keeps emails unique and each user at one client; what it does  *)
(* not keep is what a request read before it writes.  A request is its     *)
(* reads, in one step, and then one step per statement that writes.  A     *)
(* transaction takes no lock when it reads: it is one step where its       *)
(* commit fails unless what it read is still so, which unique columns and  *)
(* foreign keys see to, and its reads and then its writes where they do    *)
(* not.  All rows are of one organization.                                 *)
(***************************************************************************)
EXTENDS Naturals, FiniteSets

CONSTANTS
    User, Client, Lead, Token, \* ids of rows; none is used a second time
    Email,
    Request,                   \* bound: requests at work at a time; one that
                               \* stops half-way has no successor
    None

Role == {"CLIENT", "STAFF"}   \* SUPER_ADMIN, ADMIN and TEAM are alike here
Status == {"ACTIVE", "DISABLED"}

ASSUME NoneAssumption ==
    None \notin User \cup Client \cup Lead \cup Token \cup Email
                  \cup Role \cup Status \cup {"OPEN", "DONE"}

VARIABLES
    users, userRow,       \* users: the ids in use, and their rows
    removed,              \* ids of users that were deleted
    clients, clientRow,   \* clients
    leads, leadRow,       \* leads
    tokenRow,             \* auth_tokens
    checklist,            \* onboarding_tasks: one task of each client
    req,                  \* requests between two statements
    spent,                \* history: the passwords a link has set
    made,                 \* history: the clients a lead was converted into
    moved,                \* history: leads whose email, or client's, changed
    disturbed             \* history: what two requests had in hand at once,
                          \* or one that stopped between two statements
vars == <<users, userRow, removed, clients, clientRow, leads, leadRow,
          tokenRow, checklist, req, spent, made, moved, disturbed>>

NoUser == [email |-> None, role |-> "STAFF", status |-> "ACTIVE"]
UserRow == [email : Email \cup {None}, role : Role, status : Status]
ClientRow == [email : Email \cup {None}, userId : User \cup {None}]
LeadRow == [email : Email \cup {None}, clientId : Client \cup {None}]
TokenRow == [state : {"unissued", "fresh", "used", "expired", "deleted"},
             userId : User \cup {None}]

\* DONE, or PENDING and IN_PROGRESS, which are alike here; and completedAt.
TaskRow == [state : {"unseeded", "seeding", "OPEN", "DONE"},
            completed : BOOLEAN]

(***************************************************************************)
(* What a request has in hand: its next statement, what it read, and what  *)
(* it was asked to write.                                                  *)
(***************************************************************************)
Waiting == {"insertUser", "insertToken", "findLink", "link", "updateUser",
            "relink", "useToken", "portal", "portalLink", "disable",
            "unlink", "editClient", "convert", "editTask"}
Asked == [next   : Waiting \cup {"new", "stopped"},
          user   : User \cup {None},     client : Client \cup {None},
          lead   : Lead \cup {None},     token  : Token \cup {None},
          task   : Client \cup {None},   email  : Email \cup {None},
          role   : Role \cup {None},     was    : Role \cup {None},
          status : Status \cup {None},   state  : {"OPEN", "DONE", None},
          invite : BOOLEAN,              completed : BOOLEAN]

Blank == [next |-> "new", user |-> None, client |-> None, lead |-> None,
          token |-> None, task |-> None, email |-> None, role |-> None,
          was |-> None, status |-> None, state |-> None, invite |-> FALSE,
          completed |-> FALSE]

AccountsTypeOK ==
    /\ users \subseteq User /\ removed \subseteq User
    /\ users \cap removed = {}
    /\ userRow \in [User -> UserRow]
    /\ clients \subseteq Client /\ clientRow \in [Client -> ClientRow]
    /\ leads \subseteq Lead /\ leadRow \in [Lead -> LeadRow]
    /\ tokenRow \in [Token -> TokenRow]
    /\ checklist \in [Client -> TaskRow]
    /\ req \in [Request -> Asked]
    /\ spent \in [Token -> 0 .. 2]
    /\ made \in [Lead -> SUBSET Client] /\ moved \subseteq Lead
    /\ disturbed \subseteq (User \cup Client \cup Token \cup ({"task"} \X Client))

Init ==
    /\ users = {} /\ removed = {} /\ clients = {} /\ leads = {}
    /\ userRow = [u \in User |-> NoUser]
    /\ clientRow = [c \in Client |-> [email |-> None, userId |-> None]]
    /\ leadRow = [l \in Lead |-> [email |-> None, clientId |-> None]]
    /\ tokenRow = [t \in Token |-> [state |-> "unissued", userId |-> None]]
    /\ checklist = [c \in Client |-> [state |-> "unseeded",
                                      completed |-> FALSE]]
    /\ req = [r \in Request |-> Blank]
    /\ spent = [t \in Token |-> 0]
    /\ made = [l \in Lead |-> {}] /\ moved = {} /\ disturbed = {}

userVars == <<users, userRow, removed>>
clientVars == <<clients, clientRow, checklist>>
leadVars == <<leads, leadRow, made, moved>>
tokenVars == <<tokenRow, spent>>
-----------------------------------------------------------------------------
(***************************************************************************)
(* What the tables say.                                                    *)
(***************************************************************************)

\* users.email is unique.
UserOf(e) == {u \in users : userRow[u].email = e}

\* Unique within an organization; a client may have no email.
ClientOf(e) == IF e = None THEN {}
               ELSE {c \in clients : clientRow[c].email = e}

\* clients.user_id is unique.
LinkedTo(u) == {c \in clients : clientRow[c].userId = u}

\* Mutant: the emails of clients are not unique.
EmailFreeAlways(e) == TRUE

EmailFree(e) == ClientOf(e) = {}

\* requireLinkableClient: the client with that email serves nobody else.
Linkable(e, u) == \E c \in ClientOf(e) : clientRow[c].userId \in {None, u}

Proceed(r, call) == req' = [req EXCEPT ![r] = call]
Begins(r, call) == req[r].next = "new" /\ Proceed(r, call)
Ends(r) == Proceed(r, Blank)

\* The request fails after it wrote something.
Stops(r) == Proceed(r, [req[r] EXCEPT !.next = "stopped"])

Only(changed) ==
    /\ "users" \notin changed => UNCHANGED userVars
    /\ "clients" \notin changed => UNCHANGED clientVars
    /\ "leads" \notin changed => UNCHANGED leadVars
    /\ "tokens" \notin changed => UNCHANGED tokenVars
-----------------------------------------------------------------------------
(***************************************************************************)
(* New rows.                                                               *)
(***************************************************************************)

\* A row of clients, and the automation that will seed its checklist.
InsertClient(c, e, u) ==
    /\ c \notin clients
    /\ clients' = clients \cup {c}
    /\ clientRow' = [clientRow EXCEPT ![c] = [email |-> e, userId |-> u]]
    /\ checklist' = [checklist EXCEPT ![c].state = "seeding"]

InsertUser(u, e, role) ==
    /\ u \in User \ (users \cup removed)
    /\ users' = users \cup {u}
    /\ userRow' = [userRow EXCEPT ![u] = [email |-> e, role |-> role,
                                          status |-> "ACTIVE"]]
    /\ UNCHANGED removed

\* ClientsService.create without a portal user, and a row of importClients.
CreateClient(c, e) ==
    /\ EmailFree(e)
    /\ InsertClient(c, e, None)
    /\ UNCHANGED req /\ Only({"clients"})

\* createWithPortalUser: one transaction.
CreateBoth(c, u, e) ==
    /\ e # None /\ EmailFree(e) /\ UserOf(e) = {}
    /\ InsertUser(u, e, "CLIENT") /\ InsertClient(c, e, u)
    /\ Only({"clients", "users"})

CreateWithPortalUser(c, u, e) == CreateBoth(c, u, e) /\ UNCHANGED req

\* createWithPortalInvite, for the public onboarding form.
CreateWithPortalInvite(r, c, u, e) ==
    /\ CreateBoth(c, u, e)
    /\ Begins(r, [Blank EXCEPT !.next = "insertToken", !.user = u])

\* seedForClient, in the background.
SeedForClient(c) ==
    /\ checklist[c].state = "seeding"
    /\ checklist' = [checklist EXCEPT ![c].state = "OPEN"]
    /\ UNCHANGED <<clients, clientRow, req>> /\ Only({"clients"})

CreateLead(l, e) ==
    /\ l \notin leads
    /\ leads' = leads \cup {l}
    /\ leadRow' = [leadRow EXCEPT ![l].email = e]
    /\ UNCHANGED <<made, moved, req>> /\ Only({"leads"})

\* LeadsService.update: a new email or client of the lead.
UpdateLead(l, row) ==
    /\ l \in leads /\ row # leadRow[l]
    /\ leadRow' = [leadRow EXCEPT ![l] = row]
    /\ moved' = IF row.email # leadRow[l].email \/ row.clientId # leadRow[l].clientId
                THEN moved \cup {l} ELSE moved
    /\ UNCHANGED <<leads, made, req>> /\ Only({"leads"})
-----------------------------------------------------------------------------
(***************************************************************************)
(* AuthService: accounts made by an administrator.                         *)
(***************************************************************************)

\* register and inviteUser, up to the insert.
Register(r, i) ==
    /\ i.role = "CLIENT" => Linkable(i.email, None)
    /\ Begins(r, [Blank EXCEPT !.next = "insertUser", !.email = i.email,
                               !.role = i.role])
    /\ Only({})

InviteUser(r, i) ==
    /\ i.role = "CLIENT" => Linkable(i.email, None)
    /\ Begins(r, [Blank EXCEPT !.next = "insertUser", !.email = i.email,
                               !.role = i.role, !.invite = TRUE])
    /\ Only({})

\* What a registration goes on to when the user, or its link, is there.
ThenLink(call) ==
    IF call.role = "CLIENT" THEN [call EXCEPT !.next = "findLink"] ELSE Blank

\* UsersService.create.
CreateUser(r) ==
    /\ req[r].next = "insertUser"
    /\ IF UserOf(req[r].email) # {} THEN Ends(r) /\ Only({})
       ELSE \E u \in User :
              /\ InsertUser(u, req[r].email, req[r].role)
              /\ Proceed(r, IF req[r].invite
                            THEN [req[r] EXCEPT !.next = "insertToken", !.user = u]
                            ELSE ThenLink([req[r] EXCEPT !.user = u]))
              /\ Only({"users"})

\* createAuthLink; the user of a link may have been deleted.
InsertToken(r) ==
    /\ req[r].next = "insertToken"
    /\ IF req[r].user \notin users THEN Stops(r) /\ Only({})
       ELSE \E t \in Token :
              /\ tokenRow[t].state = "unissued"
              /\ tokenRow' = [tokenRow EXCEPT ![t] = [state |-> "fresh",
                                                      userId |-> req[r].user]]
              /\ Proceed(r, ThenLink(req[r]))
              /\ UNCHANGED spent /\ Only({"tokens"})

\* linkClientUser: the client is looked for again ...
FindLink(r) ==
    /\ req[r].next = "findLink"
    /\ IF Linkable(req[r].email, req[r].user)
       THEN \E c \in ClientOf(req[r].email) :
              Proceed(r, [req[r] EXCEPT !.next = "link", !.client = c])
       ELSE Stops(r)
    /\ Only({})

\* ... and updated.
LinkClientUser(r) ==
    /\ req[r].next = "link"
    /\ IF req[r].user \notin users \/ LinkedTo(req[r].user) \ {req[r].client} # {}
       THEN Stops(r) /\ Only({})
       ELSE /\ clientRow' = [clientRow EXCEPT ![req[r].client].userId = req[r].user]
            /\ Ends(r)
            /\ UNCHANGED <<clients, checklist>> /\ Only({"clients"})

\* The requests that mail a link to the user.
ForgotPassword(r, u) ==
    /\ u \in users /\ userRow[u].status # "DISABLED"
    /\ Begins(r, [Blank EXCEPT !.next = "insertToken", !.user = u])
    /\ Only({})

SendPasswordReset(r, u) ==
    /\ u \in users
    /\ Begins(r, [Blank EXCEPT !.next = "insertToken", !.user = u])
    /\ Only({})

SendPortalPasswordReset(r, c, u) ==
    /\ c \in clients /\ clientRow[c].userId = u
    /\ SendPasswordReset(r, u)

Expire(t) ==
    /\ tokenRow[t].state = "fresh"
    /\ tokenRow' = [tokenRow EXCEPT ![t].state = "expired"]
    /\ UNCHANGED <<spent, req>> /\ Only({"tokens"})
-----------------------------------------------------------------------------
(***************************************************************************)
(* UsersService.update, which also keeps the client's link: called by the  *)
(* administrator, the user's profile, a change of password and a reset.    *)
(***************************************************************************)
MayUpdate(u, e, role) ==
    /\ u \in users
    /\ e # None => UserOf(e) \subseteq {u}
    /\ role = "CLIENT" => Linkable(IF e = None THEN userRow[u].email ELSE e, u)

StartUpdate(r, u, i) ==
    /\ MayUpdate(u, i.email, i.role)
    /\ Begins(r, [Blank EXCEPT !.next = "updateUser", !.user = u, !.email = i.email,
                     !.role = i.role, !.status = i.status, !.was = userRow[u].role])
    /\ Only({})

\* resetPassword: the link must be unused and unexpired.
ResetPassword(r, t) ==
    /\ tokenRow[t].state = "fresh"
    /\ LET u == tokenRow[t].userId IN
       Begins(r, [Blank EXCEPT !.next = "updateUser", !.user = u, !.token = t,
                     !.status = "ACTIVE", !.was = userRow[u].role])
    /\ Only({})

Given(new, old) == IF new = None THEN old ELSE new

\* Mutant: what is not given is written too.
UpdatedAll(row, call) == [email |-> call.email, role |-> call.role, status |-> call.status]

Updated(row, call) == [email |-> Given(call.email, row.email),
                       role |-> Given(call.role, row.role),
                       status |-> Given(call.status, row.status)]

\* The first UPDATE; the call keeps the row it returns.
UpdateUser(r) ==
    /\ req[r].next = "updateUser"
    /\ LET call == req[r]
           u == call.user
           row == Updated(userRow[u], call) IN
       IF u \notin users \/ ~(UserOf(row.email) \subseteq {u})
       THEN Ends(r) /\ Only({})
       ELSE /\ userRow' = [userRow EXCEPT ![u] = row]
            /\ spent' = IF call.token = None THEN spent
                        ELSE [spent EXCEPT ![call.token] = IF @ = 0 THEN 1 ELSE 2]
            /\ Proceed(r, [call EXCEPT !.next = "relink", !.email = row.email,
                                       !.role = row.role])
            /\ UNCHANGED <<users, removed, tokenRow>>
            /\ Only({"users", "tokens"})

\* Mutant: whoever stops being a CLIENT keeps the link.
RelinkedNever(call) == [c \in Client |-> IF call.role = "CLIENT" /\ c \in ClientOf(call.email)
                                         THEN call.user ELSE clientRow[c].userId]

\* The links after the second UPDATE.
Relinked(call) ==
    [c \in Client |->
       CASE call.role = "CLIENT" /\ c \in ClientOf(call.email) -> call.user
         [] call.role # "CLIENT" /\ call.was = "CLIENT" /\ c \in LinkedTo(call.user)
              -> None
         [] OTHER -> clientRow[c].userId]

RelinkFails(call) ==
    /\ call.role = "CLIENT" /\ ClientOf(call.email) # {}
    /\ \/ call.user \notin users
       \/ LinkedTo(call.user) \ ClientOf(call.email) # {}

Relink(r) ==
    /\ req[r].next = "relink"
    /\ IF RelinkFails(req[r]) THEN Stops(r) /\ Only({})
       ELSE /\ clientRow' = [c \in Client |->
                  [clientRow[c] EXCEPT !.userId = Relinked(req[r])[c]]]
            /\ IF req[r].token = None THEN Ends(r)
               ELSE Proceed(r, [req[r] EXCEPT !.next = "useToken"])
            /\ UNCHANGED <<clients, checklist>> /\ Only({"clients"})

\* Mutant: the link is not marked.
SpentStateFresh(state) == state

\* usedAt is set by id; a deleted row stays deleted.
SpentState(state) == IF state = "deleted" THEN state ELSE "used"

UseToken(r) ==
    /\ req[r].next = "useToken"
    /\ tokenRow' = [tokenRow EXCEPT ![req[r].token].state = SpentState(@)]
    /\ Ends(r)
    /\ UNCHANGED spent /\ Only({"tokens"})

\* UsersService.remove; the foreign keys do the rest.
RemoveUser(u) ==
    /\ u \in users
    /\ users' = users \ {u} /\ removed' = removed \cup {u}
    /\ clientRow' = [c \in Client |-> IF clientRow[c].userId = u
                                      THEN [clientRow[c] EXCEPT !.userId = None]
                                      ELSE clientRow[c]]
    /\ tokenRow' = [t \in Token |-> IF tokenRow[t].userId = u
                                    THEN [state |-> "deleted", userId |-> None]
                                    ELSE tokenRow[t]]
    /\ userRow' = [userRow EXCEPT ![u] = NoUser]
    /\ UNCHANGED <<clients, checklist, spent, req>>
    /\ Only({"users", "clients", "tokens"})
-----------------------------------------------------------------------------
(***************************************************************************)
(* ClientsService: the portal user of a client, and its email.             *)
(***************************************************************************)

\* createPortalUser reads the client ...
StartPortalUser(r, c) ==
    /\ c \in clients /\ clientRow[c].userId = None /\ clientRow[c].email # None
    /\ Begins(r, [Blank EXCEPT !.next = "portal", !.client = c,
                               !.email = clientRow[c].email])
    /\ Only({})

PortalLink(r, u) ==
    /\ clientRow' = [clientRow EXCEPT ![req[r].client].userId = u]
    /\ Proceed(r, [Blank EXCEPT !.next = "insertToken", !.user = u])
    /\ UNCHANGED <<clients, checklist>>

\* ... then, in a transaction, the user with its email: who is no CLIENT, or
\* signs in for another client, is refused ...
FindPortalUser(r) ==
    /\ req[r].next = "portal"
    /\ \/ \E u \in UserOf(req[r].email) :
            IF userRow[u].role = "CLIENT" /\ LinkedTo(u) \subseteq {req[r].client}
            THEN Proceed(r, [req[r] EXCEPT !.next = "portalLink", !.user = u,
                                           !.role = "CLIENT"])
            ELSE Ends(r)
       \/ /\ UserOf(req[r].email) = {}
          /\ Proceed(r, [req[r] EXCEPT !.next = "portalLink"])
    /\ Only({})

\* ... and links that user, whose role it does not look at again, or a new
\* one.  The commit fails when the user is gone or has got another client,
\* and for a new user when the email was taken.
CreatePortalUser(r) ==
    /\ req[r].next = "portalLink"
    /\ LET u == req[r].user IN
       \/ /\ u \in users /\ LinkedTo(u) \subseteq {req[r].client}
          /\ PortalLink(r, u) /\ Only({"clients"})
       \/ /\ u = None /\ UserOf(req[r].email) = {}
          /\ \E v \in User : InsertUser(v, req[r].email, "CLIENT") /\ PortalLink(r, v)
          /\ Only({"users", "clients"})
       \/ /\ IF u = None THEN UserOf(req[r].email) # {}
             ELSE u \notin users \/ ~(LinkedTo(u) \subseteq {req[r].client})
          /\ Ends(r) /\ Only({})

StartDisable(r, c) ==
    /\ c \in clients /\ clientRow[c].userId # None
    /\ Begins(r, [Blank EXCEPT !.next = "disable", !.user = clientRow[c].userId])
    /\ Only({})

DisablePortalUser(r) ==
    /\ req[r].next = "disable"
    /\ userRow' = IF req[r].user \in users
                  THEN [userRow EXCEPT ![req[r].user].status = "DISABLED"]
                  ELSE userRow
    /\ Ends(r)
    /\ UNCHANGED <<users, removed>> /\ Only({"users"})

StartUnlink(r, c) ==
    /\ c \in clients /\ clientRow[c].userId # None
    /\ Begins(r, [Blank EXCEPT !.next = "unlink", !.client = c])
    /\ Only({})

UnlinkPortalUser(r) ==
    /\ req[r].next = "unlink"
    /\ clientRow' = [clientRow EXCEPT ![req[r].client].userId = None]
    /\ Ends(r)
    /\ UNCHANGED <<clients, checklist>> /\ Only({"clients"})

\* Mutant: the link is not looked at.
MayEditAlways(c, e) == TRUE

\* A client with a portal user keeps its email.
MayEdit(c, e) == clientRow[c].userId = None \/ e = clientRow[c].email

StartEdit(r, c, e) ==
    /\ c \in clients /\ MayEdit(c, e)
    /\ Begins(r, [Blank EXCEPT !.next = "editClient", !.client = c, !.email = e])
    /\ Only({})

EditClient(r) ==
    /\ req[r].next = "editClient"
    /\ Ends(r)
    /\ LET c == req[r].client
           e == req[r].email IN
       IF e = clientRow[c].email \/ ~EmailFree(e) THEN Only({})
       ELSE /\ clientRow' = [clientRow EXCEPT ![c].email = e]
            /\ moved' = moved \cup {l \in Lead : c \in made[l]}
            /\ UNCHANGED <<clients, checklist, leads, leadRow, made>>
            /\ Only({"clients", "leads"})
-----------------------------------------------------------------------------
(***************************************************************************)
(* LeadsService.convertToClient: the lead is read before the transaction.  *)
(***************************************************************************)
StartConvert(r, l) ==
    /\ l \in leads /\ leadRow[l].clientId = None
    /\ Begins(r, [Blank EXCEPT !.next = "convert", !.lead = l,
                               !.email = leadRow[l].email])
    /\ Only({})

\* Mutant: the lead is not updated.
WonRowNot(row, c) == row

\* Its status, WON from then on, is read by nothing.
WonRow(row, c) == [row EXCEPT !.clientId = c]

ConvertToClient(r) ==
    /\ req[r].next = "convert"
    /\ Ends(r)
    /\ IF ~EmailFree(req[r].email) THEN Only({})
       ELSE \E c \in Client :
              /\ InsertClient(c, req[r].email, None)
              /\ leadRow' = [leadRow EXCEPT ![req[r].lead] = WonRow(@, c)]
              /\ made' = [made EXCEPT ![req[r].lead] = @ \cup {c}]
              /\ UNCHANGED <<leads, moved>>
              /\ Only({"clients", "leads"})
-----------------------------------------------------------------------------
(***************************************************************************)
(* OnboardingTasksService.update: completedAt is computed from what was    *)
(* read, and written whether or not the status was given.                  *)
(***************************************************************************)

\* Mutant: completedAt is kept when a task is opened again.
CompletedKept(given, completed) == given = "DONE" \/ completed

Completed(given, completed) ==
    CASE given = "DONE" -> TRUE
      [] given = "OPEN" -> FALSE
      [] OTHER -> completed

StartTask(r, c, state) ==
    /\ checklist[c].state \in {"OPEN", "DONE"}
    /\ Begins(r, [Blank EXCEPT !.next = "editTask", !.task = c, !.state = state,
                     !.completed = Completed(state, checklist[c].completed)])
    /\ Only({})

EditTask(r) ==
    /\ req[r].next = "editTask"
    /\ checklist' = [checklist EXCEPT ![req[r].task] =
                       [state |-> Given(req[r].state, @.state),
                        completed |-> req[r].completed]]
    /\ Ends(r)
    /\ UNCHANGED <<clients, clientRow>> /\ Only({"clients"})
-----------------------------------------------------------------------------
\* The process stops, or a statement fails for a reason of its own.  A
\* request that stops before it wrote anything is one that never began.
Crash(r) ==
    /\ req[r].next \in {"insertToken", "findLink", "link", "relink", "useToken"}
    /\ Stops(r) /\ Only({})

-----------------------------------------------------------------------------
(***************************************************************************)
(* The requests, by the controller that takes them, with what their bodies *)
(* may hold.  A field that is not given is None.                           *)
(***************************************************************************)
RegisterInput == [email : Email, role : Role]

UpdateUserInput == [email : Email \cup {None}, role : Role \cup {None},
                    status : Status \cup {None}]

UpdateProfileInput == {i \in UpdateUserInput : i.role = None /\ i.status = None}

CreateClientInput == Email \cup {None}

CreateLeadInput == Email

UpdateLeadInput == [email : CreateLeadInput, clientId : clients \cup {None}]

AuthRequests(r) ==
    \/ \E i \in RegisterInput : Register(r, i) \/ InviteUser(r, i)
    \/ \E u \in User : ForgotPassword(r, u) \/ SendPasswordReset(r, u)
    \/ \E t \in Token : ResetPassword(r, t)
    \/ \E u \in User, i \in UpdateProfileInput : StartUpdate(r, u, i)

UserRequests(r) == \E u \in User, i \in UpdateUserInput : StartUpdate(r, u, i)

ClientRequests(r) ==
    \E c \in Client :
        \/ StartPortalUser(r, c) \/ StartDisable(r, c) \/ StartUnlink(r, c)
        \/ \E u \in User : SendPortalPasswordReset(r, c, u)
        \/ \E e \in CreateClientInput \ {None} : StartEdit(r, c, e)

OnboardingSubmit(r) ==
    \E c \in Client, u \in User, e \in Email : CreateWithPortalInvite(r, c, u, e)

LeadRequests(r) == \E l \in Lead : StartConvert(r, l)

TaskRequests(r) ==
    \E c \in Client, state \in {"OPEN", "DONE", None} : StartTask(r, c, state)

\* The requests that are one statement, or one transaction.
ClientRows ==
    \/ \E c \in Client, e \in CreateClientInput : CreateClient(c, e)
    \/ \E c \in Client, u \in User, e \in Email : CreateWithPortalUser(c, u, e)

LeadRows ==
    \/ \E l \in Lead, e \in CreateLeadInput : CreateLead(l, e)
    \/ \E l \in Lead, row \in UpdateLeadInput : UpdateLead(l, row)

RemoveUsers == \E u \in User : RemoveUser(u)

NewRows ==
    \/ ClientRows \/ LeadRows \/ RemoveUsers
    \/ \E c \in Client : SeedForClient(c)
    \/ \E t \in Token : Expire(t)

Starts(r) ==
    \/ AuthRequests(r) \/ UserRequests(r) \/ ClientRequests(r)
    \/ OnboardingSubmit(r) \/ LeadRequests(r) \/ TaskRequests(r)

GoesOn(r) ==
    \/ CreateUser(r) \/ InsertToken(r) \/ FindLink(r) \/ LinkClientUser(r)
    \/ UpdateUser(r) \/ Relink(r) \/ UseToken(r) \/ FindPortalUser(r)
    \/ CreatePortalUser(r) \/ DisablePortalUser(r) \/ UnlinkPortalUser(r) \/ EditClient(r)
    \/ ConvertToClient(r) \/ EditTask(r) \/ Crash(r)

(***************************************************************************)
(* The history of the requests that met: what each of two has in hand, the *)
(* client it is about to link included, and what one that stopped had.     *)
(***************************************************************************)
InHand(call) ==
    ({call.user, call.client, call.token} \ {None})
        \cup (IF call.task = None THEN {} ELSE {<<"task", call.task>>})
        \cup (IF call.next = "relink" THEN ClientOf(call.email) ELSE {})

Met == {x \in UNION {InHand(req[r]) : r \in Request} :
           \E q, r \in Request : q # r /\ x \in InHand(req[q]) \cap InHand(req[r])}
Halted == UNION {InHand(req[r]) : r \in {q \in Request : req[q].next = "stopped"}}

Next == /\ NewRows \/ \E r \in Request : Starts(r) \/ GoesOn(r)
        /\ disturbed' = disturbed \cup Met' \cup Halted'

Spec == Init /\ [][Next]_vars
-----------------------------------------------------------------------------
(***************************************************************************)
(* Whoever signs in for a client is a user with the role CLIENT: a change  *)
(* of the role takes the link away.  The link and the role are written by  *)
(* two statements, so it is not so between them, nor when two requests had *)
(* the user in hand at once, as createPortalUser has from its look at the  *)
(* role to its commit, or one stopped half-way.                            *)
(***************************************************************************)
LinkedIsClientUser ==
    \A c \in clients : LET u == clientRow[c].userId IN
        \/ u = None
        \/ u \in users /\ userRow[u].role = "CLIENT"
        \/ u \in disturbed
        \/ \E r \in Request : req[r].next = "relink" /\ req[r].user = u

(***************************************************************************)
(* A link sets one password, though it is marked as used only after the    *)
(* user, and the user's client, were updated; unless it was used twice at  *)
(* the same time, or its first use stopped before the mark.                *)
(***************************************************************************)
TokenSpentOnce == \A t \in Token \ disturbed : spent[t] <= 1

(***************************************************************************)
(* A lead becomes one client, and is linked to it, however many requests   *)
(* convert it at once: the transactions that come later meet the unique    *)
(* email.  Not so when the lead's email, or that of its client, changed,   *)
(* or the lead was linked by hand.                                         *)
(***************************************************************************)
ConvertedOnce ==
    \A l \in Lead \ moved :
        /\ Cardinality(made[l]) <= 1
        /\ made[l] # {} => leadRow[l].clientId \in made[l]

(***************************************************************************)
(* completedAt is set exactly while a task is DONE, unless two updates of  *)
(* the task met: each writes back what it read.                            *)
(***************************************************************************)
CompletedWhenDone ==
    \A c \in Client :
        \/ checklist[c].completed <=> checklist[c].state = "DONE"
        \/ <<"task", c>> \in disturbed

(***************************************************************************)
(* The email of a client does not change while it has a portal user, who   *)
(* signs in with it; unless the link came while the edit was under way.    *)
(***************************************************************************)
LinkedEmailIsKept ==
    [][\A c \in Client : clientRow'[c].email # clientRow[c].email
          => c \notin clients \/ clientRow[c].userId = None \/ c \in disturbed]_vars
=============================================================================
