-------------------------- MODULE MCClientAccounts --------------------------
(***************************************************************************)
(* Small instances of ClientAccounts.  A lead and a checklist have nothing *)
(* to do with users and their links but the clients: one behaviour follows *)
(* the ones or the others.                                                 *)
(***************************************************************************)
EXTENDS ClientAccounts, TLC

CONSTANT MaxBegun   \* bound: requests of more than one step

VARIABLES
    focus,   \* which of the two a behaviour follows
    begun    \* requests so far
mcVars == <<vars, focus, begun>>

\* A client whose portal user was invited and did not yet set a password; and
\* one whose portal user was unlinked after that.
Invited ==
    \E u \in User, c \in Client, t \in Token, e \in Email :
    \E linked \in {u, None} :
        /\ users = {u} /\ clients = {c}
        /\ removed = {} /\ leads = {} /\ moved = {} /\ disturbed = {}
        /\ userRow = [v \in User |-> IF v = u
              THEN [email |-> e, role |-> "CLIENT", status |-> "ACTIVE"]
              ELSE NoUser]
        /\ clientRow = [d \in Client |-> IF d = c
              THEN [email |-> e, userId |-> linked] ELSE [email |-> None, userId |-> None]]
        /\ tokenRow = [v \in Token |-> IF v = t THEN [state |-> "fresh", userId |-> u]
                                     ELSE [state |-> "unissued", userId |-> None]]
        /\ checklist = [d \in Client |-> [completed |-> FALSE,
              state |-> IF d = c THEN "seeding" ELSE "unseeded"]]
        /\ leadRow = [l \in Lead |-> [email |-> None, clientId |-> None]]
        /\ made = [l \in Lead |-> {}] /\ spent = [v \in Token |-> 0]
        /\ req = [r \in Request |-> Blank]

MCInit == /\ begun = 0
          /\ \/ Init /\ focus \in {"users", "leads"}
             \/ Invited /\ focus = "users"

MCNext ==
    /\ Next
    /\ begun' = begun + Cardinality({r \in Request : req[r].next = "new" /\ req'[r].next # "new"})
    /\ begun' <= MaxBegun
    /\ focus = "users" =>
         leads' = leads /\ \A c \in Client : checklist'[c].state \in {"unseeded", "seeding"}
    /\ focus = "leads" =>
         users' = users /\ \A r \in Request : req'[r].next # "insertUser"
    /\ UNCHANGED focus

MCSpec == MCInit /\ [][MCNext]_mcVars

Symmetric == Permutations(User) \cup Permutations(Client)
               \cup Permutations(Email) \cup Permutations(Request)
=============================================================================
