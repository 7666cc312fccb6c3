------------------------------ MODULE MCServices ------------------------------
(***************************************************************************)
(* The connections to Meta, the workspace and the catalogue.  They share   *)
(* no row, so a behaviour looks into one of them, its focus; the others    *)
(* stay as they began.                                                     *)
(***************************************************************************)
EXTENDS MetaConnections, WorkspaceChannels, WorkspaceTasks, Catalogue, TLC

VARIABLE focus
servicesVars == <<focus, metaVars, channelVars, taskVars, catalogueVars>>

(***************************************************************************)
(* A client that is connected already: one owner, with some of the Pages.  *)
(* From here all callbacks follow one link; from no connection they may    *)
(* follow two.                                                             *)
(***************************************************************************)
Settled ==
    /\ \E o \in Owner, t \in Token, of \in SUBSET Page :
          /\ auth = [q \in Owner |-> IF q = o THEN [token |-> t, status |-> "CONNECTED"]
                                     ELSE NoRow]
          /\ conn = [p \in Page |-> IF p \in of
                        THEN [owner |-> o, token |-> t, status |-> "CONNECTED"] ELSE NoRow]
    /\ oauthState = [n \in Nonce |-> [life |-> "unissued", usedAt |-> FALSE]]
    /\ request = [r \in Request |-> Blank]
    /\ lapsed = {} /\ redeemed = [n \in Nonce |-> {}] /\ met = {}

MCInit ==
    /\ focus \in {"links", "pages", "channels", "boards", "tasks", "plans", "items", "assets", "reports"}
    /\ IF focus = "pages" THEN Settled ELSE MetaInit
    /\ ChannelsInit /\ TasksInit /\ CatalogueInit

MCNext ==
    /\ UNCHANGED focus
    /\ \/ /\ focus \in {"links", "pages"} /\ MetaNext
          /\ focus = "pages" =>
                Cardinality({n \in Nonce : oauthState'[n].life # "unissued"}) <= 1
          /\ UNCHANGED <<channelVars, taskVars, catalogueVars>>
       \/ /\ focus = "channels" /\ ChannelsNext
          /\ UNCHANGED <<metaVars, taskVars, catalogueVars>>
       \/ /\ focus \in {"boards", "tasks"} /\ TasksNext
          /\ focus = "tasks" => page' = {}
          /\ focus = "boards" => Tasks' = {}
          /\ UNCHANGED <<metaVars, channelVars, catalogueVars>>
       \/ /\ focus \in {"plans", "items", "assets", "reports"} /\ CatalogueNext
          /\ focus # "plans" => Rows(pillar)' \cup Rows(template)' = {}
          /\ focus # "items" => /\ Rows(item)' \cup Rows(campaign)' = {}
                                /\ \A r \in Call : call'[r].next # "insert"
          /\ focus # "assets" => Rows(asset)' = {}
          /\ focus # "reports" => Rows(report)' = {}
          /\ UNCHANGED <<metaVars, channelVars, taskVars>>

MCSpec == MCInit /\ [][MCNext]_servicesVars

\* MCServices.cfg gives the services the same values.
Symmetric ==
    Permutations(Nonce) \cup Permutations(Owner) \cup Permutations(Page)
      \cup Permutations(Request) \cup Permutations(Token)
-----------------------------------------------------------------------------
\* The rows of every service are what their tables and requests allow.
ServicesTypeOK == MetaTypeOK /\ ChannelsTypeOK /\ TasksTypeOK /\ CatalogueTypeOK
=============================================================================
