-------------------------- MODULE WorkspaceChannels --------------------------
(***************************************************************************)
(* The channels and messages of one organization: the part of Workspace-   *)
(* Service that seeds the default channels whenever channels are listed,   *)
(* and that other services post their activity to.  Nothing is in a        *)
(* transaction: a default is looked for and then inserted.                 *)
(*                                                                         *)
(* Which users may see a channel is left out: a request here is one that   *)
(* requireChannelAccess lets through.                                      *)
(***************************************************************************)
EXTENDS Naturals, FiniteSets

CONSTANTS
    Channel,    \* rows of workspace_channels
    Message,    \* rows of workspace_messages
    Visit,      \* bound: requests, each made once
    Absent      \* no row, or no channel in hand

DefaultSlug == {"general", "activity"}

\* A slug is a name and the suffix that makes it unique.
Slug == DefaultSlug \X (1 .. Cardinality(Channel) + 1)
ChannelRow == [slug : Slug, type : {"GENERAL", "SYSTEM"}]
MessageRow == [channel : Channel, body : {"welcome", "activity", "chat"}]

ASSUME ChannelsAssumption ==
    /\ Absent \notin Channel \cup Message \cup Visit \cup ChannelRow \cup MessageRow
    /\ IsFiniteSet(Channel)

VARIABLES
    channel,    \* workspace_channels
    message,    \* workspace_messages
    visit,      \* requests between two statements
    clouded,    \* history: requests that overlapped another, or during
                \* which a channel or a message was deleted
    byHand      \* history: the GENERAL channels that requests created
channelVars == <<channel, message, visit, clouded, byHand>>

\* A request: its errand, the statement it is about to make, the default it
\* is at, and the channels it has in hand.
VisitRow == [errand : {"seed", "post", "create"},
             next : {"new", "find", "insert", "reread", "look", "welcome",
                     "append", "name", "over", "failed"},
             name : DefaultSlug, slug : Slug \cup {Absent},
             general : Channel \cup {Absent}, at : Channel \cup {Absent}]

ChannelsTypeOK ==
    /\ channel \in [Channel -> ChannelRow \cup {Absent}]
    /\ message \in [Message -> MessageRow \cup {Absent}]
    /\ \A c, d \in Channel : c # d /\ channel[c] # Absent /\ channel[d] # Absent =>
                                channel[c].slug # channel[d].slug
    /\ \A m \in Message : message[m] # Absent => channel[message[m].channel] # Absent
    /\ visit \in [Visit -> VisitRow]
    /\ clouded \subseteq Visit /\ byHand \subseteq Channel

ChannelsInit ==
    /\ channel = [c \in Channel |-> Absent]
    /\ message = [m \in Message |-> Absent]
    /\ visit = [v \in Visit |-> [errand |-> "seed", next |-> "new", name |-> "general",
                                 slug |-> Absent, general |-> Absent, at |-> Absent]]
    /\ clouded = {} /\ byHand = {}
-----------------------------------------------------------------------------
Slugs == {channel[c].slug : c \in {d \in Channel : channel[d] # Absent}}
Free(slug) == slug \notin Slugs
Turns(v, row) == visit' = [visit EXCEPT ![v] = row]
Goes(v, next) == visit' = [visit EXCEPT ![v].next = next]

\* The id of a row is never used again: not while a request has it in hand.
Insert(c, slug, type) ==
    /\ channel[c] = Absent
    /\ \A v \in Visit : c \notin {visit[v].general, visit[v].at}
    /\ channel' = [channel EXCEPT ![c] = [slug |-> slug, type |-> type]]

Say(c, body) ==
    \E m \in Message : /\ message[m] = Absent
                       /\ message' = [message EXCEPT ![m] = [channel |-> c, body |-> body]]

Begin(v, errand, name, next) ==
    /\ visit[v].next = "new"
    /\ Turns(v, [visit[v] EXCEPT !.errand = errand, !.name = name, !.next = next])
    /\ UNCHANGED <<channel, message>>

\* listChannels, and the creation of an organization.
ensureDefaultsForOrganization(v) == Begin(v, "seed", "general", "find")

postActivity(v) == Begin(v, "post", "activity", "find")

(***************************************************************************)
(* ensureChannelDefault: select, insert on conflict do nothing, and select *)
(* again; by then the row of the other request may have been deleted.      *)
(***************************************************************************)
Type(name) == IF name = "activity" THEN "SYSTEM" ELSE "GENERAL"

\* With the channel in hand: the next default, or the first message.
Holding(v, c) ==
    CASE visit[v].errand = "post" -> [visit[v] EXCEPT !.at = c, !.next = "append"]
      [] visit[v].name = "general" ->
            [visit[v] EXCEPT !.general = c, !.name = "activity", !.next = "find"]
      [] OTHER -> [visit[v] EXCEPT !.at = c, !.name = "general", !.next = "look"]

Named(name) == {c \in Channel : channel[c] # Absent /\ channel[c].slug = <<name, 1>>}

FindDefault(v) ==
    /\ visit[v].next = "find"
    /\ IF Named(visit[v].name) = {} THEN Goes(v, "insert")
       ELSE \E c \in Named(visit[v].name) : Turns(v, Holding(v, c))
    /\ UNCHANGED <<channel, message>>

InsertDefault(v) ==
    LET slug == <<visit[v].name, 1>> IN
    /\ visit[v].next = "insert"
    /\ \/ /\ Free(slug)
          /\ \E c \in Channel : /\ Insert(c, slug, Type(visit[v].name))
                                /\ Turns(v, Holding(v, c))
       \/ /\ ~Free(slug) /\ Goes(v, "reread") /\ UNCHANGED channel
    /\ UNCHANGED message

\* Nothing is found: postActivity fails, and seeding goes on without the channel
\* until it looks for its message.
RereadDefault(v) ==
    LET found == Named(visit[v].name) IN
    /\ visit[v].next = "reread"
    /\ \/ \E c \in found : Turns(v, Holding(v, c))
       \/ found = {} /\ visit[v].errand = "seed" /\ Turns(v, Holding(v, Absent))
       \/ found = {} /\ visit[v].errand # "seed" /\ Goes(v, "failed")
    /\ UNCHANGED <<channel, message>>

(***************************************************************************)
(* ensureSystemMessage, of the general channel and then of the activity    *)
(* channel: select, and insert when there is none.                         *)
(***************************************************************************)
At(v) == IF visit[v].name = "general" THEN visit[v].general ELSE visit[v].at

Welcomes(c) == {m \in Message : message[m] # Absent /\ message[m].channel = c
                                  /\ message[m].body = "welcome"}

AfterWelcome(v) == IF visit[v].name = "general"
                   THEN [visit[v] EXCEPT !.name = "activity", !.next = "look"]
                   ELSE [visit[v] EXCEPT !.next = "over"]

\* Mutant: any message of the channel will do.
WelcomedAny(c) == \E m \in Message : message[m] # Absent /\ message[m].channel = c

Welcomed(c) == Welcomes(c) # {}

Look(v) ==
    /\ visit[v].next = "look"
    /\ \/ At(v) = Absent /\ Goes(v, "failed")
       \/ At(v) # Absent /\ Welcomed(At(v)) /\ Turns(v, AfterWelcome(v))
       \/ At(v) # Absent /\ ~Welcomed(At(v)) /\ Goes(v, "welcome")
    /\ UNCHANGED <<channel, message>>

\* The insert fails when the channel has been deleted.
Welcome(v) ==
    /\ visit[v].next = "welcome"
    /\ IF channel[At(v)] = Absent THEN Goes(v, "failed") /\ UNCHANGED message
       ELSE Say(At(v), "welcome") /\ Turns(v, AfterWelcome(v))
    /\ UNCHANGED channel

AppendActivity(v) ==
    /\ visit[v].next = "append"
    /\ IF channel[visit[v].at] = Absent THEN Goes(v, "failed") /\ UNCHANGED message
       ELSE Say(visit[v].at, "activity") /\ Goes(v, "over")
    /\ UNCHANGED channel
-----------------------------------------------------------------------------
(***************************************************************************)
(* createChannel: uniqueSlug looks for the first suffix that is free, and  *)
(* the insert fails when another request took it first.                    *)
(***************************************************************************)
UniqueSlug(name) ==
    <<name, CHOOSE n \in 1 .. Cardinality(Channel) + 1 :
               Free(<<name, n>>) /\ \A k \in 1 .. n - 1 : ~Free(<<name, k>>)>>

createChannel(v, name) ==
    /\ visit[v].next = "new"
    /\ Turns(v, [visit[v] EXCEPT !.errand = "create", !.name = name, !.next = "name",
                                 !.slug = UniqueSlug(name)])
    /\ UNCHANGED <<channel, message>>

InsertChannel(v, type) ==
    /\ visit[v].next = "name"
    /\ \/ /\ Free(visit[v].slug) /\ Goes(v, "over")
          /\ \E c \in Channel : /\ Insert(c, visit[v].slug, type)
                                /\ byHand' = IF type = "GENERAL" THEN byHand \cup {c} ELSE byHand
       \/ /\ ~Free(visit[v].slug) /\ Goes(v, "failed") /\ UNCHANGED <<channel, byHand>>
    /\ UNCHANGED message

\* Mutant: a SYSTEM channel may go as well.
DeletableAll(c) == channel[c] # Absent

Deletable(c) == channel[c] # Absent /\ channel[c].type # "SYSTEM"

\* The messages of a channel go with it.
deleteChannel(c) ==
    /\ Deletable(c)
    /\ channel' = [channel EXCEPT ![c] = Absent]
    /\ message' = [m \in Message |->
          IF message[m] # Absent /\ message[m].channel = c THEN Absent ELSE message[m]]
    /\ UNCHANGED visit

\* Chat is any text but the welcome of the channel.
createMessage(c) ==
    /\ channel[c] # Absent
    /\ Say(c, "chat")
    /\ UNCHANGED <<channel, visit>>

deleteMessage(m) ==
    /\ message[m] # Absent
    /\ message' = [message EXCEPT ![m] = Absent]
    /\ UNCHANGED <<channel, visit>>

\* The process stops, or a statement fails.
StopVisit(v) == /\ visit[v].next \notin {"new", "over", "failed"}
                /\ Goes(v, "failed") /\ UNCHANGED <<channel, message>>
-----------------------------------------------------------------------------
Running == {v \in Visit : visit[v].next \notin {"new", "over", "failed"}}
Crowd == {v \in Running : \E u \in Running : u # v}

VisitStep ==
    \E v \in Visit :
       \/ /\ \/ ensureDefaultsForOrganization(v) \/ postActivity(v)
             \/ FindDefault(v) \/ InsertDefault(v) \/ RereadDefault(v)
             \/ Look(v) \/ Welcome(v) \/ AppendActivity(v) \/ StopVisit(v)
             \/ \E name \in DefaultSlug : createChannel(v, name)
          /\ UNCHANGED byHand
       \/ \E type \in {"GENERAL", "SYSTEM"} : InsertChannel(v, type)

ChannelsNext ==
    \/ VisitStep /\ clouded' = clouded \cup Crowd'
    \/ (\E c \in Channel : createMessage(c)) /\ UNCHANGED <<clouded, byHand>>
    \/ /\ (\E c \in Channel : deleteChannel(c)) \/ (\E m \in Message : deleteMessage(m))
       /\ clouded' = clouded \cup Running /\ UNCHANGED byHand

ChannelsSpec == ChannelsInit /\ [][ChannelsNext]_channelVars
-----------------------------------------------------------------------------
(***************************************************************************)
(* A request that seeds the workspace while no other request is at it, and *)
(* nothing is deleted under it, leaves each default channel with exactly   *)
(* one welcome message, or with those that were there when it came:        *)
(* listing the channels again adds nothing.                                *)
(***************************************************************************)
SeededExactly ==
    [][\A v \in Visit :
         /\ visit[v].errand = "seed" /\ visit[v].next # "over" /\ visit'[v].next = "over"
         /\ v \notin clouded'
         => \A name \in DefaultSlug :
               /\ Named(name)' # {}
               /\ \A c \in Channel : c \in Named(name)' =>
                     Welcomes(c)' # {} /\ (Cardinality(Welcomes(c)') > 1 => clouded # {})
      ]_channelVars

(***************************************************************************)
(* The activity that another service posts is not lost to a deletion: the  *)
(* channel in hand cannot be deleted before the message is inserted, unless*)
(* somebody made that channel by hand before the defaults were there.      *)
(***************************************************************************)
ActivityStays ==
    \A v \in Visit : visit[v].next = "append" /\ visit[v].at \notin byHand =>
                         channel[visit[v].at] # Absent
=============================================================================
