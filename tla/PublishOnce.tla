----------------------------- MODULE PublishOnce -----------------------------
(***************************************************************************)
(* What publishing promises, whoever publishes.  The present edition of an *)
(* item is posted to a target at most once; a post is recorded after it    *)
(* was made; an item is published when its targets are all recorded.       *)
(* The promise on an item lasts until it is broken off.                    *)
(***************************************************************************)
EXTENDS Naturals

CONSTANTS Item, Target, Edition

VARIABLES
    item,    \* of each item, its row and its posts
    broken   \* items on which nothing is promised any more
promiseVars == <<item, broken>>

NoPosts == [t \in Target |-> [e \in Edition |-> 0]]

Init == /\ item = [i \in Item |-> [posts |-> NoPosts, edition |-> 0, targets |-> {},
                                   recorded |-> {}, published |-> FALSE]]
        /\ broken = {}

\* The present edition is posted to a target.
Posted(row, next) ==
    \E t \in Target : /\ row.posts[t][row.edition] = 0
                      /\ next = [row EXCEPT !.posts[t][row.edition] = 1]

\* A post of the present edition is recorded, with the targets it was one of.
Recorded(row, next) ==
    \E t \in Target, s \in SUBSET Target :
        /\ row.posts[t][row.edition] = 1
        /\ next = [row EXCEPT !.recorded = @ \cup {t}, !.targets = s]

Published(row, next) ==
    \E s \in SUBSET row.recorded :
        s # {} /\ next = [row EXCEPT !.published = TRUE, !.targets = s]

\* The item is edited, or scheduled again: what was posted stays recorded.
Edited(row, next) ==
    \E s \in SUBSET Target, p \in {row.published, FALSE} :
        next = [row EXCEPT !.targets = s, !.published = p]

\* New media, or other targets: everything is to be posted anew.
Renewed(row, next) ==
    Edited([row EXCEPT !.edition = @ + 1, !.recorded = {}], next)

Next == \E i \in Item :
    /\ \A j \in Item \ {i} : item'[j] = item[j]
    /\ \/ i \in broken' /\ broken' = broken \cup {i}
       \/ /\ i \notin broken /\ UNCHANGED broken
          /\ \/ Posted(item[i], item'[i])
             \/ Recorded(item[i], item'[i])
             \/ Published(item[i], item'[i])
             \/ Edited(item[i], item'[i])
             \/ Renewed(item[i], item'[i])

Spec == Init /\ [][Next]_promiseVars
=============================================================================
