----------------------------- MODULE OneTimeLink -----------------------------
(***************************************************************************)
(* What a one-time link promises.  It is valid from when it is issued to   *)
(* when it lapses; whoever presents it while it is valid may redeem it,    *)
(* even after it lapsed, but only one of them does, and only once.         *)
(*                                                                         *)
(* The authorization links of MetaConnections implement it.  The password  *)
(* links of ClientAccounts do not: they are marked as used only after they *)
(* were used, so that two requests at once both get through.               *)
(***************************************************************************)
CONSTANTS Link, Holder

VARIABLES
    life,       \* of each link: "unissued", "valid", "lapsed"
    presented,  \* who has presented which link, and is not answered yet
    redeemed    \* who has redeemed each link
vars == <<life, presented, redeemed>>

Init == /\ life = [l \in Link |-> "unissued"]
        /\ presented = {}
        /\ redeemed = [l \in Link |-> {}]

Issue(l) == /\ life[l] = "unissued"
            /\ life' = [life EXCEPT ![l] = "valid"]
            /\ UNCHANGED <<presented, redeemed>>

Lapse(l) == /\ life[l] = "valid"
            /\ life' = [life EXCEPT ![l] = "lapsed"]
            /\ UNCHANGED <<presented, redeemed>>

Present(h, l) == /\ life[l] = "valid" /\ redeemed[l] = {}
                 /\ presented' = presented \cup {<<h, l>>}
                 /\ UNCHANGED <<life, redeemed>>

Redeem(h, l) == /\ <<h, l>> \in presented /\ redeemed[l] = {}
                /\ redeemed' = [redeemed EXCEPT ![l] = {h}]
                /\ presented' = presented \ {<<h, l>>}
                /\ UNCHANGED life

Refuse(h, l) == /\ presented' = presented \ {<<h, l>>}
                /\ UNCHANGED <<life, redeemed>>

Next == \E l \in Link : \/ Issue(l) \/ Lapse(l)
                        \/ \E h \in Holder : Present(h, l) \/ Redeem(h, l) \/ Refuse(h, l)

Spec == Init /\ [][Next]_vars
=============================================================================
