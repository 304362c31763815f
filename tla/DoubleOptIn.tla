---------------------------- MODULE DoubleOptIn ----------------------------
(***************************************************************************)
(* What the mailing list promises an address, whatever jobs, retries and   *)
(* emails lie underneath: it gets on the list only by asking and then      *)
(* using a link that was mailed to it, the newest one there is, issued     *)
(* since it last left; while it is on the list its link is not replaced;   *)
(* and it leaves only by its link, which it has received.                  *)
(***************************************************************************)
CONSTANTS
    Links,      \* pairs of links to confirm and to unsubscribe
    NoLink

VARIABLES
    place,      \* "off", "asked" or "on" the list
    current,    \* the newest link
    fresh,      \* it was issued since the address last left
    issued, mailed

optInVars == <<place, current, fresh, issued, mailed>>

Init == /\ place = "off" /\ current = NoLink /\ fresh = FALSE
        /\ issued = {} /\ mailed = {}

Ask == /\ place = "off" /\ place' = "asked"
       /\ UNCHANGED <<current, fresh, issued, mailed>>

Issue == /\ place = "asked"
         /\ current' \in Links \ issued /\ issued' = issued \cup {current'}
         /\ fresh' = TRUE
         /\ UNCHANGED <<place, mailed>>

Mail == /\ \E p \in issued : mailed' = mailed \cup {p}
        /\ UNCHANGED <<place, current, fresh, issued>>

Join == /\ place = "asked" /\ fresh /\ current \in mailed
        /\ place' = "on"
        /\ UNCHANGED <<current, fresh, issued, mailed>>

Leave == /\ place # "off" /\ current \in mailed
         /\ place' = "off" /\ fresh' = FALSE
         /\ UNCHANGED <<current, issued, mailed>>

Next == Ask \/ Issue \/ Mail \/ Join \/ Leave

Spec == Init /\ [][Next]_optInVars
=============================================================================
