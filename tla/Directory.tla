------------------------------ MODULE Directory ------------------------------
(***************************************************************************)
(* What accounts promise of a verified contact: it leads to the account that *)
(* holds it, or to a new one when nobody does; an account can exchange its   *)
(* contact for one that nobody else holds.                                   *)
(***************************************************************************)
CONSTANTS Contacts, AccountIds, Nobody

VARIABLES
    holder,     \* the account that holds each contact, or Nobody
    answer      \* [contact, who] of the last sign-in, or None

None == [contact |-> Nobody, who |-> Nobody]

Held(a) == \E c \in Contacts : holder[c] = a

SignIn(c) ==
    /\ IF holder[c] # Nobody
       THEN UNCHANGED holder
       ELSE \E a \in AccountIds : ~Held(a) /\ holder' = [holder EXCEPT ![c] = a]
    /\ answer' = [contact |-> c, who |-> holder'[c]]

\* The account a gives up the contact it had for c.
Move(a, c) ==
    /\ holder[c] \in {Nobody, a}
    /\ holder' = [x \in Contacts |->
           IF x = c THEN a ELSE IF holder[x] = a THEN Nobody ELSE holder[x]]
    /\ answer' = None

\* Something that concerns no contact, or a request that was refused.
Other == UNCHANGED holder /\ answer' = None

\* The process ends, and with it what it remembers.
Forget == holder' = [c \in Contacts |-> Nobody] /\ answer' = None

Init == holder = [c \in Contacts |-> Nobody] /\ answer = None

Next ==
    \/ \E c \in Contacts : SignIn(c) \/ \E a \in AccountIds : Move(a, c)
    \/ Other
    \/ Forget

Spec == Init /\ [][Next]_<<holder, answer>>
=============================================================================
