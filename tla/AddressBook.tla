----------------------------- MODULE AddressBook -----------------------------
(* What the store of shop addresses promises for one address: nobody loses  *)
(* an address that is held, and an address that was bought is its owner's   *)
(* for good.  TenantSlugs implements it as long as no operation overruns    *)
(* its time.                                                                *)
CONSTANTS Accounts, Nobody

VARIABLES
    owner,    \* the account the address was last given to, or Nobody
    state     \* "free", "held" by an unpaid order, or "owned"

vars == <<owner, state>>

TypeOK ==
    /\ owner \in Accounts \cup {Nobody}
    /\ state \in {"free", "held", "owned"}

Init == owner = Nobody /\ state = "free"

\* An account takes a free address; the reservation may have lapsed already.
Take(a) ==
    /\ state = "free"
    /\ owner' = a
    /\ state' \in {"free", "held"}

\* The holder holds on to the address, or lets the reservation lapse.
Keep ==
    /\ state # "owned"
    /\ owner # Nobody
    /\ owner' = owner
    /\ state' \in {"free", "held"}

\* The last holder pays.  A late payment wins unless somebody took the address.
Buy ==
    /\ owner # Nobody
    /\ owner' = owner
    /\ state' = "owned"

Next == (\E a \in Accounts : Take(a)) \/ Keep \/ Buy

Spec == Init /\ [][Next]_vars
=============================================================================
