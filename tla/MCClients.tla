------------------------------ MODULE MCClients ------------------------------
(* A small instance of Clients for TLC. *)
EXTENDS Clients

input(s, c, t, h) ==
    [status |-> s, contactedAt |-> c, toRecontactAt |-> t, hubspotId |-> h]

MCCreates == {input("FOLLOW_UP_2", 0, Keep, k) : k \in Contacts}

MCUpdates ==
    {input(Keep, 0, Keep, Keep), input(Keep, 1, Keep, Keep), input("TALKING", 1, Keep, Keep),
     input("FOLLOW_UP_2", None, None, None)}
    \cup {input(Keep, Keep, 1, k) : k \in Contacts}

=============================================================================
