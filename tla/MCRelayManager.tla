---------------------------- MODULE MCRelayManager ----------------------------
(***************************************************************************)
(* A new manager, one that is registered, and one whose stake was          *)
(* withdrawn while its server was down.                                    *)
(***************************************************************************)
EXTENDS RelayManager

MCRegistered == <<"OwnerSet", "StakeAdded", "HubAuthorized", "WorkersAdded", "Registered">>
MCHistories ==
    {<<>>, MCRegistered, MCRegistered \o <<"StakeUnlocked", "StakeWithdrawn">>}
=============================================================================
