---------------------------- MODULE MCFederation ----------------------------
EXTENDS Federation, TLC

CONSTANTS e1, e2, e3, v1, v2

MCEvents == {e1, e2, e3}
\* e3 fails check_auth_rules_for_event.
MCAuthorized == {e1, e2}
\* The remote sender pushes an authorized and an unauthorized event.
MCPushed == {e1, e3}
MCJoinServers == <<v1, v2>>
\* v1's state holds an invalid event and one nobody pushes; v2's state holds
\* the pushed event, so a join and a delivery can store it concurrently.
MCRoomState == (v1 :> {e2, e3}) @@ (v2 :> {e1})
MCHistory == (v1 :> {e1, e3}) @@ (v2 :> {})
TwoSlots == {1, 2}
==============================================================================
