--------------------------- MODULE MCRequestInbox ---------------------------
(* Small inboxes for TLC: the number of a request says what it asks for.   *)
EXTENDS RequestInboxProperties, TLC

KindByNumber ==
  [r \in Requests |-> <<"command", "stop", "kill", "permission", "unreadable">>[r]]

=============================================================================
