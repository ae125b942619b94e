--------------------------- MODULE MCNotification --------------------------
(* Model-checking instance of Notification: an event that was published      *)
(* twice under its id, and one message of each other type.                   *)
EXTENDS Notification

Message(type, id) == [type |-> type, id |-> id]

MCTopic == <<Message("relevant", "e1"), Message("relevant", "e1"), Message("other", "e2"),
             Message("unusable", "e2"), Message("undecodable", "e2"), Message("fatal", "e2")>>
=============================================================================
