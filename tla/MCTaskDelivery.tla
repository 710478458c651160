--------------------------- MODULE MCTaskDelivery ---------------------------
(* Small instances of TaskDelivery for TLC. *)
EXTENDS TaskDelivery

Replayed == <<"instance.start">>
NotReplayedType == <<"instance.command">>
Mixed == <<"instance.start", "instance.command">>
=============================================================================
