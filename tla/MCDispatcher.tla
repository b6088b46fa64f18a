---------------------------- MODULE MCDispatcher ----------------------------
(***************************************************************************)
(* Instances of Dispatcher for TLC.                                        *)
(***************************************************************************)
EXTENDS Dispatcher

MCFirst == {0}   \* the first queue is created suspended, like OUTBOUND
MCNone == {}

=============================================================================
