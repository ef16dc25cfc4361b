------------------------------- MODULE MCInbound -------------------------------
(***************************************************************************)
(* Two transactions: one with two mentions and one with a mention and a    *)
(* message that mentions nobody.                                           *)
(***************************************************************************)
EXTENDS MatrixInbound

CONSTANTS ask, follow, chat, later

MCMessages == {ask, follow, chat, later}
MCMentions == {ask, follow, later}
MCLog == <<<<ask, follow>>, <<chat, later>>>>

ASSUME EventsAreSentOnce
================================================================================
