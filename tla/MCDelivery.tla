------------------------------ MODULE MCDelivery ------------------------------
(* One message of the dispatcher and one of a channel.                      *)
EXTENDS Delivery, TLC

CONSTANTS n1, c1

MCTopics == <<"notifications.telegram", "TELEGRAM">>
MCTopicOf == n1 :> "notifications.telegram" @@ c1 :> "TELEGRAM"
Symmetric == Permutations(Handlers)
===============================================================================
