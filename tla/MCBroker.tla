------------------------------- MODULE MCBroker -------------------------------
(* A small instance of Broker: few messages wait in the channel at any time. *)
EXTENDS Broker

CONSTANT MaxUnread

WithinBounds(unread) == Len(unread) <= MaxUnread

MCNext == Next /\ WithinBounds(chan')

MCSpec == Init /\ [][MCNext]_vars /\ Fairness

===============================================================================
