--------------------------- MODULE MCMessageQueue ---------------------------
EXTENDS MessageQueue, TLC

CONSTANTS m1, m2

\* m1 may wait for an idle moment, m2 steers the next turn
SteeredModes == m1 :> {"next_turn", "on_idle"} @@ m2 :> {"next_turn"}
=============================================================================
