------------------------ MODULE NotificationPromise ------------------------
(***************************************************************************)
(* What docs/notifications.md promises of trade messages.  Fills commit    *)
(* one by one; a channel hears of them in messages, each about an interval *)
(* of fills.  It never hears of a fill twice, nor of an earlier fill after *)
(* a later one.  It may never hear of some: nothing is sent again.         *)
(***************************************************************************)
EXTENDS Integers, Sequences

CONSTANT Channels

VARIABLES
  fills,  \* the last committed fill
  heard   \* [Channels -> sequence of messages], what has reached a channel

vars == <<fills, heard>>

Init == fills = 0 /\ heard = [c \in Channels |-> << >>]

Commit == fills' = fills + 1 /\ UNCHANGED heard

Tell(c, m) ==
  /\ m.first <= m.last /\ m.last <= fills
  /\ \A k \in DOMAIN heard[c] : heard[c][k].last < m.first
  /\ heard' = [heard EXCEPT ![c] = Append(@, m)]
  /\ UNCHANGED fills

Next ==
  \/ Commit
  \/ \E c \in Channels, first, last \in 1 .. fills :
       Tell(c, [first |-> first, last |-> last])
Spec == Init /\ [][Next]_vars
=============================================================================
