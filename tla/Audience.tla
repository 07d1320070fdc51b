------------------------------ MODULE Audience ------------------------------
(***************************************************************************)
(* What the WebSocket layer promises the services that broadcast through   *)
(* it, with no goroutine, registry or buffer: a room has one audience, a   *)
(* connection enters it at most once, and an announcement to the room      *)
(* reaches everyone in the audience except those it drops for good.        *)
(***************************************************************************)
EXTENDS Naturals

CONSTANTS Clients,  \* connections
          Rooms,    \* room identifiers
          RoomOf    \* the room each connection is for

VARIABLES audience,  \* audience[m]: the connections in room m
          departed,  \* connections that have been in a room and left it
          heard      \* heard[c]: announcements given to c in its room, modulo 2:
                     \* enough to tell a step that reaches c from one that does not

vars == <<audience, departed, heard>>

Init ==
  /\ audience = [m \in Rooms |-> {}]
  /\ departed = {}
  /\ heard = [c \in Clients |-> 0]

Enter(c) ==
  /\ c \notin departed \cup audience[RoomOf[c]]
  /\ audience' = [audience EXCEPT ![RoomOf[c]] = @ \cup {c}]
  /\ UNCHANGED <<departed, heard>>

\* Whoever cannot take an announcement is dropped for it, never skipped.
Remove(m, out, news) ==
  /\ audience' = [audience EXCEPT ![m] = @ \ out]
  /\ departed' = departed \cup out
  /\ heard' = [c \in Clients |->
                CASE c \in out -> 0
                  [] c \in audience[m] \ out -> (heard[c] + news) % 2
                  [] OTHER -> heard[c]]

Announce(m, out) == Remove(m, out, 1)

Depart(m, out) == Remove(m, out, 0)

Next ==
  \/ \E c \in Clients : Enter(c)
  \/ \E m \in Rooms : \E out \in SUBSET audience[m] : Announce(m, out)
  \/ \E m \in Rooms : \E c \in audience[m] : Depart(m, {c})
  \/ \E m \in Rooms : Depart(m, audience[m])

Spec == Init /\ [][Next]_vars
=============================================================================
