----------------------------- MODULE SharedLink -----------------------------
(***************************************************************************)
(* What HelixConnectionManager promises the buses of an application: for   *)
(* each backend, crypto session and batch mode one WebSocket, opened for   *)
(* the first bus, shared by the buses that follow, not reopened when it is *)
(* lost, and closed with the last bus (can_helix/bus.py and                *)
(* can_helix/connection.py, class documentation).                          *)
(***************************************************************************)
CONSTANTS
  Keys,   \* a backend, crypto session and batch mode
  Users   \* the buses

VARIABLES
  users,  \* the buses that share the WebSocket of a key
  link    \* "closed", "opening", "up" or "lost"

vars == <<users, link>>

Init ==
  /\ users = [k \in Keys |-> {}]
  /\ link = [k \in Keys |-> "closed"]

\* The first user opens the link, the others find it as it is.
Enter(k, u) ==
  /\ \A j \in Keys : u \notin users[j]
  /\ users' = [users EXCEPT ![k] = @ \cup {u}]
  /\ link' = [link EXCEPT ![k] = IF users[k] = {} THEN "opening" ELSE @]

Open(k) ==
  /\ link[k] = "opening"
  /\ link' = [link EXCEPT ![k] = "up"]
  /\ UNCHANGED users

Lose(k) ==
  /\ link[k] = "up"
  /\ link' = [link EXCEPT ![k] = "lost"]
  /\ UNCHANGED users

\* The last user closes the link.
Leave(k, u) ==
  /\ u \in users[k]
  /\ users' = [users EXCEPT ![k] = @ \ {u}]
  /\ link' = [link EXCEPT ![k] = IF users[k] = {u} THEN "closed" ELSE @]

Next ==
  \E k \in Keys :
    \/ Open(k) \/ Lose(k)
    \/ \E u \in Users : Enter(k, u) \/ Leave(k, u)

Spec == Init /\ [][Next]_vars

\* A link that is being opened is opened.
FairSpec == Spec /\ \A k \in Keys : WF_vars(Open(k))
=============================================================================
