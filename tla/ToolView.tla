------------------------------ MODULE ToolView ------------------------------
(***************************************************************************)
(* What SetSessionTools of mcpcompat/server promises to the client of one  *)
(* session, which may list the tools at any moment: the session tools it   *)
(* is shown are those of one overlay, the one stored last when they were   *)
(* reconciled.  While they are, it is shown tools of the overlay they were *)
(* of before and of the new one, but none of the new one goes once it is   *)
(* there, and none of the old one before all of the new one are there.     *)
(***************************************************************************)
CONSTANTS Overlay, Visible(_)  \* overlays, and the tools of one that can be served

VARIABLES overlay,  \* the overlay stored last
          view,     \* the session tools a client is shown
          phase     \* "down": no server; "idle"; "syncing": they are being reconciled

Init == overlay \in Overlay /\ view = {} /\ phase = "down"

\* A new go-sdk server starts with the global tools only.
Connect == phase = "down" /\ phase' = "idle" /\ UNCHANGED <<overlay, view>>

Store == phase # "syncing" /\ overlay' \in Overlay /\ UNCHANGED <<view, phase>>

Begin == phase = "idle" /\ phase' = "syncing" /\ UNCHANGED <<overlay, view>>

Add ==
  /\ phase = "syncing"
  /\ \E n \in Visible(overlay) : view' = view \cup {n}
  /\ UNCHANGED <<overlay, phase>>

Settle ==
  /\ phase = "syncing" /\ phase' = "idle"
  /\ Visible(overlay) \subseteq view /\ view' = Visible(overlay)
  /\ UNCHANGED overlay

\* The session is deleted.
Close == phase' = "down" /\ view' = {} /\ UNCHANGED overlay

Next == Connect \/ Store \/ Begin \/ Add \/ Settle \/ Close

Spec == Init /\ [][Next]_<<overlay, view, phase>>

=============================================================================
