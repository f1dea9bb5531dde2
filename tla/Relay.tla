------------------------------- MODULE Relay -------------------------------
(***************************************************************************)
(* What a relay promises, whichever package provides it: a client (left)   *)
(* arrives, the onward connection (right) is made for it at most once, and *)
(* when one end is gone the other follows.  The CONNECT tunnel of          *)
(* packages/http-proxy and the upgrade relay of packages/ws-proxy are      *)
(* shown to implement it.                                                  *)
(***************************************************************************)

VARIABLES
    left,               \* the end towards the client
    right               \* the end towards the remote host

End == {"none", "open", "gone"}

Init == left = "none" /\ right = "none"

Arrive == left = "none" /\ left' = "open" /\ UNCHANGED right

(* The onward connection is made, for a client that is there or was.       *)
Reach == left # "none" /\ right = "none" /\ right' = "open" /\ UNCHANGED left

Leaves(end, next) == next = end \/ (end = "open" /\ next = "gone")

(* One end leaves, or both at once.                                        *)
Leave == Leaves(left, left') /\ Leaves(right, right')

Next == Arrive \/ Reach \/ Leave

Safe == Init /\ [][Next]_<<left, right>>

(* The client that waits gets its onward connection or is sent away.       *)
Served == left = "open" /\ right = "none" ~> right # "none" \/ left = "gone"

(* An end does not stay behind when the other is gone.                     *)
RightFollows == left = "gone" /\ right = "open" ~> right = "gone"
LeftFollows == left = "open" /\ right = "gone" ~> left = "gone"

Follows == RightFollows /\ LeftFollows
=============================================================================
