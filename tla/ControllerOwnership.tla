------------------------ MODULE ControllerOwnership ------------------------
(***************************************************************************)
(* What the session table promises, without saying how: every controller   *)
(* has one owner at a time, the table or a path of the code, and only the  *)
(* path that owns a controller takes it apart.  A controller a path takes  *)
(* from the table never goes back there, and one that is gone stays gone.  *)
(***************************************************************************)
CONSTANTS Paths, Controllers

VARIABLE owner   \* per controller, "unborn", "table", "gone" or a path

Init == owner = [c \in Controllers |-> "unborn"]

\* A path makes a controller, which is its own until it is recorded.
Make(p, c) ==
    /\ owner[c] = "unborn"
    /\ owner' = [owner EXCEPT ![c] = p]

\* It records the controller, in an entry of its own or in place of another
\* one's, which is then the path's to take apart.
Record(p, c) ==
    /\ owner[c] = p
    /\ owner' = [owner EXCEPT ![c] = "table"]

Replace(p, c, d) ==
    /\ owner[c] = p
    /\ owner[d] = "table"
    /\ owner' = [owner EXCEPT ![c] = "table", ![d] = p]

\* A path claims some of what the table owns.
Claim(p, D) ==
    /\ \A c \in D : owner[c] = "table"
    /\ owner' = [c \in Controllers |-> IF c \in D THEN p ELSE owner[c]]

\* The path that owns a controller destroys it.
Destroy(p, c) ==
    /\ owner[c] = p
    /\ owner' = [owner EXCEPT ![c] = "gone"]

Next ==
    \E p \in Paths :
        \/ \E c \in Controllers : Make(p, c) \/ Record(p, c) \/ Destroy(p, c)
        \/ \E c, d \in Controllers : Replace(p, c, d)
        \/ \E D \in SUBSET Controllers : Claim(p, D)

Spec == Init /\ [][Next]_owner
=============================================================================
