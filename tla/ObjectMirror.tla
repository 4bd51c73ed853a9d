---------------------------- MODULE ObjectMirror ----------------------------
(***************************************************************************)
(* What the serial link promises to applications that take turns: every    *)
(* object exists once on each side; while nobody has written it the two    *)
(* copies are the same; a write changes the writer's copy, then the other  *)
(* copy becomes that version and no other, and only then is the object     *)
(* free to be written again.                                               *)
(***************************************************************************)
EXTENDS Integers

CONSTANTS Ids, Sides, Peer(_), FirstOwner, MaxWrites

VARIABLES
  copy,     \* version of each side's copy of each object
  writer,   \* the side whose write of the object is not yet mirrored, or "none"
  owner     \* the side that may write the object next

mirrorVars == <<copy, writer, owner>>

Init ==
  /\ copy = [s \in Sides |-> [j \in Ids |-> 0]]
  /\ writer = [j \in Ids |-> "none"]
  /\ owner = FirstOwner

\* A write makes a version neither copy of any object had before.
Write(s, j) ==
  /\ writer[j] = "none" /\ owner[j] = s
  /\ \E v \in 1 .. MaxWrites :
       /\ \A r \in Sides, k \in Ids : copy[r][k] < v
       /\ copy' = [copy EXCEPT ![s][j] = v]
  /\ writer' = [writer EXCEPT ![j] = s]
  /\ UNCHANGED owner

\* The other copy follows; more of the object may still be on its way.
Carry(s, j) ==
  /\ writer[j] = s /\ copy[Peer(s)][j] # copy[s][j]
  /\ copy' = [copy EXCEPT ![Peer(s)][j] = copy[s][j]]
  /\ UNCHANGED <<writer, owner>>

\* All of the object has arrived: it is the other side's turn.
Arrive(s, j) ==
  /\ writer[j] = s
  /\ copy' = [copy EXCEPT ![Peer(s)][j] = copy[s][j]]
  /\ writer' = [writer EXCEPT ![j] = "none"]
  /\ owner' = [owner EXCEPT ![j] = Peer(s)]

Next == \E s \in Sides, j \in Ids : Write(s, j) \/ Carry(s, j) \/ Arrive(s, j)

Spec == Init /\ [][Next]_mirrorVars

\* A copy only moves on to later versions.
Advance == \A s \in Sides, j \in Ids : copy'[s][j] >= copy[s][j]

\* An object nobody has written since it arrived is the same on both sides.
Agree == \A j \in Ids : writer[j] = "none" => \A s, r \in Sides : copy[s][j] = copy[r][j]

=============================================================================
