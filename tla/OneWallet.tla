------------------------------- MODULE OneWallet -------------------------------
(***************************************************************************)
(* What the wallet session promises, whatever questions, failures and      *)
(* crashes it goes through: one wallet is open at a time, it is closed     *)
(* before another one is opened, a file that exists is never made anew,    *)
(* and only the open wallet gains or loses its password.                   *)
(***************************************************************************)
CONSTANTS AllFiles, NoFile

VARIABLES
  current,   (* the file of the open wallet                                *)
  disk       (* for each file, whether it exists and what it takes to read *)

Init ==
  /\ current = NoFile
  /\ disk \in [AllFiles -> {"absent", "plain", "locked", "broken"}]

Open(f) ==
  /\ current = NoFile
  /\ disk[f] \in {"plain", "locked"}
  /\ current' = f
  /\ UNCHANGED disk

Create(f) ==
  /\ current = NoFile
  /\ disk[f] = "absent"
  /\ disk' = [disk EXCEPT ![f] = "plain"]
  /\ current' = f

ChangePassword ==
  /\ current # NoFile
  /\ \E s \in {"plain", "locked"} : disk' = [disk EXCEPT ![current] = s]
  /\ UNCHANGED current

Close ==
  /\ current' = NoFile
  /\ UNCHANGED disk

Next ==
  \/ \E f \in AllFiles : Open(f) \/ Create(f)
  \/ ChangePassword
  \/ Close

Spec == Init /\ [][Next]_<<current, disk>>
=============================================================================
