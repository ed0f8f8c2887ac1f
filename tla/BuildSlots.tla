----------------------------- MODULE BuildSlots -----------------------------
(***************************************************************************)
(* What the build scheduler promises, with no mutex, channel or context in *)
(* sight: a pool of Limit build slots handed out in arrival order.         *)
(* A deployment joins; it is admitted at once when a slot is free and      *)
(* nobody is queued, and waits otherwise.  A waiting deployment may leave. *)
(* A slot that comes free goes to the head of the line in the same step,   *)
(* so a free slot and a waiting deployment never coexist.                  *)
(***************************************************************************)
EXTENDS Naturals, Sequences, FiniteSets

CONSTANTS Deployments,  (* the deployments that ask for a build slot     *)
          Limit         (* how many builds may run at the same time      *)

VARIABLES holders,      (* the deployments that own a slot               *)
          line          (* the deployments that wait, oldest first       *)

slotVars == <<holders, line>>

Waiting == {line[i] : i \in DOMAIN line}

Init == holders = {} /\ line = <<>>

(* A deployment asks for a slot. *)
Join(d) ==
  /\ d \notin holders \cup Waiting
  /\ IF Cardinality(holders) < Limit
       THEN holders' = holders \cup {d} /\ UNCHANGED line
       ELSE line' = Append(line, d) /\ UNCHANGED holders

(* A waiting deployment gives up; the others keep their order. *)
Leave(d) ==
  /\ \E i \in DOMAIN line :
       /\ line[i] = d
       /\ line' = SubSeq(line, 1, i - 1) \o SubSeq(line, i + 1, Len(line))
  /\ UNCHANGED holders

(* A slot is handed back, and on to the oldest waiting deployment. *)
Free(d) ==
  /\ d \in holders
  /\ IF line = <<>>
       THEN holders' = holders \ {d} /\ UNCHANGED line
       ELSE /\ holders' = (holders \ {d}) \cup {Head(line)}
            /\ line' = Tail(line)

Next == \E d \in Deployments : Join(d) \/ Leave(d) \/ Free(d)

Spec == Init /\ [][Next]_slotVars
=============================================================================
