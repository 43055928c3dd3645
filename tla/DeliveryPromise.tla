-------------------------- MODULE DeliveryPromise --------------------------
(***************************************************************************)
(* What the outbox of a server that stays up promises of the activities    *)
(* submitted to it, without workers, tables or retries.                    *)
(*                                                                         *)
(* An activity is open from its submission on.  While it is open, or has   *)
(* been given up, it may reach peers, any number of times.  It is closed   *)
(* only when it has reached every peer that was followed at its            *)
(* submission; nothing happens to it after that.  An activity that was     *)
(* given up may be opened again.                                           *)
(***************************************************************************)

CONSTANTS Rows, Peers

VARIABLES
  phase,     \* of each activity: "none", "open", "gaveUp" or "closed"
  audience,  \* the peers followed when the activity was submitted
  reached    \* pairs <<activity, peer>> whose message arrived

vars == <<phase, audience, reached>>

Init ==
  /\ phase = [r \in Rows |-> "none"]
  /\ audience = [r \in Rows |-> {}]
  /\ reached = {}

Submit(r, A) ==
  /\ phase[r] = "none"
  /\ phase' = [phase EXCEPT ![r] = "open"]
  /\ audience' = [audience EXCEPT ![r] = A]
  /\ UNCHANGED reached

\* Peers that joined after the submission may be reached too.
Reach(r, p) ==
  /\ phase[r] \in {"open", "gaveUp"}
  /\ reached' = reached \cup {<<r, p>>}
  /\ UNCHANGED <<phase, audience>>

GiveUp(r) ==
  /\ phase[r] = "open"
  /\ phase' = [phase EXCEPT ![r] = "gaveUp"]
  /\ UNCHANGED <<audience, reached>>

\* Activities are taken up in batches.
Reopen(S) ==
  /\ \A r \in S : phase[r] = "gaveUp"
  /\ phase' = [r \in Rows |-> IF r \in S THEN "open" ELSE phase[r]]
  /\ UNCHANGED <<audience, reached>>

Close(r) ==
  /\ phase[r] = "open"
  /\ \A p \in audience[r] : <<r, p>> \in reached
  /\ phase' = [phase EXCEPT ![r] = "closed"]
  /\ UNCHANGED <<audience, reached>>

Next ==
  \/ \E r \in Rows, A \in SUBSET Peers : Submit(r, A)
  \/ \E r \in Rows, p \in Peers : Reach(r, p)
  \/ \E r \in Rows : GiveUp(r)
  \/ \E S \in SUBSET Rows : Reopen(S)
  \/ \E r \in Rows : Close(r)

Spec == Init /\ [][Next]_vars
=============================================================================
