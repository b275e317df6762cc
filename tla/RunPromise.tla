----------------------------- MODULE RunPromise -----------------------------
(***************************************************************************)
(* What the agent runs of one case promise to the rest of the system,      *)
(* without jobs, requests, crashes or traces: a run is reserved only when  *)
(* no other is running, its version collects artifacts until it is sealed  *)
(* or the run ends, and the run ends once, as a success only when sealed.  *)
(* RunLifecycle implements this specification.                             *)
(***************************************************************************)
EXTENDS Naturals

CONSTANT MaxRuns

VARIABLES outcome,  (* how the run stands                                   *)
          sealed,   (* runs whose version takes no further artifact         *)
          content   (* the artifact writes of each version                  *)

promise == <<outcome, sealed, content>>

Runs == 1..MaxRuns
Open(r) == outcome[r] = "running" /\ r \notin sealed

Init ==
  /\ outcome = [r \in Runs |-> "absent"]
  /\ sealed = {}
  /\ content = [r \in Runs |-> {}]

Reserve(r) ==
  /\ outcome[r] = "absent"
  /\ \A s \in Runs : outcome[s] # "running"
  /\ outcome' = [outcome EXCEPT ![r] = "running"]
  /\ UNCHANGED <<sealed, content>>

(* A version gains an artifact and loses none; the last one seals it.  What *)
(* the new artifact is, is left to the implementation.                     *)
Write(r) ==
  /\ Open(r)
  /\ content[r] \subseteq content'[r] /\ content'[r] # content[r]
  /\ content' = [content EXCEPT ![r] = content'[r]]
  /\ sealed' \in {sealed, sealed \cup {r}}
  /\ sealed' # sealed => content[r] # {}
  /\ UNCHANGED outcome

End(r) ==
  /\ outcome[r] = "running"
  /\ \E o \in {"success", "failed", "stopped"} :
        /\ o = "success" => r \in sealed
        /\ outcome' = [outcome EXCEPT ![r] = o]
  /\ UNCHANGED <<sealed, content>>

(* A success is withdrawn when its trace could not be kept.                *)
Withdraw(r) ==
  /\ outcome[r] = "success"
  /\ outcome' = [outcome EXCEPT ![r] = "failed"]
  /\ UNCHANGED <<sealed, content>>

Next == \E r \in Runs : Reserve(r) \/ Write(r) \/ End(r) \/ Withdraw(r)

Spec == Init /\ [][Next]_promise
=============================================================================
