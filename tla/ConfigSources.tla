---------------------------- MODULE ConfigSources ----------------------------
(***************************************************************************)
(* GetParameters of the two sources a binding reads, one call at a time.   *)
(* localSource reads the config files in their order, each file overriding *)
(* the ones before it, and lets environment variables override them all;   *)
(* people edit the files meanwhile.  awsSSMSource asks for two names of    *)
(* each parameter at once, one for the service and one for the cluster,    *)
(* and the answer has those that exist, in no particular order.            *)
(*                                                                         *)
(* A value is told by where it comes from: the number of a file, or of a   *)
(* scope.  0 is no value.                                                  *)
(***************************************************************************)
EXTENDS Integers

CONSTANTS Params,       \* the parameters asked for
          Files,        \* number of config files, default.json first
          Absent,       \* of a file: it cannot be read
          Garbled,      \* of a file: it is not JSON
          Overridden,   \* parameters whose environment variable is not empty
          Names,        \* names of parameters in the store
          ServiceName,  \* /env/service/key of each parameter
          ClusterName,  \* /env/cluster/service/key of each parameter
          InCluster,    \* CLUSTER_NAME is not empty
          MaxEdits      \* bound: edits of files

ASSUME FilesAssumption == Files \in Nat \ {0} /\ MaxEdits \in Nat
ASSUME OverridesAssumption == Overridden \subseteq Params
ASSUME NamesAssumption ==
  /\ ServiceName \in [Params -> Names] /\ ClusterName \in [Params -> Names]
  /\ InCluster \in BOOLEAN

\* Within a scope no two parameters have the same name; a name may belong to one
\* parameter in the one scope and to another in the other.
ASSUME ScopesAssumption ==
  \A p, q \in Params : p # q => /\ ServiceName[p] # ServiceName[q]
                                /\ ClusterName[p] # ClusterName[q]

Contents == SUBSET Params \cup {Absent, Garbled}

Env == Files + 1  \* the environment, after the last file

Service == 1
Cluster == 2

VARIABLES file,    \* the parameters each file has a value of
          pc,      \* where GetParameters is, or how its last call ended
          next,    \* the file to be read next
          values,  \* the map that is answered
          answer,  \* names in the store's answer that are still to be seen
          found,   \* names that were in it
          steady,  \* files that have had each parameter throughout the call
          ever,    \* files that have had it at some time of the call
          edits    \* edits so far

vars == <<file, pc, next, values, answer, found, steady, ever, edits>>

Waiting == {"idle", "local", "ssm", "failed"}

Nothing == [p \in Params |-> 0]

Has(i, p) == file[i] \notin {Absent, Garbled} /\ p \in file[i]

Having(p) == {i \in 1..Files : Has(i, p)}

Init ==
  /\ file \in [1..Files -> Contents]
  /\ pc = "idle"
  /\ next = 1
  /\ values = Nothing
  /\ answer = {}
  /\ found = {}
  /\ steady = [p \in Params |-> {}]
  /\ ever = [p \in Params |-> {}]
  /\ edits = 0

-----------------------------------------------------------------------------
(* People write, break, remove and restore files.                          *)

Edit(i, content) ==
  /\ edits < MaxEdits
  /\ edits' = edits + 1
  /\ file[i] # content
  /\ file' = [file EXCEPT ![i] = content]
  /\ steady' = [p \in Params |-> steady[p] \cap Having(p)']
  /\ ever' = [p \in Params |-> ever[p] \cup Having(p)']
  /\ UNCHANGED <<pc, next, values, answer, found>>

-----------------------------------------------------------------------------
(* localSource.GetParameters                                               *)

LocalStarts ==
  /\ pc \in Waiting
  /\ pc' = "files"
  /\ next' = 1
  /\ values' = Nothing
  /\ steady' = [p \in Params |-> Having(p)]
  /\ ever' = [p \in Params |-> Having(p)]
  /\ UNCHANGED <<file, answer, found, edits>>

\* Mutant: a value of an earlier file stays.
ReadFileFirstWins ==
  /\ pc = "files" /\ next <= Files
  /\ file[next] # Garbled
  /\ next = 1 => file[next] # Absent
  /\ values' = [p \in Params |-> IF Has(next, p) /\ values[p] = 0 THEN next ELSE values[p]]
  /\ next' = next + 1
  /\ UNCHANGED <<file, pc, answer, found, steady, ever, edits>>

\* A file that cannot be read is passed over, but for default.json.
ReadFile ==
  /\ pc = "files" /\ next <= Files
  /\ file[next] # Garbled
  /\ next = 1 => file[next] # Absent
  /\ values' = [p \in Params |-> IF Has(next, p) THEN next ELSE values[p]]
  /\ next' = next + 1
  /\ UNCHANGED <<file, pc, answer, found, steady, ever, edits>>

ReadFails ==
  /\ pc = "files" /\ next <= Files
  /\ file[next] = Garbled \/ (next = 1 /\ file[next] = Absent)
  /\ pc' = "failed"
  /\ UNCHANGED <<file, next, values, answer, found, steady, ever, edits>>

ReadEnv ==
  /\ pc = "files" /\ next > Files
  /\ values' = [p \in Params |-> IF p \in Overridden THEN Env ELSE values[p]]
  /\ pc' = "local"
  /\ UNCHANGED <<file, next, answer, found, steady, ever, edits>>

-----------------------------------------------------------------------------
(* awsSSMSource.GetParameters                                              *)

Asked == {ServiceName[p] : p \in Params}
           \cup IF InCluster THEN {ClusterName[p] : p \in Params} ELSE {}

\* The store answers those of the names that it has.
SSMStarts ==
  /\ pc \in Waiting
  /\ \E ns \in SUBSET Asked : answer' = ns /\ found' = ns
  /\ pc' = "names"
  /\ values' = Nothing
  /\ UNCHANGED <<file, next, steady, ever, edits>>

SSMFails ==
  /\ pc \in Waiting
  /\ pc' = "failed"
  /\ UNCHANGED <<file, next, values, answer, found, steady, ever, edits>>

\* Mutant: no priorities, the last name of a parameter wins.
SetByNameLastWins(n) ==
  values' = [p \in Params |->
               IF InCluster /\ ClusterName[p] = n
                 THEN Cluster
                 ELSE IF ServiceName[p] = n THEN Service ELSE values[p]]

\* score.prio is Service or Cluster with the value itself.
SetByName(n) ==
  values' = [p \in Params |->
               IF InCluster /\ ClusterName[p] = n
                 THEN Cluster
                 ELSE IF ServiceName[p] = n /\ values[p] < Service
                        THEN Service ELSE values[p]]

SeeName ==
  /\ pc = "names"
  /\ \E n \in answer : SetByName(n) /\ answer' = answer \ {n}
  /\ UNCHANGED <<file, pc, next, found, steady, ever, edits>>

\* Mutant: the loop may end early.
SSMEndsEarly ==
  /\ pc = "names"
  /\ pc' = "ssm"
  /\ UNCHANGED <<file, next, values, answer, found, steady, ever, edits>>

SSMDone ==
  /\ pc = "names"
  /\ answer = {}
  /\ pc' = "ssm"
  /\ UNCHANGED <<file, next, values, answer, found, steady, ever, edits>>

-----------------------------------------------------------------------------
Next ==
  \/ \E i \in 1..Files, content \in Contents : Edit(i, content)
  \/ LocalStarts \/ ReadFile \/ ReadFails \/ ReadEnv
  \/ SSMStarts \/ SSMFails \/ SeeName \/ SSMDone

Spec == Init /\ [][Next]_vars

-----------------------------------------------------------------------------
(* Type invariant: nothing of the store's answer is left when the call has *)
(* ended (aws_ssm_source.go 99-111).                                       *)
TypeOK ==
  /\ file \in [1..Files -> Contents]
  /\ pc \in Waiting \cup {"files", "names"}
  /\ next \in 1..Files + 1
  /\ values \in [Params -> Nat]
  /\ answer \subseteq found /\ found \subseteq Names
  /\ pc # "names" => answer = {}
  /\ steady \in [Params -> SUBSET (1..Files)]
  /\ ever \in [Params -> SUBSET (1..Files)]
  /\ edits \in 0..MaxEdits

(* Whatever is edited between two files of a call, a parameter gets a      *)
(* value that is not overridden by a file that had it throughout, and none *)
(* that no file had (local_source.go 48-79).  Where nothing is edited that *)
(* is the value of the last file that has one.                             *)
FilesOverride ==
  pc = "local" =>
    \A p \in Params :
      IF p \in Overridden
        THEN values[p] = Env
        ELSE /\ values[p] \in ever[p] \cup {0}
             /\ \A i \in steady[p] : values[p] >= i

(* In whatever order the names are answered, and also when a name belongs  *)
(* to two parameters, the cluster's value is preferred to the service's,   *)
(* and none is lost (aws_ssm_source.go 98-111, "prefer cluster specific    *)
(* params" in its test).                                                   *)
Preferred(p) ==
  IF InCluster /\ ClusterName[p] \in found THEN Cluster
    ELSE IF ServiceName[p] \in found THEN Service ELSE 0

ClusterPreferred == pc = "ssm" => \A p \in Params : values[p] = Preferred(p)
=============================================================================
