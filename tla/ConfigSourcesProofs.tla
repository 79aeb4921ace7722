------------------------- MODULE ConfigSourcesProofs -------------------------
(***************************************************************************)
(* Proofs about ConfigSources: its type invariant, that later files        *)
(* override earlier ones whatever is edited meanwhile, and that the        *)
(* cluster's value is preferred in whatever order the store answers.       *)
(***************************************************************************)
EXTENDS ConfigSources, TLAPS

USE FilesAssumption, OverridesAssumption, NamesAssumption

(* What the files read so far have determined: nothing comes from a file   *)
(* that has not been read or never had it, and no file that had it         *)
(* throughout is overridden by an earlier one.                             *)
FilesInv ==
  pc = "files" =>
    \A p \in Params :
      /\ steady[p] \subseteq Having(p) /\ Having(p) \subseteq ever[p]
      /\ values[p] \in ever[p] \cup {0}
      /\ \A i \in steady[p] : i < next => values[p] >= i
      /\ values[p] < next

(* What the names seen so far have determined.                             *)
PreferredIn(p, S) ==
  IF InCluster /\ ClusterName[p] \in S THEN Cluster
    ELSE IF ServiceName[p] \in S THEN Service ELSE 0

NamesInv ==
  pc = "names" => \A p \in Params : values[p] = PreferredIn(p, found \ answer)

SourcesInv == TypeOK /\ FilesInv /\ NamesInv /\ FilesOverride /\ ClusterPreferred

\* Having is a set of files, in this state and in the next.
LEMMA HavingFiles ==
  \A p \in Params : /\ Having(p) \subseteq 1..Files
                    /\ Having(p)' \subseteq 1..Files
  BY DEF Having

\* An edit changes what files have; a call remembers what they had throughout
\* and what they had at all.
LEMMA EditKeeps ==
  ASSUME SourcesInv, NEW i \in 1..Files, NEW content \in Contents, Edit(i, content)
  PROVE  SourcesInv'
  <1>1. TypeOK'
    BY HavingFiles DEF SourcesInv, TypeOK, Edit, Waiting
  <1>2. \A p \in Params : /\ steady'[p] = steady[p] \cap Having(p)'
                          /\ ever'[p] = ever[p] \cup Having(p)'
    BY DEF Edit
  <1>3. FilesInv'
    BY <1>2 DEF SourcesInv, FilesInv, Edit
  <1>4. FilesOverride'
    BY <1>2 DEF SourcesInv, FilesOverride, Edit
  <1>5. NamesInv' /\ ClusterPreferred'
    BY DEF SourcesInv, NamesInv, ClusterPreferred, Preferred, PreferredIn, Edit
  <1> QED BY <1>1, <1>3, <1>4, <1>5 DEF SourcesInv

\* A call of localSource.GetParameters starts with no values.
LEMMA LocalStartsKeeps ==
  ASSUME SourcesInv, LocalStarts
  PROVE  SourcesInv'
  <1>1. \A p \in Params : Having(p)' = Having(p)
    BY DEF LocalStarts, Having, Has
  <1>2. TypeOK'
    BY HavingFiles DEF SourcesInv, TypeOK, LocalStarts, Waiting, Nothing
  <1>3. FilesInv'
    <2> SUFFICES ASSUME NEW p \in Params
                 PROVE  /\ (steady[p] \subseteq Having(p) /\ Having(p) \subseteq ever[p])'
                        /\ (values[p] \in ever[p] \cup {0})'
                        /\ (\A i \in steady[p] : i < next => values[p] >= i)'
                        /\ (values[p] < next)'
      BY DEF FilesInv
    <2>1. values'[p] = 0 /\ next' = 1
      BY DEF LocalStarts, Nothing
    <2>2. steady'[p] = Having(p) /\ ever'[p] = Having(p)
      BY DEF LocalStarts
    <2> QED BY <1>1, <2>1, <2>2, HavingFiles
  <1>4. NamesInv' /\ FilesOverride' /\ ClusterPreferred'
    BY DEF LocalStarts, NamesInv, FilesOverride, ClusterPreferred
  <1> QED BY <1>2, <1>3, <1>4 DEF SourcesInv

\* A file gives values to the parameters it has now, over those of earlier files.
LEMMA ReadFileKeeps ==
  ASSUME SourcesInv, ReadFile
  PROVE  SourcesInv'
  <1>1. TypeOK'
    BY DEF SourcesInv, TypeOK, ReadFile, Waiting
  <1>2. \A p \in Params : Having(p)' = Having(p)
    BY DEF ReadFile, Having, Has
  <1>3. FilesInv'
    <2> SUFFICES ASSUME NEW p \in Params
                 PROVE  /\ (steady[p] \subseteq Having(p) /\ Having(p) \subseteq ever[p])'
                        /\ (values[p] \in ever[p] \cup {0})'
                        /\ (\A i \in steady[p] : i < next => values[p] >= i)'
                        /\ (values[p] < next)'
      BY DEF FilesInv
    <2>1. /\ steady[p] \subseteq Having(p) /\ Having(p) \subseteq ever[p]
          /\ values[p] \in ever[p] \cup {0}
          /\ \A i \in steady[p] : i < next => values[p] >= i
          /\ values[p] < next
      BY DEF SourcesInv, FilesInv, ReadFile
    <2>2. /\ steady'[p] = steady[p] /\ ever'[p] = ever[p] /\ next' = next + 1
          /\ next \in 1..Files /\ values[p] \in Nat /\ steady[p] \subseteq 1..Files
      BY DEF SourcesInv, TypeOK, ReadFile
    <2>3. CASE Has(next, p)
      <3>1. values'[p] = next /\ next \in Having(p)
        BY <2>2, <2>3 DEF ReadFile, Having
      <3> QED BY <1>2, <2>1, <2>2, <3>1
    <2>4. CASE ~ Has(next, p)
      <3>1. values'[p] = values[p] /\ next \notin steady[p]
        BY <2>1, <2>4 DEF ReadFile, Having
      <3> QED BY <1>2, <2>1, <2>2, <3>1
    <2> QED BY <2>3, <2>4
  <1>4. NamesInv' /\ FilesOverride' /\ ClusterPreferred'
    BY DEF ReadFile, NamesInv, FilesOverride, ClusterPreferred
  <1> QED BY <1>1, <1>3, <1>4 DEF SourcesInv

\* The environment ends the call; every file has been read by then.
LEMMA ReadEnvKeeps ==
  ASSUME SourcesInv, ReadEnv
  PROVE  SourcesInv'
  <1>1. TypeOK'
    BY DEF SourcesInv, TypeOK, ReadEnv, Waiting, Env
  <1>2. FilesOverride'
    <2> SUFFICES ASSUME NEW p \in Params
                 PROVE  IF p \in Overridden
                          THEN values'[p] = Env
                          ELSE /\ values'[p] \in ever'[p] \cup {0}
                               /\ \A i \in steady'[p] : values'[p] >= i
      BY DEF FilesOverride
    <2>1. steady'[p] = steady[p] /\ ever'[p] = ever[p]
      BY DEF ReadEnv
    <2>2. values[p] \in ever[p] \cup {0} /\ \A i \in steady[p] : i < next => values[p] >= i
      BY DEF SourcesInv, FilesInv, ReadEnv
    <2>3. \A i \in steady[p] : i < next
      BY DEF SourcesInv, TypeOK, ReadEnv
    <2>4. values'[p] = IF p \in Overridden THEN Env ELSE values[p]
      BY DEF ReadEnv
    <2> QED BY <2>1, <2>2, <2>3, <2>4
  <1>3. FilesInv' /\ NamesInv' /\ ClusterPreferred'
    BY DEF ReadEnv, FilesInv, NamesInv, ClusterPreferred
  <1> QED BY <1>1, <1>2, <1>3 DEF SourcesInv

\* A call of awsSSMSource.GetParameters starts with all of the answer to be seen.
LEMMA SSMStartsKeeps ==
  ASSUME SourcesInv, SSMStarts
  PROVE  SourcesInv'
  <1>1. Asked \subseteq Names
    BY DEF Asked
  <1>2. TypeOK'
    BY <1>1 DEF SourcesInv, TypeOK, SSMStarts, Waiting, Nothing
  <1>3. NamesInv'
    BY DEF SSMStarts, NamesInv, PreferredIn, Nothing
  <1>4. FilesInv' /\ FilesOverride' /\ ClusterPreferred'
    BY DEF SSMStarts, FilesInv, FilesOverride, ClusterPreferred
  <1> QED BY <1>2, <1>3, <1>4 DEF SourcesInv

\* Another name of the answer changes each parameter as if it had been seen in
\* any other order.
LEMMA SeeNameKeeps ==
  ASSUME SourcesInv, SeeName
  PROVE  SourcesInv'
  <1> PICK n \in answer : SetByName(n) /\ answer' = answer \ {n}
    BY DEF SeeName
  <1>1. TypeOK'
    <2>1. values' \in [Params -> Nat]
      BY DEF SourcesInv, TypeOK, SetByName, Service, Cluster
    <2> QED BY <2>1 DEF SourcesInv, TypeOK, SeeName, Waiting
  <1>2. NamesInv'
    <2> SUFFICES ASSUME NEW p \in Params
                 PROVE  values'[p] = PreferredIn(p, found' \ answer')
      BY DEF NamesInv
    <2>1. values[p] = PreferredIn(p, found \ answer)
      BY DEF SourcesInv, NamesInv, SeeName
    <2>2. found' \ answer' = (found \ answer) \cup {n}
      BY DEF SourcesInv, TypeOK, SeeName
    <2>3. values'[p] = IF InCluster /\ ClusterName[p] = n
                         THEN Cluster
                         ELSE IF ServiceName[p] = n /\ values[p] < Service
                                THEN Service ELSE values[p]
      BY DEF SetByName
    <2>4. CASE InCluster /\ ClusterName[p] = n
      BY <2>2, <2>3, <2>4 DEF PreferredIn, Cluster, Service
    <2>5. CASE ~(InCluster /\ ClusterName[p] = n) /\ ServiceName[p] = n
      BY <2>1, <2>2, <2>3, <2>5 DEF PreferredIn, Cluster, Service
    <2>6. CASE ~(InCluster /\ ClusterName[p] = n) /\ ServiceName[p] # n
      BY <2>1, <2>2, <2>3, <2>6 DEF PreferredIn, Cluster, Service
    <2> QED BY <2>4, <2>5, <2>6
  <1>3. FilesInv' /\ FilesOverride' /\ ClusterPreferred'
    BY DEF SeeName, FilesInv, FilesOverride, ClusterPreferred
  <1> QED BY <1>1, <1>2, <1>3 DEF SourcesInv

\* The loop ends when all of the answer has been seen.
LEMMA SSMDoneKeeps ==
  ASSUME SourcesInv, SSMDone
  PROVE  SourcesInv'
  <1>1. ClusterPreferred'
    BY DEF SourcesInv, SSMDone, NamesInv, PreferredIn, Preferred, ClusterPreferred
  <1>2. TypeOK'
    BY DEF SourcesInv, TypeOK, SSMDone, Waiting
  <1>3. FilesInv' /\ NamesInv' /\ FilesOverride'
    BY DEF SSMDone, FilesInv, NamesInv, FilesOverride
  <1> QED BY <1>1, <1>2, <1>3 DEF SourcesInv

\* A call that fails answers nothing.
LEMMA FailsKeeps ==
  ASSUME SourcesInv, ReadFails \/ SSMFails
  PROVE  SourcesInv'
  <1>1. TypeOK'
    BY DEF SourcesInv, TypeOK, ReadFails, SSMFails, Waiting
  <1>2. FilesInv' /\ NamesInv' /\ FilesOverride' /\ ClusterPreferred'
    BY DEF ReadFails, SSMFails, FilesInv, NamesInv, FilesOverride, ClusterPreferred
  <1> QED BY <1>1, <1>2 DEF SourcesInv

\* What the theorems rest on.
LEMMA SourcesCorrect == Spec => []SourcesInv
  <1>1. Init => SourcesInv
    BY DEF Init, SourcesInv, TypeOK, FilesInv, NamesInv, FilesOverride, ClusterPreferred,
           Waiting, Nothing
  <1>2. SourcesInv /\ [Next]_vars => SourcesInv'
    <2> SUFFICES ASSUME SourcesInv, [Next]_vars
                 PROVE  SourcesInv'
      OBVIOUS
    <2>1. CASE \E i \in 1..Files, content \in Contents : Edit(i, content)
      BY <2>1, EditKeeps
    <2>2. CASE LocalStarts
      BY <2>2, LocalStartsKeeps
    <2>3. CASE ReadFile
      BY <2>3, ReadFileKeeps
    <2>4. CASE ReadEnv
      BY <2>4, ReadEnvKeeps
    <2>5. CASE SSMStarts
      BY <2>5, SSMStartsKeeps
    <2>6. CASE SeeName
      BY <2>6, SeeNameKeeps
    <2>7. CASE SSMDone
      BY <2>7, SSMDoneKeeps
    <2>8. CASE ReadFails \/ SSMFails
      BY <2>8, FailsKeeps
    <2>9. CASE UNCHANGED vars
      BY <2>9 DEF vars, SourcesInv, TypeOK, FilesInv, NamesInv, FilesOverride,
                  ClusterPreferred, Preferred, Having, Has
    <2> QED BY <2>1, <2>2, <2>3, <2>4, <2>5, <2>6, <2>7, <2>8, <2>9 DEF Next
  <1> QED BY <1>1, <1>2, PTL DEF Spec

(* Every reachable state has the declared types, and no answer of the      *)
(* store is left half seen (aws_ssm_source.go 99-111).                     *)
THEOREM TypeCorrect == Spec => []TypeOK
  <1>1. SourcesInv => TypeOK
    BY DEF SourcesInv
  <1> QED BY <1>1, SourcesCorrect, PTL

(* For any number of files and any edits between two reads, a file that    *)
(* has a parameter throughout is only overridden by a later file or the    *)
(* environment (local_source.go 48-79).                                    *)
THEOREM LaterFilesOverride == Spec => []FilesOverride
  <1>1. SourcesInv => FilesOverride
    BY DEF SourcesInv
  <1> QED BY <1>1, SourcesCorrect, PTL

(* For any parameters and names, and any order of the store's answer, the  *)
(* cluster's value is preferred and none is lost                           *)
(* (aws_ssm_source.go 98-111).                                             *)
THEOREM ClusterFirst == Spec => []ClusterPreferred
  <1>1. SourcesInv => ClusterPreferred
    BY DEF SourcesInv
  <1> QED BY <1>1, SourcesCorrect, PTL
=============================================================================
