------------------------- MODULE ConfigBindingProofs -------------------------
(***************************************************************************)
(* What ConfigBinding keeps for every receiver, every set of sources, and  *)
(* any number of changes and failures.                                     *)
(***************************************************************************)
EXTENDS ConfigBinding, TLAPS

USE DEF Entries

(* The versions on their way from a source to the receiver only get older: *)
(* a field is at most the answer at hand, the answer at most the source.   *)
Ordered ==
  /\ \A p \in Params : value[p] <= source[p].version /\ source[p].version >= 1
  /\ \A p \in DOMAIN fetched :
       /\ p \in Bound
       /\ value[p] <= fetched[p].version
       /\ fetched[p].version <= source[p].version
       /\ fetched[p].version >= 1

HasValue(p) == value[p] # 0 \/ TypeOf[p] = "bool"

(* Sources that Bind has loaded have given each of their parameters a value,*)
(* and no other parameter has one.                                         *)
Loaded ==
  /\ pc = "bind" => left = Sources /\ \A p \in Params : value[p] = 0
  /\ pc = "load" => \A p \in Params : IF SourceOf(p) \in Sources \ left
                                        THEN HasValue(p) ELSE value[p] = 0
  /\ KeepsValues

Inv == TypeOK /\ Ordered /\ Loaded

\* NeverGoesBack, of one step.
Rises ==
  \A p \in Params : value'[p] >= value[p] \/ (TypeOf[p] = "bool" /\ value'[p] = 0)

LEMMA SameTags ==
  ASSUME UNCHANGED receiver
  PROVE  /\ Bound' = Bound
         /\ \A p \in Params : SourceOf(p)' = SourceOf(p)
  BY DEF Bound, SourceOf

\* Versions are numbers, one at least, and fields are never ahead of them.
LEMMA Versions ==
  ASSUME TypeOK, Ordered, NEW p \in Params
  PROVE  /\ value[p] \in Nat /\ source[p].version \in Nat
         /\ source[p].version >= 1 /\ source[p].version # 0
         /\ value[p] <= source[p].version
  <1>1. source[p] \in Entries /\ value[p] \in Nat
    BY DEF TypeOK
  <1>2. source[p].version >= 1 /\ value[p] <= source[p].version
    BY DEF Ordered
  <1>3. QED
    BY <1>1, <1>2

LEMMA ConvertedKeeps ==
  ASSUME TypeOK, NEW p \in Params, NEW entry \in Entries
  PROVE  /\ \/ Converted(p, entry) = entry.version
            \/ Converted(p, entry) = value[p]
            \/ TypeOf[p] = "bool" /\ Converted(p, entry) = 0
         /\ entry.version \in Nat /\ value[p] \in Nat
  BY DEF Converted, MadeFalse, TypeOK

LEMMA LoadedConverted ==
  ASSUME TypeOK, NEW p \in Params, Settable(p)
  PROVE  \/ Converted(p, source[p]) = source[p].version
         \/ TypeOf[p] = "bool" /\ Converted(p, source[p]) = 0
  BY DEF Converted, MadeFalse, Settable, Good

LEMMA InvInit == Init => Inv
  <1> SUFFICES ASSUME Init PROVE Inv
    OBVIOUS
  <1>1. \A p \in Params : source[p] \in Entries /\ source[p].version = 1 /\ value[p] = 0
    <2> SUFFICES ASSUME NEW p \in Params
                 PROVE  source[p] \in Entries /\ source[p].version = 1 /\ value[p] = 0
      OBVIOUS
    <2>1. source[p] \in [version : {1}, raw : Raws] /\ value[p] = 0
      BY DEF Init
    <2>2. PICK k \in Raws : source[p] = [version |-> 1, raw |-> k]
      BY <2>1
    <2>3. QED
      BY <2>1, <2>2
  <1>2. DOMAIN fetched = {}
    BY DEF Init, Nothing
  <1>3. TypeOK
    <2>1. source \in [Params -> Entries]
      BY <1>1 DEF Init
    <2>2. QED
      BY <1>2, <2>1 DEF Init, TypeOK
  <1>4. Ordered
    BY <1>1, <1>2 DEF Ordered
  <1>5. Loaded
    BY <1>1 DEF Init, Loaded, KeepsValues
  <1>6. QED
    BY <1>3, <1>4, <1>5 DEF Inv

\* The steps of loadInitialValues.
LEMMA LoadInv ==
  ASSUME Inv, NEW s \in Sources, LoadSource(s) \/ LoadFails(s)
  PROVE  Inv' /\ Rises
  <1>t. TypeOK /\ Ordered /\ pc = "load" /\ DOMAIN fetched = {}
    BY DEF Inv, TypeOK, LoadSource, LoadFails
  <1>1. PICK ps \in SUBSET {p \in ParamsOf(s) : Settable(p)} :
          /\ Assign(ps)
          /\ LoadSource(s) => ps = ParamsOf(s)
    BY DEF LoadSource, LoadFails
  <1>2. ps \subseteq Params
    BY DEF ParamsOf
  <1>3. /\ UNCHANGED <<receiver, source, fetched, ticked>>
        /\ \A p \in Params : value'[p] = IF p \in ps THEN Converted(p, source[p]) ELSE value[p]
    BY <1>t, <1>1, <1>2 DEF Assign, LoadSource, LoadFails
  <1>4. ASSUME NEW p \in ps
        PROVE  \/ value'[p] = source[p].version
               \/ TypeOf[p] = "bool" /\ value'[p] = 0
    BY <1>t, <1>2, <1>3, LoadedConverted
  <1>5. value' \in [Params -> Nat] /\ \A p \in Params : source[p].version # 0
    <2>1. \A p \in Params : /\ source[p].version \in Nat /\ source[p].version # 0
                           /\ value[p] \in Nat
      BY <1>t, Versions
    <2>2. \A p \in Params : value'[p] \in Nat
      BY <1>3, <1>4, <2>1
    <2>3. value' = [p \in Params |-> value'[p]]
      BY <1>1 DEF Assign
    <2>4. QED
      BY <2>1, <2>2, <2>3
  <1>6. Rises
    BY <1>t, <1>2, <1>3, <1>4, <1>5, Versions DEF Rises
  <1>7. TypeOK'
    <2>1. pc' \in {"load", "failed"} /\ left' \subseteq Sources
      BY <1>t DEF TypeOK, LoadSource, LoadFails
    <2>2. QED
      BY <1>t, <1>3, <1>5, <2>1 DEF TypeOK
  <1>8. Ordered'
    <2>1. \A p \in Params : value'[p] <= source[p].version
      BY <1>t, <1>2, <1>3, <1>4, <1>5, Versions
    <2>2. DOMAIN fetched' = {} /\ source' = source
      BY <1>t, <1>3
    <2>3. \A p \in Params : source[p].version >= 1
      BY <1>t DEF Ordered
    <2>4. QED
      BY <2>1, <2>2, <2>3 DEF Ordered
  <1>9. CASE LoadFails(s)
    BY <1>6, <1>7, <1>8, <1>9 DEF LoadFails, Inv, Loaded, KeepsValues
  <1>10. CASE LoadSource(s)
    <2>1. pc' = "load" /\ left' = left \ {s} /\ ps = ParamsOf(s)
      BY <1>1, <1>10, <1>t DEF LoadSource
    <2>2. ASSUME NEW p \in Params
          PROVE  IF SourceOf(p) \in Sources \ left' THEN HasValue(p)' ELSE value'[p] = 0
      <3>1. CASE SourceOf(p) = s
        BY <1>4, <1>5, <2>1, <3>1 DEF ParamsOf, HasValue
      <3>2. CASE SourceOf(p) # s
        <4>1. value'[p] = value[p]
          BY <1>3, <2>1, <3>2 DEF ParamsOf
        <4>2. QED
          BY <1>t, <2>1, <3>2, <4>1 DEF Inv, Loaded, HasValue
      <3>3. QED
        BY <3>1, <3>2
    <2>3. \A p \in Params : SourceOf(p)' = SourceOf(p)
      BY <1>3, SameTags
    <2>4. Loaded'
      BY <2>1, <2>2, <2>3 DEF Loaded, KeepsValues
    <2>5. QED
      BY <1>6, <1>7, <1>8, <2>4 DEF Inv
  <1>11. QED
    BY <1>9, <1>10

\* The steps of the goroutine that read and set.
LEMMA RoundInv ==
  ASSUME Inv, \/ \E s \in Sources : GetParameters(s) \/ SourceFails(s)
              \/ \E p \in Params : SetParam(p)
  PROVE  Inv' /\ Rises
  <1>t. TypeOK /\ Ordered /\ KeepsValues
    BY DEF Inv, Loaded
  <1>1. ASSUME NEW s \in Sources, GetParameters(s)
        PROVE  Inv' /\ Rises
    <2>1. /\ fetched' = [p \in ParamsOf(s) |-> source[p]]
          /\ UNCHANGED <<receiver, source, value, ticked>>
          /\ pc' = "set" /\ left' \subseteq Sources
          /\ ParamsOf(s) \subseteq Bound /\ Bound \subseteq Params /\ pc = "refresh"
      BY <1>1, <1>t DEF GetParameters, ParamsOf, Bound, TypeOK
    <2>2. TypeOK'
      BY <2>1, <1>t DEF TypeOK
    <2>3. Ordered'
      BY <2>1, <1>t, SameTags DEF Ordered, TypeOK
    <2>4. QED
      BY <2>1, <2>2, <2>3, <1>t, SameTags DEF Inv, Loaded, KeepsValues, TypeOK, Rises
  <1>2. ASSUME NEW s \in Sources, SourceFails(s)
        PROVE  Inv' /\ Rises
    <2>1. /\ UNCHANGED <<receiver, source, value, pc, fetched, ticked>>
          /\ left' \subseteq Sources /\ pc = "refresh"
      BY <1>2, <1>t DEF SourceFails, TypeOK
    <2>2. QED
      BY <2>1, <1>t, SameTags DEF Inv, Loaded, KeepsValues, Ordered, TypeOK, Rises
  <1>3. ASSUME NEW p \in Params, SetParam(p)
        PROVE  Inv' /\ Rises
    <2>1. /\ p \in DOMAIN fetched /\ fetched[p] \in Entries /\ p \in Bound
          /\ value[p] <= fetched[p].version /\ fetched[p].version >= 1
          /\ fetched[p].version <= source[p].version
      BY <1>3, <1>t DEF SetParam, TypeOK, Ordered
    <2>2. /\ value' = [value EXCEPT ![p] = Converted(p, fetched[p])]
          /\ fetched' = [q \in DOMAIN fetched \ {p} |-> fetched[q]]
          /\ UNCHANGED <<receiver, source, pc, left, ticked>> /\ pc = "set"
      BY <1>3 DEF SetParam
    <2>3. /\ \A q \in Params : q # p => value'[q] = value[q]
          /\ \/ value'[p] = fetched[p].version
             \/ value'[p] = value[p]
             \/ TypeOf[p] = "bool" /\ value'[p] = 0
          /\ value' \in [Params -> Nat]
      BY <2>1, <2>2, <1>t, ConvertedKeeps DEF TypeOK
    <2>4. TypeOK'
      BY <2>1, <2>2, <2>3, <1>t DEF TypeOK
    <2>5. Ordered'
      <3>1. \A q \in Params : value'[q] <= source'[q].version /\ source'[q].version >= 1
        BY <2>1, <2>2, <2>3, <1>t DEF Ordered, TypeOK
      <3>2. \A q \in DOMAIN fetched' :
              q \in DOMAIN fetched /\ q # p /\ q \in Params
              /\ fetched'[q] = fetched[q] /\ value'[q] = value[q]
        BY <2>2, <2>3, <1>t DEF TypeOK
      <3>3. QED
        BY <3>1, <3>2, <2>2, <1>t, SameTags DEF Ordered
    <2>6. Rises
      <3>1. \A q \in Params : value[q] \in Nat /\ value'[q] \in Nat
        BY <2>3, <1>t, Versions
      <3>2. fetched[p].version \in Nat
        BY <2>1
      <3>3. QED
        BY <2>1, <2>3, <3>1, <3>2 DEF Rises
    <2>7. KeepsValues'
      <3>1. \A q \in Params : IF q \in Bound THEN HasValue(q) ELSE value[q] = 0
        BY <2>2, <1>t DEF KeepsValues, HasValue
      <3>2. HasValue(p)'
        BY <2>1, <2>3, <3>1 DEF HasValue, Ordered
      <3>3. \A q \in Params : IF q \in Bound THEN HasValue(q)' ELSE value'[q] = 0
        BY <2>1, <2>3, <3>1, <3>2 DEF HasValue
      <3>4. QED
        BY <2>2, <3>3, SameTags DEF KeepsValues, HasValue
    <2>8. QED
      BY <2>2, <2>4, <2>5, <2>6, <2>7 DEF Inv, Loaded
  <1>4. QED
    BY <1>1, <1>2, <1>3

LEMMA InvNext == Inv /\ [Next]_vars => Inv' /\ Rises
  <1> SUFFICES ASSUME Inv, [Next]_vars
               PROVE  Inv' /\ Rises
    OBVIOUS
  <1>t. TypeOK /\ Ordered
    BY DEF Inv
  <1>u. value' = value => Rises
    BY <1>t DEF TypeOK, Rises
  <1>1. CASE BindParams \/ BindFails
    <2>1. /\ UNCHANGED <<receiver, source, value, left, fetched, ticked>>
          /\ pc = "bind" /\ pc' \in {"load", "failed"}
      BY <1>1 DEF BindParams, BindFails
    <2>2. TypeOK' /\ Ordered'
      BY <2>1, <1>t, SameTags DEF TypeOK, Ordered
    <2>3. Loaded'
      BY <2>1 DEF Inv, Loaded, KeepsValues
    <2>4. QED
      BY <1>u, <2>1, <2>2, <2>3 DEF Inv
  <1>2. CASE LoadDone
    <2>1. /\ UNCHANGED <<receiver, source, value, left, fetched, ticked>>
          /\ pc = "load" /\ pc' = "select" /\ left = {}
      BY <1>2 DEF LoadDone
    <2>2. TypeOK' /\ Ordered'
      BY <2>1, <1>t, SameTags DEF TypeOK, Ordered
    <2>3. Loaded'
      BY <2>1, SameTags DEF Inv, Loaded, KeepsValues, HasValue, Bound
    <2>4. QED
      BY <1>u, <2>1, <2>2, <2>3 DEF Inv
  <1>3. CASE Refresh \/ SetDone \/ RoundDone \/ Notify \/ Stop \/ Tick
    <2>1. /\ UNCHANGED <<receiver, source, value, fetched>>
          /\ left' \subseteq Sources /\ ticked' \in BOOLEAN
          /\ pc \notin {"bind", "load", "failed"}
          /\ pc' \notin {"bind", "load", "failed", "set"} \/ pc' = pc
          /\ pc' \in {"bind", "load", "failed", "select", "refresh", "set", "notify", "stopped"}
      BY <1>3, <1>t DEF Refresh, SetDone, RoundDone, Notify, Stop, Tick, TypeOK
    <2>2. pc' # "set" => DOMAIN fetched' = {}
      BY <1>3, <1>t DEF Refresh, SetDone, RoundDone, Notify, Stop, Tick, TypeOK
    <2>3. TypeOK' /\ Ordered'
      BY <2>1, <2>2, <1>t, SameTags DEF Ordered, TypeOK
    <2>4. Loaded'
      BY <2>1, SameTags DEF Inv, Loaded, KeepsValues
    <2>5. QED
      BY <1>u, <2>1, <2>3, <2>4 DEF Inv
  <1>4. ASSUME NEW p \in Params, NEW raw \in Held[p], Changes(p, raw)
        PROVE  Inv' /\ value' = value
    <2>1. raw \in Raws
      BY BindingAssumption
    <2>2. /\ UNCHANGED <<receiver, value, pc, left, fetched, ticked>>
          /\ source' \in [Params -> Entries]
          /\ \A q \in Params : source'[q].version >= source[q].version
      BY <1>4, <2>1, <1>t DEF Changes, TypeOK
    <2>3. TypeOK' /\ Ordered'
      BY <2>2, <1>t, SameTags DEF Ordered, TypeOK
    <2>4. Loaded'
      BY <2>2, SameTags DEF Inv, Loaded, KeepsValues, HasValue
    <2>5. QED
      BY <2>2, <2>3, <2>4 DEF Inv
  <1>5. CASE UNCHANGED vars
    <2>1. Loaded'
      BY <1>5, SameTags DEF vars, Inv, Loaded, KeepsValues, HasValue
    <2>2. QED
      BY <1>5, <1>u, <2>1, <1>t, SameTags DEF vars, Inv, Ordered, TypeOK
  <1>6. QED
    BY <1>1, <1>2, <1>3, <1>4, <1>5, <1>u, LoadInv, RoundInv DEF Next, Binder

(* Every reachable state has the declared types, and an answer is at hand  *)
(* only while its parameters are set (config.go 145-166).                  *)
THEOREM TypeCorrect == Spec => []TypeOK
  <1>1. Inv => TypeOK
    BY DEF Inv
  <1>2. QED
    BY <1>1, InvInit, InvNext, PTL DEF Spec

(* Once Bind has succeeded, exactly the parameters of registered sources   *)
(* have a value, but for what bool makes false, for ever.                  *)
THEOREM ValuesKept == Spec => []KeepsValues
  <1>1. Inv => KeepsValues
    BY DEF Inv, Loaded
  <1>2. QED
    BY <1>1, InvInit, InvNext, PTL DEF Spec

(* No field goes back to an older version of its parameter.                *)
THEOREM VersionsRise == Spec => NeverGoesBack
  <1>1. Inv /\ [Next]_vars =>
          [\A p \in Params : value'[p] >= value[p]
                             \/ (TypeOf[p] = "bool" /\ value'[p] = 0)]_vars
    BY InvNext DEF Rises
  <1>2. QED
    BY <1>1, InvInit, InvNext, PTL DEF Spec, NeverGoesBack

-----------------------------------------------------------------------------
(* Bind and its goroutine implement Settings.                              *)

Offered == [p \in Params |-> source[p].version]

Loose == {p \in Params : TypeOf[p] = "bool"}

LEMMA SameBound ==
  ASSUME UNCHANGED receiver
  PROVE  Bound' = Bound
  BY SameTags

\* Fields set from their sources at the initial load.
LEMMA LoadIsLoad ==
  ASSUME Inv, NEW s \in Sources, LoadSource(s) \/ LoadFails(s)
  PROVE  \E ps \in SUBSET Params : Promise!Load(ps)
  <1>t. TypeOK /\ pc = "load"
    BY DEF Inv, LoadSource, LoadFails
  <1>1. PICK ps \in SUBSET {p \in ParamsOf(s) : Settable(p)} : Assign(ps)
    BY DEF LoadSource, LoadFails
  <1>2. /\ UNCHANGED <<receiver, source>> /\ pc' \in {"load", "failed"}
        /\ ps \subseteq Params /\ ps \subseteq Bound
    BY <1>t DEF LoadSource, LoadFails, ParamsOf, Bound
  <1> DEFINE reset == {p \in ps : ~Good(p)}
  <1>3. reset \in SUBSET (ps \cap Loose)
    BY <1>2 DEF Settable, MadeFalse, Loose
  <1>4. \A p \in ps : Converted(p, source[p]) = IF p \in reset THEN 0 ELSE Offered[p]
    BY <1>2 DEF Converted, Settable, Good, Offered
  <1>5. value' = [p \in Params |-> IF p \in reset THEN 0
                                   ELSE IF p \in ps THEN Offered[p] ELSE value[p]]
    BY <1>1, <1>2, <1>4 DEF Assign
  <1>6. Phase = "binding" /\ Phase' \in {"binding", "failed"}
    BY <1>t, <1>2 DEF Phase
  <1>7. UNCHANGED <<Bound, Offered>>
    BY <1>2, SameBound DEF Offered
  <1> HIDE DEF reset
  <1>8. Promise!Load(ps)
    BY <1>2, <1>3, <1>5, <1>6, <1>7 DEF Promise!Load, Offered, Loose
  <1>9. QED
    BY <1>2, <1>8

LEMMA SettingsStep ==
  ASSUME Inv, [Next]_vars
  PROVE  [Promise!Next]_(Promise!vars)
  <1>t. TypeOK /\ Ordered /\ Loaded
    BY DEF Inv
  <1>s. ASSUME UNCHANGED <<receiver, source, value>>, Phase' = Phase
        PROVE  UNCHANGED Promise!vars
    BY <1>s, SameBound DEF Promise!vars
  <1>1. CASE BindParams
    BY <1>1, <1>s DEF BindParams, Phase
  <1>2. CASE BindFails
    <2>1. Phase = "binding" /\ Phase' = "failed" /\ UNCHANGED <<receiver, source, value>>
      BY <1>2 DEF BindFails, Phase
    <2>2. value' = [p \in Params |-> value[p]]
      BY <2>1, <1>t DEF TypeOK
    <2>3. value' = [p \in Params |-> IF p \in {} THEN 0
                                     ELSE IF p \in {} THEN Offered[p] ELSE value[p]]
      BY <2>2
    <2>4. Promise!Load({})
      <3>1. {} \in SUBSET ({} \cap Loose)
        OBVIOUS
      <3>2. UNCHANGED <<Bound, Offered>>
        BY <2>1, SameBound DEF Offered
      <3>3. QED
        BY <2>1, <2>3, <3>1, <3>2 DEF Promise!Load, Offered, Loose
    <2>5. QED
      BY <2>4 DEF Promise!Next
  <1>3. ASSUME NEW s \in Sources, LoadSource(s) \/ LoadFails(s)
        PROVE  Promise!Next
    BY <1>3, LoadIsLoad DEF Promise!Next
  <1>4. CASE LoadDone
    <2>1. /\ pc = "load" /\ left = {} /\ pc' = "select"
          /\ UNCHANGED <<receiver, source, value>>
      BY <1>4 DEF LoadDone
    <2>2. Phase = "binding" /\ Phase' = "bound"
      BY <2>1 DEF Phase
    <2>3. \A p \in Bound : value[p] # 0 \/ p \in Loose
      BY <2>1, <1>t DEF Loaded, HasValue, Bound, Loose
    <2>4. Promise!Return
      BY <2>1, <2>2, <2>3, SameBound DEF Promise!Return, Loose
    <2>5. QED
      BY <2>4 DEF Promise!Next
  <1>5. CASE \/ Refresh \/ SetDone \/ RoundDone \/ Notify \/ Stop \/ Tick
             \/ \E s \in Sources : GetParameters(s) \/ SourceFails(s)
    <2>1. /\ UNCHANGED <<receiver, source, value>>
          /\ pc \notin {"bind", "load", "failed"} /\ pc' \notin {"bind", "load", "failed"}
      BY <1>5 DEF Refresh, SetDone, RoundDone, Notify, Stop, Tick, GetParameters,
                  SourceFails
    <2>2. QED
      BY <2>1, <1>s DEF Phase
  <1>6. ASSUME NEW p \in Params, SetParam(p)
        PROVE  Promise!Follow(p)
    <2>1. /\ p \in DOMAIN fetched /\ fetched[p] \in Entries /\ p \in Bound
          /\ value[p] <= fetched[p].version /\ fetched[p].version <= source[p].version
      BY <1>6, <1>t DEF SetParam, TypeOK, Ordered
    <2>2. /\ value' = [value EXCEPT ![p] = Converted(p, fetched[p])]
          /\ UNCHANGED <<receiver, source, pc>> /\ pc = "set"
      BY <1>6 DEF SetParam
    <2>3. Phase = "bound" /\ Phase' = "bound"
      BY <2>2 DEF Phase
    <2>4. /\ value[p] \in Nat /\ source[p].version \in Nat
          /\ value[p] <= source[p].version
      BY <1>t, Versions
    <2>5. \E v \in 0..source[p].version :
            /\ v >= value[p] \/ (v = 0 /\ p \in Loose)
            /\ value' = [value EXCEPT ![p] = v]
      <3>1. \/ Converted(p, fetched[p]) = fetched[p].version
            \/ Converted(p, fetched[p]) = value[p]
            \/ TypeOf[p] = "bool" /\ Converted(p, fetched[p]) = 0
        BY <2>1, <1>t, ConvertedKeeps
      <3>2. Converted(p, fetched[p]) \in 0..source[p].version
        BY <2>1, <2>4, <3>1
      <3>3. \/ Converted(p, fetched[p]) >= value[p]
            \/ Converted(p, fetched[p]) = 0 /\ p \in Loose
        BY <2>1, <2>4, <3>1 DEF Loose
      <3>4. QED
        BY <2>2, <3>2, <3>3
    <2>6. QED
      BY <2>1, <2>2, <2>3, <2>5, SameBound DEF Promise!Follow, Loose
  <1>7. ASSUME NEW p \in Params, NEW raw \in Held[p], Changes(p, raw)
        PROVE  Promise!Offer(p)
    <2>1. /\ UNCHANGED <<receiver, value, pc>>
          /\ source' = [source EXCEPT ![p] = [version |-> @.version + 1, raw |-> raw]]
      BY <1>7 DEF Changes
    <2>2. Offered' = [Offered EXCEPT ![p] = @ + 1]
      BY <2>1, <1>t DEF TypeOK, Offered
    <2>3. QED
      BY <2>1, <2>2, SameBound DEF Promise!Offer, Offered, Phase
  <1>8. CASE UNCHANGED vars
    BY <1>8, <1>s DEF vars, Phase
  <1>9. QED
    BY <1>1, <1>2, <1>3, <1>4, <1>5, <1>6, <1>7, <1>8 DEF Next, Binder, Promise!Next

(* For any receiver, sources, types and failures, Bind and its goroutine   *)
(* do nothing to the receiver that Settings does not allow: they give a    *)
(* field only versions its source has had, one at a time once Bind has     *)
(* returned, and leave all of them alone once it has failed.               *)
THEOREM SettingsImplemented == Spec => ImplementsSettings
  <1>1. Init => Promise!Init
    <2> SUFFICES ASSUME Init PROVE Promise!Init
      OBVIOUS
    <2>1. Offered = [p \in Params |-> 1]
      <3>1. \A p \in Params : source[p].version = 1
        BY DEF Init
      <3>2. QED
        BY <3>1 DEF Offered
    <2>2. Phase = "binding" /\ Bound \subseteq Params
      BY DEF Init, Phase, Bound
    <2>3. QED
      BY <2>1, <2>2 DEF Init, Promise!Init, Offered
  <1>2. Inv /\ [Next]_vars => [Promise!Next]_(Promise!vars)
    BY SettingsStep
  <1>3. QED
    BY <1>1, <1>2, InvInit, InvNext, PTL DEF Spec, ImplementsSettings, Promise!Spec
=============================================================================
