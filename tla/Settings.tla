------------------------------ MODULE Settings ------------------------------
(***************************************************************************)
(* What config.Bind promises to the program that hands it a receiver: it   *)
(* either fails, and leaves the receiver alone from then on, or returns    *)
(* with a value in every field a source serves; from then on the fields    *)
(* follow their sources one at a time, each to a version its source has    *)
(* had and never back to an older one, and nothing else touches them.      *)
(* A loose field may be reset instead: what its source holds can be of no  *)
(* use to it without being an error.                                       *)
(***************************************************************************)
EXTENDS Naturals

CONSTANTS Params,  \* fields of the receiver
          Loose    \* fields that a useless value resets

VARIABLES phase,   \* of the call of Bind: binding, bound or failed
          served,  \* fields that have a source
          offered, \* the newest version at each field's source
          value    \* version in each field, 0 for none

vars == <<phase, served, offered, value>>

Init ==
  /\ phase = "binding"
  /\ served \in SUBSET Params
  /\ offered = [p \in Params |-> 1]
  /\ value = [p \in Params |-> 0]

Offer(p) ==
  /\ offered' = [offered EXCEPT ![p] = @ + 1]
  /\ UNCHANGED <<phase, served, value>>

\* Bind gives some fields what their source holds now, and may fail on others.
Load(ps) ==
  /\ phase = "binding"
  /\ ps \subseteq served
  /\ \E reset \in SUBSET (ps \cap Loose) :
       value' = [p \in Params |-> IF p \in reset THEN 0
                                  ELSE IF p \in ps THEN offered[p] ELSE value[p]]
  /\ phase' \in {"binding", "failed"}
  /\ UNCHANGED <<served, offered>>

Return ==
  /\ phase = "binding"
  /\ \A p \in served : value[p] # 0 \/ p \in Loose
  /\ phase' = "bound"
  /\ UNCHANGED <<served, offered, value>>

\* A field follows its source, if not always to the newest version.
Follow(p) ==
  /\ phase = "bound"
  /\ p \in served
  /\ \E v \in 0..offered[p] :
       /\ v >= value[p] \/ (v = 0 /\ p \in Loose)
       /\ value' = [value EXCEPT ![p] = v]
  /\ UNCHANGED <<phase, served, offered>>

Next ==
  \/ \E p \in Params : Offer(p) \/ Follow(p)
  \/ \E ps \in SUBSET Params : Load(ps)
  \/ Return

Spec == Init /\ [][Next]_vars
=============================================================================
