---------------------------- MODULE ConfigBinding ----------------------------
(***************************************************************************)
(* config.Bind: it reads the tags of the receiver's fields, then the       *)
(* parameters of every registered source into the receiver, or fails, and  *)
(* then leaves a goroutine behind that reads them again at every tick of a *)
(* timer, while the program uses the receiver.  After each round the       *)
(* goroutine sends on a channel that only the option withSignals provides. *)
(*                                                                         *)
(* A source holds for each parameter a version of its value, counted up at *)
(* every change, and what kind of value that is.                           *)
(***************************************************************************)
EXTENDS Naturals

CONSTANTS Params,      \* fields of the receiver's groups
          Groups,      \* fields of the receiver
          TypeOf,      \* Go type of each parameter
          Receivers,   \* receivers, as their tags
          NoTag,       \* a tag that is not there
          Sources,     \* names in b.sources
          Signals,     \* TRUE with withSignals, FALSE in the commands
          Reliable,    \* sources that do not fail for ever (for fairness)
          Held,        \* bound: kinds of values the sources hold for each parameter
          MaxVersions  \* bound: changes of a parameter at its source

\* What GetParameters answers for a parameter: nothing, a string (any text, "0"
\* or "1", "true" or "false"), a JSON number, a boolean, or something else.
Raws == {"missing", "text", "digit", "truth", "number", "bool", "object"}

\* supportedParamTypes: of which kinds each type makes a value.  A number is cut
\* to an int.
Takes == [string |-> {"text", "digit", "truth"},
          int    |-> {"digit", "number"},
          bool   |-> {"digit", "truth", "bool"},
          other  |-> {}]

\* The mapper of bool has no default case, and sets what is neither a boolean
\* nor a string to false.
MadeFalse(p, raw) == TypeOf[p] = "bool" /\ raw \in {"number", "object"}

ASSUME BindingAssumption ==
  /\ Signals \in BOOLEAN
  /\ Reliable \subseteq Sources
  /\ NoTag \notin Sources
  /\ TypeOf \in [Params -> DOMAIN Takes]
  /\ Held \in [Params -> SUBSET Raws]
ASSUME BoundAssumption == MaxVersions \in Nat

Entries == [version : Nat, raw : Raws]

VARIABLES receiver, \* the receiver given to Bind: its groups' and fields' tags
          source,   \* what the sources hold (their own state)
          value,    \* version in each field of the receiver, 0 for Go's zero value
          pc,       \* where Bind and its goroutine are
          left,     \* sources the current loop has still to visit
          fetched,  \* of the source at hand: the answer for each parameter to set
          ticked    \* a tick waits in the timer's channel

vars == <<receiver, source, value, pc, left, fetched, ticked>>

\* parseTag: a field's own source, or else that of its group.
SourceOf(p) ==
  LET field == receiver.fields[p] IN
  IF field.source # NoTag THEN field.source ELSE receiver.groups[field.group].source

ParamsOf(s) == {p \in Params : SourceOf(p) = s}

Bound == {p \in Params : SourceOf(p) \in Sources}

Nothing == [p \in {} |-> 0]

Init ==
  /\ receiver \in Receivers
  /\ source \in [Params -> [version : {1}, raw : Raws]]
  /\ \A p \in Params : source[p].raw \in Held[p]
  /\ value = [p \in Params |-> 0]
  /\ pc = "bind"
  /\ left = Sources
  /\ fetched = Nothing
  /\ ticked = FALSE

-----------------------------------------------------------------------------
(* The sources change and the timer fires; a tick is dropped while another *)
(* one waits.                                                              *)

Changes(p, raw) ==
  /\ source[p].version < MaxVersions
  /\ source' = [source EXCEPT ![p] = [version |-> @.version + 1, raw |-> raw]]
  /\ UNCHANGED <<receiver, value, pc, left, fetched, ticked>>

Tick ==
  /\ pc \notin {"bind", "load", "failed"}
  /\ ticked' = TRUE
  /\ UNCHANGED <<receiver, source, value, pc, left, fetched>>

-----------------------------------------------------------------------------
(* bindParamsToReceiver: groups are exported struct pointers with a source *)
(* tag, their fields are exported and have a key.  A tag without "="       *)
(* panics, like the others fail.                                           *)

WellTagged ==
  /\ receiver.isStructPtr
  /\ \A g \in Groups :
       LET group == receiver.groups[g] IN
       group.isStructPtr /\ group.exported /\ group.source # NoTag
  /\ \A p \in Params :
       LET field == receiver.fields[p] IN field.key # NoTag /\ field.exported

BindParams ==
  /\ pc = "bind"
  /\ WellTagged
  /\ pc' = "load"
  /\ UNCHANGED <<receiver, source, value, left, fetched, ticked>>

\* A tag is not as it has to be, or an option cannot make its source.
BindFails ==
  /\ pc = "bind"
  /\ pc' = "failed"
  /\ UNCHANGED <<receiver, source, value, left, fetched, ticked>>

-----------------------------------------------------------------------------
(* loadInitialValues, before anyone else has the receiver: a source at a   *)
(* time, in any order; the first failure makes Bind fail, which ends the   *)
(* program with some fields set.                                           *)

Good(p) == source[p].raw \in Takes[TypeOf[p]]

\* What setValue leaves in the field of p, which keeps its value on an error.
Converted(p, entry) ==
  IF entry.raw \in Takes[TypeOf[p]] THEN entry.version
  ELSE IF MadeFalse(p, entry.raw) THEN 0 ELSE value[p]

Assign(ps) ==
  value' = [p \in Params |-> IF p \in ps THEN Converted(p, source[p]) ELSE value[p]]

Settable(p) == Good(p) \/ MadeFalse(p, source[p].raw)

LoadSource(s) ==
  /\ pc = "load"
  /\ s \in left
  /\ \A p \in ParamsOf(s) : Settable(p)
  /\ Assign(ParamsOf(s))
  /\ left' = left \ {s}
  /\ UNCHANGED <<receiver, source, pc, fetched, ticked>>

\* Mutant: the error of the initial load is dropped.
LoadErrorDropped(s) ==
  /\ pc = "load"
  /\ s \in left
  /\ \E ps \in SUBSET {p \in ParamsOf(s) : Settable(p)} : Assign(ps)
  /\ pc' = "select"
  /\ UNCHANGED <<receiver, source, left, fetched, ticked>>

LoadFails(s) ==
  /\ pc = "load"
  /\ s \in left
  /\ \E ps \in SUBSET {p \in ParamsOf(s) : Settable(p)} : Assign(ps)
  /\ pc' = "failed"
  /\ UNCHANGED <<receiver, source, left, fetched, ticked>>

LoadDone ==
  /\ pc = "load"
  /\ left = {}
  /\ pc' = "select"
  /\ UNCHANGED <<receiver, source, value, left, fetched, ticked>>

-----------------------------------------------------------------------------
(* startRefreshingValues: the goroutine.                                   *)

Refresh ==
  /\ pc = "select"
  /\ ticked
  /\ ticked' = FALSE
  /\ pc' = "refresh"
  /\ left' = Sources
  /\ UNCHANGED <<receiver, source, value, fetched>>

GetParameters(s) ==
  /\ pc = "refresh"
  /\ s \in left
  /\ left' = left \ {s}
  /\ fetched' = [p \in ParamsOf(s) |-> source[p]]
  /\ pc' = "set"
  /\ UNCHANGED <<receiver, source, value, ticked>>

\* An error of the source is logged, and the loop continues.
SourceFails(s) ==
  /\ pc = "refresh"
  /\ s \in left
  /\ left' = left \ {s}
  /\ UNCHANGED <<receiver, source, value, pc, fetched, ticked>>

\* Mutant: a missing value sets the zero value.
SetParamClears(p) ==
  /\ pc = "set"
  /\ p \in DOMAIN fetched
  /\ value' = [value EXCEPT ![p] =
                 IF fetched[p].raw = "missing" THEN 0 ELSE Converted(p, fetched[p])]
  /\ fetched' = [q \in DOMAIN fetched \ {p} |-> fetched[q]]
  /\ UNCHANGED <<receiver, source, pc, left, ticked>>

\* Mutant: a value of another type brings back the first one.
SetParamResets(p) ==
  /\ pc = "set"
  /\ p \in DOMAIN fetched
  /\ value' = [value EXCEPT ![p] =
                 IF fetched[p].raw \in Takes[TypeOf[p]] THEN fetched[p].version ELSE 1]
  /\ fetched' = [q \in DOMAIN fetched \ {p} |-> fetched[q]]
  /\ UNCHANGED <<receiver, source, pc, left, ticked>>

\* Mutant: only a field without a value is set.
SetParamOnce(p) ==
  /\ pc = "set"
  /\ p \in DOMAIN fetched
  /\ value' = [value EXCEPT ![p] = IF @ = 0 THEN Converted(p, fetched[p]) ELSE @]
  /\ fetched' = [q \in DOMAIN fetched \ {p} |-> fetched[q]]
  /\ UNCHANGED <<receiver, source, pc, left, ticked>>

\* The next parameter of the answer; a missing or bad value is logged, and
\* the field keeps what it has.
SetParam(p) ==
  /\ pc = "set"
  /\ p \in DOMAIN fetched
  /\ value' = [value EXCEPT ![p] = Converted(p, fetched[p])]
  /\ fetched' = [q \in DOMAIN fetched \ {p} |-> fetched[q]]
  /\ UNCHANGED <<receiver, source, pc, left, ticked>>

\* Mutant: the loop over the parameters may end early.
SetDoneEarly ==
  /\ pc = "set"
  /\ pc' = "refresh"
  /\ UNCHANGED <<receiver, source, value, left, fetched, ticked>>

SetDone ==
  /\ pc = "set"
  /\ DOMAIN fetched = {}
  /\ pc' = "refresh"
  /\ UNCHANGED <<receiver, source, value, left, fetched, ticked>>

RoundDone ==
  /\ pc = "refresh"
  /\ left = {}
  /\ pc' = "notify"
  /\ UNCHANGED <<receiver, source, value, left, fetched, ticked>>

\* b.onRefreshed <- struct{}{}: a nil channel never takes it.
Notify ==
  /\ pc = "notify"
  /\ Signals
  /\ pc' = "select"
  /\ UNCHANGED <<receiver, source, value, left, fetched, ticked>>

Stop ==
  /\ pc = "select"
  /\ Signals
  /\ pc' = "stopped"
  /\ UNCHANGED <<receiver, source, value, left, fetched, ticked>>

-----------------------------------------------------------------------------
Binder ==
  \/ BindParams
  \/ BindFails
  \/ \E s \in Sources : LoadSource(s) \/ LoadFails(s)
  \/ LoadDone
  \/ Refresh
  \/ \E s \in Sources : GetParameters(s) \/ SourceFails(s)
  \/ \E p \in Params : SetParam(p)
  \/ SetDone
  \/ RoundDone
  \/ Notify

Next ==
  \/ Binder
  \/ Stop
  \/ Tick
  \/ \E p \in Params : \E raw \in Held[p] : Changes(p, raw)

Spec == Init /\ [][Next]_vars

(***************************************************************************)
(* The goroutine runs, the timer ticks, and a reliable source answers some *)
(* of the rounds that ask it.                                              *)
(***************************************************************************)
Fairness ==
  /\ WF_vars(Binder)
  /\ WF_vars(Tick)
  /\ \A s \in Reliable : SF_vars(GetParameters(s))

FairSpec == Spec /\ Fairness

-----------------------------------------------------------------------------
(* Type invariant: an answer is at hand only while its parameters are set. *)
TypeOK ==
  /\ receiver \in Receivers
  /\ source \in [Params -> Entries]
  /\ value \in [Params -> Nat]
  /\ pc \in {"bind", "load", "failed", "select", "refresh", "set", "notify", "stopped"}
  /\ left \subseteq Sources
  /\ DOMAIN fetched \subseteq Params
  /\ \A p \in DOMAIN fetched : fetched[p] \in Entries
  /\ pc # "set" => DOMAIN fetched = {}
  /\ ticked \in BOOLEAN

(* Once Bind has returned without error, exactly the parameters of         *)
(* registered sources have a value, and no refresh takes it away: whatever *)
(* the sources lose, garble or fail to answer, each field has a value some *)
(* source gave it, unless it is a bool, which a number makes false         *)
(* (config.go 105-123 and 145-166, params.go 52-66).                       *)
KeepsValues ==
  pc \notin {"bind", "load", "failed"} =>
    \A p \in Params :
      IF p \in Bound THEN value[p] # 0 \/ TypeOf[p] = "bool" ELSE value[p] = 0

(* A field never goes back to an older version of its parameter, although  *)
(* what a round sets was read some steps before (config.go 149-163); only  *)
(* a bool may be made false by what is no boolean.                         *)
NeverGoesBack ==
  [][\A p \in Params :
       value'[p] >= value[p] \/ (TypeOf[p] = "bool" /\ value'[p] = 0)]_vars

(* Bind and its goroutine keep the promise of Settings: only versions a    *)
(* source has had, each step of a refresh at most one field, none of them  *)
(* before Bind has given all of them a value and none after it has failed  *)
(* (config.go 100-166 and 201-221).                                        *)
Phase == CASE pc \in {"bind", "load"} -> "binding"
           [] pc = "failed" -> "failed"
           [] OTHER -> "bound"

Promise == INSTANCE Settings WITH
  Params  <- Params,
  Loose   <- {p \in Params : TypeOf[p] = "bool"},
  phase   <- Phase,
  served  <- Bound,
  offered <- [p \in Params |-> source[p].version],
  value   <- value

ImplementsSettings == Promise!Spec

(* What a reliable source goes on holding for a parameter reaches the      *)
(* receiver, whatever becomes of the other sources and parameters: "Bind   *)
(* will bind the receiver config to sources and refresh values"            *)
(* (config.go 200).                                                        *)
Served(p) ==
  pc \notin {"bind", "load", "failed", "stopped"} /\ SourceOf(p) \in Reliable

RefreshConverges ==
  \A p \in Params, v \in 1..MaxVersions :
    <>[](Served(p) /\ Good(p) /\ source[p].version = v) => <>[](value[p] = v)
=============================================================================
