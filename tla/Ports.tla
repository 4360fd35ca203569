-------------------------------- MODULE Ports --------------------------------
(***************************************************************************)
(* The port broker (orchestrator/ports.py): one batch of named ports, a    *)
(* socket per loopback family for each, while other processes of the host  *)
(* bind and release ports between any two binds of the broker.             *)
(***************************************************************************)
EXTENDS Integers, Sequences, SequencesExt, FiniteSets, FiniteSetsExt

CONSTANTS
  PortNumbers,   \* the ports of the host
  Families,      \* its loopback families, the lead first: a sequence
  Wants,         \* port specs: [form, low, high, templated]
  BatchSize,     \* bound: names in a batch
  AutoAttempts,  \* _AUTO_ATTEMPTS
  MaxForeign     \* bound: how often other processes bind or release

ASSUME PortsAssumption ==
  /\ AutoAttempts \in Nat \ {0} /\ MaxForeign \in Nat /\ BatchSize \in Nat \ {0}
  /\ PortNumbers \subseteq Nat \ {0} /\ \E top \in PortNumbers : \A p \in PortNumbers : p =< top
  /\ Families \in Seq(ToSet(Families)) /\ Families # <<>> /\ IsInjective(Families)
  /\ \A w \in Wants : w.form \in {"auto", "fixed", "from", "range"} /\ w.low \in Nat /\ w.high \in Nat

VARIABLES
  wants,     \* the batch: one spec per name
  foreign,   \* the <<family, port>> other processes hold
  holds,     \* those the broker holds until the batch is done
  trying,    \* those _try_bind holds for the candidate
  candidate, \* the port that is tried, or 0
  attempts,  \* of _bind_auto, for this name
  allocated, \* the ports of the first names
  result,    \* "loading", "open", "done", or why the batch was refused
  taken,     \* history: what others, or earlier names of the batch, held at some time
  moves

portVars == <<wants, foreign, holds, trying, candidate, attempts, allocated, result, taken, moves>>

\* parse_port_spec: a range of candidates; a fixed port, as a number or as the
\* digits an environment variable gives, is a range of one.  <<0, 0>> is "auto".
ParsePortSpec(w) ==
  CASE w.form = "auto"  -> <<0, 0>>
    [] w.form = "fixed" -> <<w.low, w.low>>
    [] w.form = "from"  -> <<w.low, Max(PortNumbers)>>
    [] w.form = "range" -> <<w.low, w.high>>

IsAuto(w) == w.form = "auto"
Fixed(w) == ~IsAuto(w) /\ ParsePortSpec(w)[1] = ParsePortSpec(w)[2]
SameFixed(v, w) == Fixed(v) /\ Fixed(w) /\ ParsePortSpec(v) = ParsePortSpec(w)

\* The name that is being allocated.
Current == wants[Len(allocated) + 1]

PortInit ==
  /\ wants \in UNION {[1 .. n -> Wants] : n \in 1 .. BatchSize}
  /\ foreign = {} /\ holds = {} /\ trying = {} /\ candidate = 0
  /\ attempts = 0 /\ allocated = <<>> /\ result = "loading" /\ taken = {} /\ moves = 0

\* `finally`: every socket is closed.
Finish(why) ==
  /\ result' = why /\ holds' = {} /\ trying' = {} /\ candidate' = 0 /\ attempts' = 0
  /\ UNCHANGED <<wants, foreign, allocated, taken, moves>>

\* _validate: literal duplicates of a fixed port; templated specs are not known yet.
ValidatePorts ==
  /\ result = "loading"
  /\ LET literal == {i \in DOMAIN wants : ~wants[i].templated}
     IN  IF \E i, j \in literal : i # j /\ SameFixed(wants[i], wants[j])
           THEN Finish("config")
           ELSE result' = "open" /\ UNCHANGED <<wants, foreign, holds, trying, candidate, attempts, allocated, taken, moves>>

Working == result = "open" /\ Len(allocated) < Len(wants)

\* Duplicates that only rendering brings about.
Duplicate == \E i \in DOMAIN allocated : SameFixed(wants[i], Current)

RefuseDuplicate == Working /\ candidate = 0 /\ Duplicate /\ Finish("duplicate")

AllDone == result = "open" /\ Len(allocated) = Len(wants) /\ Finish("done")

Bindable(pair) == pair \notin foreign \union holds \union trying

------------------------------------------------------------------------------
\* The families of the candidate that are bound, in order; the lead of an
\* automatic port is in holds already.
BoundFamilies == Cardinality(trying) + (IF IsAuto(Current) THEN 1 ELSE 0)
NextPair == <<Families[BoundFamilies + 1], candidate>>

\* Variant: the sockets of a port that was found are closed at once.
Allocate_released ==
  /\ Working /\ candidate # 0 /\ BoundFamilies = Len(Families)
  /\ allocated' = Append(allocated, candidate)
  /\ taken' = taken \union trying
  /\ trying' = {} /\ candidate' = 0 /\ attempts' = 0
  /\ UNCHANGED <<wants, foreign, holds, result, moves>>

\* The candidate is held on every family: it is the port of this name.
Allocate ==
  /\ Working /\ candidate # 0 /\ BoundFamilies = Len(Families)
  /\ allocated' = Append(allocated, candidate)
  /\ holds' = holds \union trying /\ taken' = taken \union trying
  /\ trying' = {} /\ candidate' = 0 /\ attempts' = 0
  /\ UNCHANGED <<wants, foreign, result, moves>>

\* _bind_one for the next family.
BindNext ==
  /\ Working /\ candidate # 0 /\ BoundFamilies < Len(Families)
  /\ Bindable(NextPair)
  /\ trying' = trying \union {NextPair}
  /\ UNCHANGED <<wants, foreign, holds, candidate, attempts, allocated, result, taken, moves>>

BindRefused == /\ Working /\ candidate # 0 /\ BoundFamilies < Len(Families)
               /\ ~Bindable(NextPair)

(* An automatic port: the kernel picks the lead's port.                    *)
PickLead ==
  /\ Working /\ IsAuto(Current) /\ candidate = 0 /\ attempts < AutoAttempts
  /\ \E p \in PortNumbers :
       /\ Bindable(<<Families[1], p>>)
       /\ holds' = holds \union {<<Families[1], p>>} /\ taken' = taken \union {<<Families[1], p>>}
       /\ candidate' = p /\ attempts' = attempts + 1
  /\ UNCHANGED <<wants, foreign, trying, allocated, result, moves>>

\* Another family has the port: the lead stays, so that it is not picked again.
RejectLead ==
  /\ BindRefused /\ IsAuto(Current)
  /\ trying' = {} /\ candidate' = 0
  /\ UNCHANGED <<wants, foreign, holds, attempts, allocated, result, taken, moves>>

NoAuto ==
  /\ Working /\ IsAuto(Current) /\ candidate = 0
  /\ attempts = AutoAttempts \/ \A p \in PortNumbers : ~Bindable(<<Families[1], p>>)
  /\ Finish("auto")

(* A range: its ports from low to high.                                    *)
StartRange ==
  /\ Working /\ ~IsAuto(Current) /\ candidate = 0 /\ ~Duplicate
  /\ candidate' = ParsePortSpec(Current)[1]
  /\ UNCHANGED <<wants, foreign, holds, trying, attempts, allocated, result, taken, moves>>

\* Held on every family or on none: what was bound is closed.
NextCandidate ==
  /\ BindRefused /\ ~IsAuto(Current)
  /\ IF candidate < ParsePortSpec(Current)[2]
       THEN /\ candidate' = candidate + 1 /\ trying' = {}
            /\ UNCHANGED <<wants, foreign, holds, attempts, allocated, result, taken, moves>>
       ELSE Finish("in use")

(* Another process binds or closes a socket (external).                    *)
ForeignMove ==
  /\ result = "open" /\ moves < MaxForeign /\ moves' = moves + 1
  /\ \E pair \in ToSet(Families) \X PortNumbers :
       \/ Bindable(pair) /\ foreign' = foreign \union {pair} /\ taken' = taken \union {pair}
       \/ pair \in foreign /\ foreign' = foreign \ {pair} /\ UNCHANGED taken
  /\ UNCHANGED <<wants, holds, trying, candidate, attempts, allocated, result>>

Broker == \/ ValidatePorts \/ RefuseDuplicate \/ AllDone \/ Allocate \/ BindNext
          \/ PickLead \/ RejectLead \/ NoAuto \/ StartRange \/ NextCandidate

PortNext == Broker \/ ForeignMove

PortSpec == PortInit /\ [][PortNext]_portVars

------------------------------------------------------------------------------
(***************************************************************************)
(* Properties.                                                             *)
(***************************************************************************)
\* Until the batch is over the broker owns every port it has given out on every
\* family, so no two names and no other process have it; afterwards it owns nothing.
PortsOwned ==
  /\ IsInjective(allocated)
  /\ \A i \in DOMAIN allocated, f \in ToSet(Families) :
       result = "open" => <<f, allocated[i]>> \in holds \ foreign
  /\ result # "open" => holds \union trying = {}

\* A range gives the first port that is free: a lower one was held, on some family,
\* by another process or for an earlier name, and a range is refused only when all
\* of it was.
WasTaken(p) == \E f \in ToSet(Families) : <<f, p>> \in taken
FirstFree ==
  /\ \A i \in DOMAIN allocated : ~IsAuto(wants[i]) =>
       \A p \in ParsePortSpec(wants[i])[1] .. allocated[i] - 1 : WasTaken(p)
  /\ result = "in use" =>
       \A p \in ParsePortSpec(Current)[1] .. ParsePortSpec(Current)[2] : WasTaken(p)

\* A sequence of rejected automatic ports never repeats one: the search converges.
AutoConverges ==
  result = "open" =>
    attempts + Len(allocated) =< Cardinality({pair \in holds : pair[1] = Families[1]})

\* What allocate_ports promises of a batch.
BatchHolds == PortsOwned /\ FirstFree /\ AutoConverges
==============================================================================
