--------------------------- MODULE CompareSession ---------------------------
(***************************************************************************)
(* A session with the comparison commands of tcltk/tclnetgen.c: `compare',  *)
(* `iterate', `run converge', `run resolve', `verify', `exhaustive',        *)
(* `restart' and `equate'.  The loops of `run' are one step per call of     *)
(* Iterate, because the user may interrupt them (SIGINT sets                *)
(* InterruptPending, which the converge loops read after each iteration).   *)
(***************************************************************************)
EXTENDS NetCompare

CONSTANT Commands  \* the commands that the user of this session gives

VARIABLES
  pc,                \* the loop or statement of the command being executed
  command,           \* the last of `run converge', `run resolve', `verify'
  resolver,          \* the ResolveAutomorphs... function called last
  InterruptPending,
  automorphisms,     \* the local variable of _netcmp_run
  report             \* what `run' or `verify' has said of the netlists

control == <<pc, command, resolver, InterruptPending, automorphisms, report>>
vars == <<netcmp, control>>

Idle == pc = "idle"
Given(c) == Idle /\ c \in Commands

Resolvers == {"ByProperty", "ByPin", "ByNet", "Arbitrarily"}

Init ==
  /\ pair = NoPair
  /\ elements = EmptyList
  /\ nodes = EmptyList
  /\ pin_magic = <<>>
  /\ ExhaustiveSubdivision = FALSE
  /\ BadMatchDetected = FALSE
  /\ PropertyErrorDetected = 0
  /\ pc = "idle"
  /\ command = "none"
  /\ resolver = "none"
  /\ InterruptPending = FALSE
  /\ automorphisms = 0
  /\ report = "none"

(***************************************************************************)
(* The commands that call one function.                                     *)
(***************************************************************************)
Compare(p) ==
  /\ Given("compare")
  /\ CreateTwoLists(p)
  /\ resolver' = "none"
  /\ report' = "none"
  /\ UNCHANGED <<pc, command, InterruptPending, automorphisms>>

IterateOnce ==
  /\ Given("iterate")
  /\ Iterate
  /\ report' = "none"
  /\ UNCHANGED <<ExhaustiveSubdivision, pc, command, resolver, InterruptPending,
                 automorphisms>>

Exhaustive(on) ==
  /\ Given("exhaustive")
  /\ ExhaustiveSubdivision' = on
  /\ UNCHANGED <<lists, BadMatchDetected, PropertyErrorDetected, control>>

Restart ==
  /\ Given("restart")
  /\ RegroupDataStructures
  /\ report' = "none"
  /\ UNCHANGED <<pc, command, resolver, InterruptPending, automorphisms>>

EquateElements(C, a, b) ==
  /\ Given("equate") /\ pair # NoPair
  /\ EquivalenceElements(C, a, b)
  /\ report' = "none"
  /\ UNCHANGED <<pc, command, resolver, InterruptPending, automorphisms>>

EquateNodes(C, a, b) ==
  /\ Given("equate") /\ pair # NoPair
  /\ EquivalenceNodes(C, a, b)
  /\ report' = "none"
  /\ UNCHANGED <<pc, command, resolver, InterruptPending, automorphisms>>

\* What a number of automorphisms is reported as.
Verdict(n) ==
  CASE n = -1 -> "mismatch"
    [] n = -2 -> "port errors"
    [] n = 0  -> "unique"
    [] OTHER  -> "symmetries"

Verify ==
  /\ Given("verify") /\ pair # NoPair
  /\ VerifyProperties
  /\ command' = "verify"
  /\ report' = Verdict(VerifyMatching)
  /\ UNCHANGED <<lists, ExhaustiveSubdivision, BadMatchDetected, pc, resolver,
                  InterruptPending, automorphisms>>

(***************************************************************************)
(* `run': iterate until nothing changes, then again under exhaustive        *)
(* subdivision; verify; `run resolve' then breaks the symmetries.           *)
(***************************************************************************)
Run(c) ==
  /\ Given(c) /\ pair # NoPair
  /\ pc' = "converge"
  /\ command' = c
  /\ InterruptPending' = FALSE
  /\ report' = "none"
  /\ UNCHANGED <<netcmp, resolver, automorphisms>>

\* The signal handler is installed while `run' is executing.
Interrupt ==
  /\ "interrupt" \in Commands
  /\ ~Idle
  /\ InterruptPending' = TRUE
  /\ UNCHANGED <<netcmp, pc, command, resolver, automorphisms, report>>

Converge ==
  /\ pc = "converge"
  /\ Iterate
  /\ IF Done \/ InterruptPending
       THEN pc' = "exhaust" /\ ExhaustiveSubdivision' = TRUE
       ELSE UNCHANGED <<pc, ExhaustiveSubdivision>>
  /\ UNCHANGED <<command, resolver, InterruptPending, automorphisms, report>>

Exhaust ==
  /\ pc = "exhaust"
  /\ Iterate
  /\ pc' = IF Done \/ InterruptPending THEN "verify" ELSE pc
  /\ UNCHANGED <<ExhaustiveSubdivision, command, resolver, InterruptPending,
                 automorphisms, report>>

\* `run converge' ends in _netcmp_verify without an option, which says only
\* that netlists do not match.
VerifyConverged ==
  /\ pc = "verify" /\ command = "converge"
  /\ VerifyProperties
  /\ report' = IF VerifyMatching = -1 THEN "mismatch" ELSE "none"
  /\ pc' = "idle"
  /\ InterruptPending' = FALSE
  /\ UNCHANGED <<lists, ExhaustiveSubdivision, BadMatchDetected, command,
                 resolver, automorphisms>>

VerifyResolving ==
  /\ pc = "verify" /\ command = "resolve"
  /\ VerifyProperties
  /\ automorphisms' = VerifyMatching
  /\ pc' = IF VerifyMatching > 0 THEN "ByProperty" ELSE "report"
  /\ UNCHANGED <<lists, ExhaustiveSubdivision, BadMatchDetected, command,
                 resolver, InterruptPending, report>>

(***************************************************************************)
(* ResolveAutomorphsByProperty, ResolveAutomorphsByPin (twice) and          *)
(* ResolveAutomorphisms: break, then while (!Iterate() &&                   *)
(* VerifyMatching() >= 0), then return VerifyMatching().                    *)
(***************************************************************************)
Resolve ==
  /\ pc \in Resolvers
  /\ CASE pc = "ByProperty"       -> BreakByProperty
       [] pc \in {"ByPin", "ByNet"} -> BreakByPin
       [] pc = "Arbitrarily"      -> BreakArbitrarily
  /\ resolver' = pc
  /\ pc' = "settle"
  /\ UNCHANGED <<command, InterruptPending, automorphisms, report>>

Settle ==
  /\ pc = "settle"
  /\ Iterate
  /\ pc' = IF Done THEN "return" ELSE "settling"
  /\ UNCHANGED <<ExhaustiveSubdivision, command, resolver, InterruptPending,
                 automorphisms, report>>

Settling ==
  /\ pc = "settling"
  /\ VerifyProperties
  /\ pc' = IF VerifyMatching >= 0 THEN "settle" ELSE "return"
  /\ UNCHANGED <<lists, ExhaustiveSubdivision, BadMatchDetected, command,
                 resolver, InterruptPending, automorphisms, report>>

NextResolver ==
  CASE resolver = "ByProperty" -> "ByPin"
    [] resolver = "ByPin"      -> "ByNet"
    [] OTHER                   -> "Arbitrarily"

\* Back in _netcmp_run.  The value of ResolveAutomorphisms is tested for the
\* loop but not assigned to automorphisms.
Return ==
  /\ pc = "return"
  /\ VerifyProperties
  /\ automorphisms' = IF resolver = "Arbitrarily" THEN automorphisms
                                                  ELSE VerifyMatching
  /\ pc' = IF VerifyMatching > 0 THEN NextResolver ELSE "report"
  /\ UNCHANGED <<lists, ExhaustiveSubdivision, BadMatchDetected, command,
                 resolver, InterruptPending, report>>

Report ==
  /\ pc = "report"
  /\ report' = Verdict(automorphisms)
  /\ pc' = "idle"
  /\ InterruptPending' = FALSE
  /\ UNCHANGED <<netcmp, command, resolver, automorphisms>>

Executing ==
  \/ Converge \/ Exhaust \/ VerifyConverged \/ VerifyResolving
  \/ Resolve \/ Settle \/ Settling \/ Return \/ Report

Next ==
  \/ \E p \in Pairs : Compare(p)
  \/ IterateOnce
  \/ \E on \in BOOLEAN : Exhaustive(on)
  \/ Restart
  \/ \E C \in elements.classes : \E a \in In(C.members, 1), b \in In(C.members, 2) :
       EquateElements(C, a, b)
  \/ \E C \in nodes.classes : \E a \in In(C.members, 1), b \in In(C.members, 2) :
       EquateNodes(C, a, b)
  \/ Verify
  \/ \E c \in {"converge", "resolve"} : Run(c)
  \/ Interrupt
  \/ Executing

Spec == Init /\ [][Next]_vars

\* A command, once given, is executed: netgen has a single thread.  This is
\* WF_vars(Executing), as Executing is enabled exactly when not Idle.
FairSpec == Spec /\ ([]<>Idle \/ []<><<Executing>>_vars)

-----------------------------------------------------------------------------
PairOK ==
  \/ /\ pair = NoPair
     /\ ListOK(elements, {}) /\ ListOK(nodes, {})
     /\ pin_magic = <<>>
  \/ /\ pair \in Pairs /\ HasContents(pair)
     /\ ListOK(elements, Elements(pair)) /\ ListOK(nodes, Nodes(pair))
     /\ pin_magic \in [Elements(pair) -> [Pin -> Model \X Pin]]

FlagsOK ==
  /\ ExhaustiveSubdivision \in BOOLEAN
  /\ BadMatchDetected \in BOOLEAN
  /\ PropertyErrorDetected \in {-1, 0, 1}

ControlOK ==
  /\ pc \in {"idle", "converge", "exhaust", "verify", "settle", "settling",
             "return", "report"} \cup Resolvers
  /\ command \in {"none", "converge", "resolve", "verify"}
  /\ resolver \in {"none"} \cup Resolvers
  /\ InterruptPending \in BOOLEAN
  /\ automorphisms \in Int
  /\ report \in {"none", "mismatch", "port errors", "unique", "symmetries"}
  /\ pc # "idle" => pair # NoPair

\* The classes of elements and of nets are partitions, every variable has a
\* value of its type, and a command is executed only on circuits.
TypeOK == PairOK /\ FlagsOK /\ ControlOK

(***************************************************************************)
(* Safety of the classes.                                                   *)
(***************************************************************************)
\* A class that is illegal, or has not as many members of either circuit, is
\* never there without BadMatchDetected: VerifyMatching, which looks at the
\* flag first, cannot take illegal groups merged into one class for a match,
\* even when together they have as many members of either circuit.
IllegalOnlyIfBad ==
  \A L \in {elements, nodes} : \A C \in L.classes :
    ~C.legal \/ ~Balanced(C.members) => BadMatchDetected

\* ElementHash keeps the element's own hash value, so that devices of
\* different classes, once put into one illegal class, are not recast as
\* legal by a later fracture (comment in ElementHash).
LegalClassesAreOneCell ==
  \A C \in elements.classes :
    C.legal => \A e, f \in C.members : Netlist[pair].model[e] = Netlist[pair].model[f]

\* Circuits that are the same circuit are never declared a mismatch before
\* symmetries are broken: every device stays in one class with the device that
\* any matching of the circuits gives it, whatever commands are executed and
\* wherever they are interrupted.
MatchingsRespected ==
  (pair # NoPair /\ resolver = "none") =>
    \A f \in MatchingsOf[pair] :
      /\ ~BadMatchDetected
      /\ \A S \in Partition(elements) : {f[e] : e \in In(S, 1)} = In(S, 2)

\* The corresponding device of every device of circuit 1.
Correspondence ==
  [e \in In(Members(elements), 1) |->
     CHOOSE f \in ClassOf(elements, e) : Graph[f] = 2]

\* A match reported by `run resolve' as unique (with or without port errors)
\* is one: the pairs of corresponding devices are a matching of the circuits,
\* even when the user has interrupted the iterations or equated and restarted
\* before.
UniqueIsMatching ==
  pc = "report" /\ automorphisms \in {0, -2} => IsMatching(pair, Correspondence)

\* When the exhaustive iterations end by themselves, the classes are stable:
\* all devices of a legal class have the same pins on nets of the same
\* classes, and all nets of a legal class have the same pins on them.
ConvergedIsStable ==
  pc = "verify" /\ ~InterruptPending =>
    /\ \A C \in elements.classes : C.legal =>
         \A e, f \in C.members :
           ElementHash(elements, nodes, e)[2] = ElementHash(elements, nodes, f)[2]
    /\ \A C \in nodes.classes : C.legal =>
         \A n, m \in C.members : NodeHash(elements, n) = NodeHash(elements, m)

\* When a unique match is reported, PropertyErrorDetected, which is only ever
\* added to while classes become pairs, tells whether the properties of the
\* corresponding devices agree.
PropertyVerdict ==
  pc = "report" /\ automorphisms \in {0, -2} =>
    PropertyErrorDetected = IF 1 \in PropertyChecks THEN 1
                            ELSE IF -1 \in PropertyChecks THEN -1 ELSE 0

\* Breaking symmetries never makes a mismatch by itself: as many devices or
\* nets of either circuit get each new hash value (ResolveAutomorphsByProperty
\* reverts the rest).
BreakKeepsBalance ==
  [][Resolve => BadMatchDetected' = BadMatchDetected]_vars

\* `run' comes to an end: every loop of iterations does, and so does the loop
\* that calls ResolveAutomorphisms while there are symmetries.
RunEnds == (pc # "idle") ~> (pc = "idle")

\* The session implements the promises of Refinement: classes only split
\* while a command is executed, a mismatch is not forgotten, and a verdict of
\* a unique match is given only for pairs.
Promise ==
  INSTANCE Refinement WITH
    Side <- Graph,
    partition <- Partition(elements) \cup Partition(nodes),
    bad <- BadMatchDetected,
    busy <- ~Idle,
    verdict <- IF report \in {"unique", "mismatch"} /\ command # "verify"
                 THEN report ELSE "none"

RefinesPromise == Promise!Spec

=============================================================================
