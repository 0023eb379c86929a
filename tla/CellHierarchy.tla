---------------------------- MODULE CellHierarchy ----------------------------
(***************************************************************************)
(* The cells of two netlist files as a hierarchical comparison sees them:   *)
(* which instances a cell has, and what flattening does to that list        *)
(* (base/flatten.c, base/objlist.c).  Nets and pins are left to other       *)
(* modules; two circuits are told apart here by their bags of devices.      *)
(*                                                                          *)
(* A cell is a pair <<name, file>>: LookupCellFile finds a cell by both.    *)
(* A design is a pair of files to compare:                                  *)
(*   contents  for each file, the instances of every subcircuit by name, in *)
(*             the order of its object list                                 *)
(*   modules   names of the cells that are black boxes (CLASS_MODULE)       *)
(*   top       the cell of each file to compare                             *)
(*   noflat    names not to be flattened (the -noflatten option of lvs)     *)
(*   equated   pairs of names that the setup file gives to equate classes   *)
(*   agree     the nets and pins of cells with the same instances agree      *)
(*   calls     how often lvs is called on the two files                      *)
(***************************************************************************)
EXTENDS Integers, FiniteSets, Sequences, SequencesExt

CONSTANTS
  Designs,   \* the pairs of files that may be compared, by name
  NoCell     \* a lookup that finds nothing

VARIABLES
  design,      \* the pair of files being compared
  contents,    \* the instances (FIRSTPIN objects) of every subcircuit
  placeholder  \* the cells flagged CELL_PLACEHOLDER

hierarchyVars == <<design, contents, placeholder>>

D == Designs[design]
File == {1, 2}

\* The cells that a file defines or uses.
Cells(d) ==
  UNION {{<<n, f>> : n \in DOMAIN d.contents[f]} \cup
         UNION {{<<n, f>> : n \in ToSet(d.contents[f][m])} :
                m \in DOMAIN d.contents[f]} : f \in File}

(***************************************************************************)
(* The files can be read: every subcircuit has a list of instances, and no  *)
(* set of subcircuits holds an instance of one of them in each of them, so  *)
(* that no cell is a part of itself; and the cells to compare are among     *)
(* them.                                                                    *)
(***************************************************************************)
IsList(s) == s \in Seq(ToSet(s))

ASSUME DesignsAssumption ==
  \A d \in DOMAIN Designs :
    /\ NoCell \notin Cells(Designs[d])
    /\ \A f \in File :
         LET subckt == Designs[d].contents[f]
         IN  /\ IsFiniteSet(DOMAIN subckt)
             /\ Designs[d].top[f] \in DOMAIN subckt
             /\ \A n \in DOMAIN subckt : IsList(subckt[n])
             /\ \A S \in SUBSET DOMAIN subckt : S # {} =>
                  \E n \in S : ToSet(subckt[n]) \cap S = {}

KindIn(d, c) == IF c[1] \in DOMAIN d.contents[c[2]] THEN "subckt"
                ELSE IF c[1] \in d.modules THEN "module"
                ELSE "device"

Cell == Cells(D)
Kind(c) == KindIn(D, c)

\* The cells the queue and the flattening look into.
Hierarchical(c) == Kind(c) \in {"subckt", "module"}

AsRead(d) ==
  [c \in {x \in Cells(d) : KindIn(d, x) = "subckt"} |->
     [i \in DOMAIN d.contents[c[2]][c[1]] |->
        <<d.contents[c[2]][c[1]][i], c[2]>>]]

Instances(ct, c) == IF c \in DOMAIN ct THEN ct[c] ELSE << >>

\* Determine if a cell contains at least one device or subcircuit.
HasContents(ct, c) == Instances(ct, c) # << >>

(***************************************************************************)
(* Flattening.  The instances of a child are copied in its place.           *)
(***************************************************************************)
Splice(s, gone, ct) ==
  FlattenSeq([i \in DOMAIN s |-> IF s[i] \in gone THEN Instances(ct, s[i])
                                 ELSE <<s[i]>>])

MayFlatten(p, c) == Hierarchical(c) /\ c \notin placeholder /\ c # p

\* The number of instances of c in p that flattenInstancesOf expands.
NumFlat(ct, p, c) ==
  IF MayFlatten(p, c)
  THEN Cardinality({i \in DOMAIN Instances(ct, p) : ct[p][i] = c})
  ELSE 0

\* Mutants of flattenInstancesOf: prohibited cells are flattened too; only the
\* first of several instances is replaced, the others vanish.
FlattenPlaceholders(ct, p, c) ==
  IF p \notin DOMAIN ct \/ ~Hierarchical(c) \/ c = p THEN ct
  ELSE [ct EXCEPT ![p] = Splice(@, {c}, ct)]

FlattenOnce(ct, p, c) ==
  IF NumFlat(ct, p, c) = 0 THEN ct
  ELSE [ct EXCEPT ![p] = Instances(ct, c) \o SelectSeq(@, LAMBDA x : x # c)]

flattenInstancesOf(ct, p, c) ==
  IF NumFlat(ct, p, c) = 0 THEN ct
  ELSE [ct EXCEPT ![p] = Splice(@, {c}, ct)]

\* Flatten every instance of cell c in its file (flatten class).
FlattenInstancesOf(ct, c) ==
  [p \in DOMAIN ct |->
     IF p[2] = c[2] /\ p # c THEN flattenInstancesOf(ct, p, c)[p] ELSE ct[p]]

\* The list s after n rounds, each of which splices the cells of gone in it.
Opened(s, gone, ct, n) ==
  LET after[round \in 0..n] ==
        IF round = 0 THEN s ELSE Splice(after[round - 1], gone, ct)
  IN  after[n]

\* Expand the list s until no cell of gone is left.  A cell cannot be its own
\* part, so that as many rounds as there are cells are enough.
Expanded(s, gone, ct) == Opened(s, gone, ct, Cardinality(DOMAIN ct))

\* The devices and black boxes that a cell comes down to, with their number.
Primitives(ct, c) ==
  LET leaves == Expanded(Instances(ct, c), DOMAIN ct, ct)
  IN  [n \in {x[1] : x \in ToSet(leaves)} |->
         Cardinality({i \in DOMAIN leaves : leaves[i][1] = n})]

\* A module is a cell that a file uses and does not define, a placeholder, or
\* that it declares without contents as a black box, which is none.
InitHierarchy ==
  /\ design \in DOMAIN Designs
  /\ contents = AsRead(D)
  /\ placeholder \in SUBSET {c \in Cell : Kind(c) = "module"}
=============================================================================
