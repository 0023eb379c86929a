# netgen in TLA+

netgen compares two netlists ("layout versus schematic"): it reads two
hierarchical circuits, prepares them, pairs their cells from the bottom of the
hierarchy to the top, and decides for each pair whether the two are the same
circuit.  This directory models the parts that read, prepare, compare, decide
and report, checks them with TLC on small inputs, and proves properties of the
comparison and of the hierarchical flow with TLAPS for inputs of any size.

Paths below are relative to the root of the repository's sources; `base/` and
`tcltk/` are in `src/`.

## 1. The system

| Component | Source | State it keeps | Modules |
|---|---|---|---|
| Netlist comparison engine | `base/netcmp.c` | `ElementClasses`, `NodeClasses`: a partition of the devices and one of the nets of both circuits; hash values, `pin_magic`, `BadMatchDetected`, `PropertyErrorDetected`, `ExhaustiveSubdivision`, the counts of classes | `Netlists`, `ClassLists`, `NetCompare` |
| Comparison commands | `tcltk/tclnetgen.c` | the loops of `_netcmp_run`, `InterruptPending` | `CompareSession`, `Refinement` |
| Compare queue, match flags, class hashes | `base/netcmp.c` | `CompareQueue`, `CELL_MATCHED`, `classhash` | `CellHierarchy`, `CompareQueue` |
| Flattening and pre-matching | `base/flatten.c` | the object lists of the cells, the count table of `PrematchLists` | `Prematch`, `NetDatabase`, `Flattening`, `PortEdits`, with `Circuits` as reference |
| lvs flow | `tcltk/netgen.tcl.in` | the variables of the procedure | `Lvs`, `LvsPromise` |
| Pin matching | `base/netcmp.c` | order and numbers of the ports, proxies | `PinMatch` |
| Series and parallel merging | `base/netgen.c` | devices and their property records | `DeviceMerge`, `Networks` |
| Property matching | `base/netcmp.c` | property records while they are compared | `PropertyNetworks`, `Networks` |
| Property values, expressions | `base/netgen.c`, `netcmp.c` | types, stacks of tokens, definitions | `Expressions`, `PropertyValues`, `Elaboration` |
| Device settings | `tcltk/tclnetgen.c`, `base/netgen.c` | flags, tolerances, permutes and merges of the cells, `GlobalParallelNone` | `DeviceSettings`, `Settings` |
| Netlist builder | `base/netgen.c`, `objlist.c` | the current cell and its objects, the next node number | `NetBuilder` |
| SPICE reader | `base/spice.c` | the stack of open subcircuits | `SpiceReader` |
| Verilog reader | `base/verilog.c`, `netfile.c` | the stack of modules, wires, parameters, conditionals | `VerilogExpressions`, `VerilogReader` |
| Mismatch reports | `base/netcmp.c` | formatted lists, the table of names | `Reports` |
| Hash tables | `base/hash.c` | buckets, iterator position | taken for functions from names to objects |
| Other formats, placement, embedding, queries, menus, Python front end, vendored code | `base/`, `python/`, `scripts/` ... | | not modelled |

**How they interact.**  A reader calls the builder, which fills the tables of
the netlist database; setup commands change the flags of the cells read so far,
and some change defaults for those to come.  The lvs procedure asks the queue for
pairs of cells, bottom up.  For each, `compare` pre-matches and flattens,
`CreateTwoLists` merges devices and builds both partitions, `run` iterates,
verifies and breaks symmetries, `PropertyMatch` compares what corresponds.  The
outcome decides whether the pair becomes one class, whose pins `MatchPins` puts
in one order (so that the next level up sees equal lists), or is flattened into
its parents.  Everything runs in one thread; the only asynchronous input is
`SIGINT`, whose handler sets `InterruptPending`.

**What is hard.**  Partitions that are fractured too little or too much look
right in regular circuits.  Illegal classes are merged, and only a global
remembers them.  Symmetry breaking chooses and cannot undo.  Commands come in any
order over shared globals.  Three loops end when a counter stops changing.
Flags and class hashes outlive a comparison, and decide what the next one
flattens.  Counts of instances are read while instances are being flattened.
Node numbers and pin positions of many instances are renumbered in place.
Properties are compared in place, twice.  Names are used before they are defined
and defined again.  `PROJECT.json` lists 40 such hazards at their lines with the
properties that cover them.

## 2. Modules

One module per component, with the C function names for the operators.

| Module | State and actions, and what they are in the code |
|---|---|
| `Netlists` | what a comparison is given: `Circuits[p]` is a pair of circuits; `NodeList` are the structures `CreateLists` allocates for a device, open pins included; `PermutedMagic` is what `Permute` leaves in `pin_magic`.  `IsMatching` is the reference: a bijection of the devices under which the nets correspond. |
| `ClassLists` | one list of classes: `MakeList` is `MakeElist`/`MakeNlist`, `Fracture` is `FractureElementClass`/`FractureNodeClass`, `Rehash` the first half of `Iterate`, `Equate` the change of `EquivalenceElements`/`EquivalenceNodes` (the code has every function twice). |
| `NetCompare` | the functions of the engine, one operator each, over the globals of `netcmp.c`. |
| `CompareSession` | one action per command; `run` is one action per call of `Iterate`, `VerifyMatching` or a resolver, because the interrupt may come between two of them. |
| `Refinement` | abstract specification of a session: a partition that only splits while a command executes, a mismatch that is not forgotten, a verdict that fits the partition. |
| `CellHierarchy` | cells as lists of instances; `flattenInstancesOf`, and the reference `Primitives`, the devices a cell comes down to. |
| `CompareQueue` | `CreateCompareQueue`, `DescendCompareQueue`, `EquivalenceClasses`, `LookupClassEquivalent`, `FlattenUnmatched`. |
| `Prematch` | `SurveyCell` and the three cases of `PrematchLists` with the count table, whose entries come in any order. |
| `Lvs` | the lvs procedure, one action per statement that calls netgen; the comparison of two cells and `MatchPins` may have any outcome that the devices allow. |
| `LvsPromise` | abstract specification of the procedure: it answers once, and says "match" only of circuits with the same devices. |
| `NetDatabase`, `Flattening`, `PortEdits` | the same cells with nets: `flattenCell`, `flattenInstancesOf`, `ConvertGlobals`, `UniquePins`, `CleanupPins`, removal of zero-valued devices. |
| `Circuits` | reference: the devices and nets a cell stands for, whatever its hierarchy. |
| `PinMatch` | `MatchPins` search by search, `addproxies`, `reorderpins`, for a cell and the cell that uses it. |
| `DeviceMerge`, `PropertyNetworks`, `Networks` | `CombineParallel`, `CombineSeries`, the tags of the records; `PropertyOptimize`, sorting and reducing; one action per pass. |
| `Expressions`, `PropertyValues`, `Elaboration` | `ReduceOneExpression`; types, promotion and tolerances; the way of a value from reading through flattening to comparison. |
| `DeviceSettings`, `Settings` | what `property`, `permute` and `ignore` do to cells; the commands in any order with reading and assigning files. |
| `NetBuilder`, `SpiceReader` | the builder's calls; one action per line of a SPICE file. |
| `VerilogExpressions`, `VerilogReader` | `EvalExpr`; one action per statement of a Verilog file. |
| `Reports` | `verify`, `print` and `summary`, one action per printed part, so that an interrupt may come anywhere. |
| `MC*` | small inputs, references and properties for TLC (the reports' and the session's properties stand with their component). |
| `*_proof` | theorems, see section 4. |

An operator that a comment calls "Mutant of X" is not part of the model: it is X
with a plausible bug, and stands before X.  `PROJECT.json` says which property
finds it.

### Abstractions

- Hash values are the data they are computed from: two different neighbourhoods
  never collide.  Magic numbers drawn anew become the identity of the class.
- Where the code takes the last members of a list in hash order, the model
  takes any.
- Names, values and lines of text are members of small sets; spelling, case and
  layout are left out unless a conversion changes what is compared.
- `Lvs` compares bags of instance classes and leaves the nets to `Outcomes`;
  the nets are in `NetDatabase` and the comparison itself in `NetCompare`.
- The session starts from circuits after flattening and merging.
- A C variable that is read before it is set has any value: `lhs` of a `wire`
  that makes no net is NULL or any net of the file, `portend` and `slice` of a pin are
  small numbers (`Garbage`), the same for all pins of a statement.
- In a Verilog text a token of a bound that is neither a number nor a parameter is the
  last of its bound, and what would hide the names of ports or pins behind it is left out
  (`WellFormed`).

## 3. Runs

| Run | Question |
|---|---|
| `session` | Every pair of small circuits, any sequence of commands but `restart` and `equate`, interrupted anywhere: are the classes partitions, matches and mismatches warranted, and does every run end?  Also checks that the session implements `Refinement`. |
| `reorder` | `restart` and `equate` in any order with `iterate` and `run resolve`: is a unique match still a matching? |
| `lvs` | Pairs of small hierarchies, every outcome of a comparison and of the pin matching, every order of the count table: no false match at any level, children before parents, boxes stay, an answer is reached, and equal devices are found equal where nets and pins agree.  Also checks that the procedure implements `LvsPromise`. |
| `nets` | The editing operations in any order: does any cell ever stand for another circuit? |
| `spice` | Files of up to six lines from six alphabets: are the nets and instances those the text says? |
| `networks` | All netlists of up to four resistors on four nodes, in two orders, merged and compared twice: does the order matter, is anything lost, do the passes end, is the verdict right? |
| `pins` | All lists of two or three pins in two files: are the pins brought in one order, and do the cells that use them keep their connections? |
| `elaboration` | Expressions whose names become known at five places; values under all pairs of definitions: is the value that of arithmetic, and the verdict that of the values as written? |
| `settings` | Two of 29 commands in every order with reading and assigning two files: does a command reach the files it names, and does the last word count? |
| `reports` | Every form of report on three comparisons, interrupted anywhere: does it say what the classes say? |
| `verilog` | Ten kinds of files with up to nine further statements: are the nets those the text connects, and do pins follow the ports of their cell? |
| `loops` | violation: a `for` loop reads its last pass without the value of its variable (section 6). |

### Bounds, and why they are enough

- `session`: two-pin devices, at most four devices and nets, 21 pairs, each made
  for a case: a class that refinement cannot split, two matchings of which one is
  wrong, exchanged pins, groups that are balanced only together, open pins, no
  devices, no nets, ports that differ.  The number of commands is not bounded.
  Two pairs stay out because they refute properties: with permutes in one
  circuit only (`one_sided`), and with an open pin before a connected one
  (`open_pins`).  They are what hypothesis `EvenPair` of the theorems excludes.
  `reorder` takes six pairs, since `equate` chooses among all members.
- `lvs`: 16 pairs of files of at most four levels, each with any nets and with
  nets that agree, each called once or twice; black boxes, equated and
  unflattened cells have pairs of their own.  A module may be a placeholder, as a
  reader makes for a cell that is used and not defined, or a declared black box.
- `networks`: up to four devices of one kind or three of several, four nodes
  of which two are ports, values 1 to 3, two comparisons.  Four devices are what
  it takes to nest parallel in series in parallel.
- `pins`: three names, two or three pins, on nets of devices, of their own, or
  none.
- `spice`, `verilog`: six lines, and nine statements after those a file starts
  with: enough for use, definition, redefinition and inclusion of two modules;
  vectors of at most four bits; all bounds of three operands with one group.
  In one of the ten files of `verilog` the text is careless (bounds that cannot be
  evaluated, a vector declared again without its range, an index that is never set); its nets
  have no meaning that `NetsAsWritten` could ask for, and it counts for
  `PinsFollowPorts` only.
- `elaboration`: chains of three operands with one group; two comparisons.
- `settings`: two commands around reading and assigning; a third would only
  repeat pairs, as flags do not depend on more than the command before.
- `reports`: classes that make each kind of line, of every sort.

Deadlock is not checked where the input ends (all but `session` and `reorder`).

### Fairness

`CompareSession!FairSpec` says that a command which was given is executed; netgen has one
thread and no step of its loops waits.  `Networks` says the same of passes and
rounds of reducing.  `Lvs` has weak fairness of the statements of the procedure and of
the visits of the count table, `LvsPromise` of its answer.  No fairness is
assumed of the user or of the interrupt.

## 4. Proofs

`tlapm` checks them for every value of the constants.  The assumptions on
constants are named where the constants are declared, and TLC evaluates them on
every run: `NetlistsAssumption` (finitely many devices, nets and pins, a class
for every device, a net or `NoNet` on every pin, permutes relate pins of
the class), `NoPairAssumption` (a value that is no pair), `DesignsAssumption`
(two files whose cells contain only cells of their file, without cycles),
`NetlistsAreRead` and `WordsAreKnown` (properties as the readers define them; the
words that `property` accepts), `NetlistsRead` (cells as a reader leaves them: each
device stands for itself, devices of one class have as many pins, and those that
merge in series or have permutable pins have at least two), `FilesAreText` (names and nets
on lines are strings, names of cells are not empty, and there are names for as many pins
as a line has nets).

### The session: `CompareSession_proof`

- `TypeCorrect`: `Spec => []TypeOK`.  `TypeOK` is inductive as it stands because
  it is more than types: the classes of either list are disjoint, not empty and
  cover exactly the elements or nets of the pair, and so do the hash values.
  `MakeListClasses` shows that one class is partitioned again, illegal groups in
  one class; `SplitClasses` lifts that to all classes; `FractureOK`, `RehashOK`
  and `EquateOK` follow, one per operation.
- `IllegalMarked`: no illegal or unbalanced class is there without
  `BadMatchDetected`.  Inductive together with `TypeOK`: a fracture without
  `Mismatch` makes legal, balanced classes only (`FractureSound`), and every
  action that fractures sets the flag when there is a mismatch.  The step that
  needs thought is `Rehash`, which marks classes of two members illegal: they
  are unbalanced, so that the flag was set already.
- `OneCellPerClass`: devices of different cells never correspond, unless
  `equate` is among the commands (it makes a legal class of any two members
  of an illegal one).  Not inductive: a class is made of the members that share
  a hash value, so hash values have to be of one cell too; and a resolver gives
  values by class, which may hold several cells when it is illegal, so that a
  resolver must only be called without a mismatch (`ResolvingIsSound`).

### The abstract session: `Refinement_proof`

- `SessionRefines`: every step of `CompareSession` is a step of `Refinement` or
  leaves its view unchanged.  From `TypeOK`, `IllegalOnlyIfBad` and
  `ReportIsCurrent`, an invariant of its own: a verdict that stands was computed
  from the classes that stand.
- `PropertiesReported`: what a verdict says of properties is what
  `PropertyMatch` finds on the final classes.  The reason is that a class of one
  device of each circuit is there for good: no fracture can split it
  further without making an unbalanced class.  Hypothesis: no `restart`, which
  throws the classes away and keeps the flag.

### Matches and matchings: `Matching_proof`

- `Converges`: when iterating ends by itself, the members of every legal class
  have the same pins on members of the same classes.  Iterating ends when the
  *number* of classes stays the same; the lemma needed is that a partition that
  is only split, and has as many classes as before, is the same partition.
- `UniqueMatchesAreMatchings`: when every class has one member of each circuit
  and there was no mismatch, pairing them is a matching of the circuits.
  Strengthening: nets follow their hash values.  Pairs give bijections,
  and the tally of fanouts carries from one net to the other.
  Hypothesis `EvenPair`: the permutes of the two circuits agree and unconnected
  pins come last.  The code does not see to either (section 6).
- `MatchingsAreRespected`: what matches is never declared different by
  iterating.  Invariant: classes and hash values are the same under every
  matching `f` of the devices and the bijection of the nets that goes with it.
  Hypotheses: no `equate` or `restart`, `EvenPair`, each circuit's
  nets are its own.
- `BreaksKeepBalance`: breaking the symmetry of a converged partition by
  property values or pin names gives each new value to as many members of either
  circuit.  Invariant: after an exhaustive iteration without a mismatch each
  class has one hash value.  Hypothesis `NamesTellApart`: two nets of a circuit have
  two names, as `LookupObject` needs it; a circuit in which they share one could give
  a value to two nets of it and to one of the other.

Both hold with the interrupt at any point.

### The hierarchy: `CellHierarchy_proof`, `Lvs_proof`

- `FlatteningKeepsDevices`: whatever the procedure flattens, in whatever order
  the count table gives, every cell comes down to the devices it had when it was
  read.  How many devices of a kind a cell has is defined recursively over the
  hierarchy, and the definition changes under the procedure's hands while it
  flattens.  The proof replaces it by *valuations*: numbers for all cells, where
  each cell's is the sum of its instances'.  Flattening keeps every valuation,
  acyclic hierarchies have one (`ValuationExists`) and only one, and it is the
  count.  Induction over the depth of the hierarchy is by sets (`Induction`), so that it
  needs no operator parameter.  Invariant: the lists of instances are readable
  (known cells, own file), ranked by a level, and have the valuations of the
  designs as read.
- `BlackBoxesStay`: no step takes away an instance of a black box, of a cell
  marked `noflat`, or of the cell that could not be flattened.

### No false match: `Lvs_proof`

Hypothesis of all three: `ClassesApart` of every design, that is, class hashes as
read tell the cells of a file apart, subcircuits from devices, devices by their
names, and the cells to compare from others.  It is a property of the two files
and the setup; `PairsApart` states it for all pairs of `MCLvs` but `equated`, where
two equated names clash, and TLC evaluates it.  Nothing else is
assumed: comparisons of nets and `MatchPins` may have any outcome, the count table
any order, `lvs` may be called any number of times.

- `QueueIsBottomUp`: no pair is queued twice, and no pair still in the queue is a
  part of both cells of the pair that is taken.  The levels that
  `CreateCompareQueue` descends to are lists that are spliced over and over; with a
  ranking of the hierarchy they end (`LevelFacts`), and whatever a visited
  cell holds was visited before (`VisitsBottomUp`).  A pair is `Ready`
  when one of its cells lies in a set closed under parts, all of whose
  partners are flagged and not to come.  `QueueCreated` proves it for a new
  queue; flattening keeps it because it keeps closed sets.
- `MatchesAreTheSame`: two cells that are found to match come down to the same
  devices, unless black boxes were declared.  Invariant (`MatchInv`, ten named parts): what is
  flagged and no longer waits was found alike or was flattened everywhere
  (`MatchedSettled`); a class hash that changes is that of the top cell.  At a
  comparison the two cells have as many instances of each class (`ClassesSame`); those of one
  class are devices of one name or a settled pair (`SameClassAlike`), and it cannot
  be one that was flattened, since here is an instance; so they have the same
  valuations, and so has the pair (`SameBag`).
- `AnswerIsTrue`: the safety of `LvsPromise`.  Hypotheses, in addition: one call
  (in a second one, a mismatch of the first is forgotten, section 6), and every
  cell has devices in it, so that only prohibited cells are taken for black boxes.
  TLC checks `KeepsPromise` also with black boxes and second calls where nets agree.

### Merging: `Networks_proof`

- `MergingKeepsNetwork`: no pass and no comparison changes what network the cell
  describes.  Each device carries the devices of the file that it stands for (`of`); the
  theorem says that none of them is lost, made up or counted twice, that a merged device
  has its pins on nodes of its parts, and that a node of its parts which it
  leaves out is no port and on no part of another device.
- `PassesSuffice`: when the passes are over, no two parallel and no two series devices
  are left in a top cell.  In other cells the passes may be made with nodes open, where
  devices disappear that a later pass would have needed.

Passes are folds over the list of devices.  The first part of the module brings
them to step sequences (`ParallelFold`, `SeriesFold`, `RemainingFold`), where
induction by sets applies (`Induction`).  Then:

- the parallel pass is a grouping (`ParallelGroups`): each device of the result
  comes from the devices of one key, so that keys are distinct afterwards
  (`DistinctStays`) and what a device stands for is what its group stood for;
- the series pass lists its pairs beforehand and merges them one by one, by which
  time others were merged.  Invariant (`SeriesState`): pairs not yet merged are
  still pairs, though the device at one end is another one now (`PairStays`).
  This is where the code relies on exactly two pins per node and on further pins
  that agree;
- what is described is kept by parts (`JoinParts`): a merged device is a chain of the
  parts, and nodes that became open have no pin left (`OpenAlone`);
- the loop stops when a pass leaves the *number* of devices as it was.  Invariant
  (`MergeState`): a pass that leaves the number leaves the devices, so that what
  the other pass established before still holds.

Matching afterwards changes records only (`EndStep`).

### Setup commands: `Settings_proof`

- `MergesStayApart`: whatever commands are given before, between and after reading
  and assigning, no property is both to be added and to have its reciprocals
  added for one way of merging, and `property series` leaves alone what was set for
  `parallel`, and the converse.  Invariant: no definition of any cell asks for both
  (`Sound`).  `PropertyMerge` takes the bits of the mask away before it sets new
  ones, and `WordBits` shows that the bits of a word lie in its mask; all
  other functions keep the bits of the definitions that they leave
  (`SameMerges`).
- `FlagIsLastSaid`: whether a cell's devices merge in parallel is what was said
  last of it or of all cells, before or after it was read.  The property reads the
  whole history, so the invariant (`FlagsInv`) does too: each file is read
  at most once, cells are there exactly when their file was read, the option that
  new cells take is what was said last of all, and the flag of a cell is
  the last event that speaks of it after its reading, or of all.  The case that
  needs thought is reading: `CellDef` takes the option over, which must be right
  though commands for that cell's name were given before it existed and had no effect.
- `CommandsApplyAsNamed`: which cells a command changes is what its argument reads
  like.  `TargetsAsNamed` works out `CommonParseCell` for every argument it accepts;
  `Follows` says that two cells whose definitions and permutations were alike for a
  key are so afterwards, and is shown of each function on a cell.  `permute` and
  its kin change only cells that have the pins, which is why the cells have to have
  the same pins (`SharedPins`).

  Hypotheses of the two: `TwoFiles` (two files, one top cell each, of different
  names, as `lvs` needs them), `ParallelNamesOne` (a `property parallel` for a cell
  names its file: without one the code sets the flag in one file only, so
  that "last said" has no meaning for the other) and `CommandsNamed` (arguments of
  the forms that `CommonParseCell` knows; `property remove` without a key names one
  file: the code changes one cell alone then).  The commands
  of `MCSettings` satisfy them.

### Reading SPICE: `Spice_proof`

- `CellsWellFormed`: `Spec => []TypeOK`, which is more than types: pins of an
  instance stand together, `FIRSTPIN` first and then by their numbers, of one name
  and of a cell that exists; and `NextNode` is above all nodes of the open cell, so
  that `join` never gives a number twice.  Both are at risk whenever the reader leaves
  a cell for another, which it does in the middle of a line (a model or a placeholder
  is made between an instance's name and its pins), at `.ends`, at a
  redefinition and at the end of an included file.

  A build whose cells `K` are well formed is `Fine(K)`; one whose open cell is `c`,
  with numbers below the next, is `Sound(K, c)`.  Each function of the builder has
  a lemma: `AddsSound`, `JoinSound`, `InstanceSound`, `CellSound`, ... stay in
  `Sound(K, c)`; `EndCell`, `CleanupSubcell`, `renamepins` and the renaming of a cell
  keep `Fine`; `CellDef` and `ReopenCellDef` lead back from `Fine` to `Sound`
  (`OpenSound`, `ReopenSound`).  The loops over ports, nets and pins never leave the
  set (`LoopRuns`, `FoldStays`), except that the loop over the pins of an
  instance must also know what the last object is (`AddPin`, `PinsSound`).

  `TypeOK` is not inductive.  `BuildKept` adds that all open cells, not only
  the innermost, are cells of the build (`.ends` goes back to them), that a cell
  is not deleted while an instance of it is left (`FreedSound`: a placeholder is made again at once,
  another is renamed with its instances), that the numbers in names are below that of
  the line, so that a free name is found (`FreeNameIs`), and that the values saved for the
  including file are of their types.  It does not need the files to be well
  formed beyond what `.ends` and the end of an included file need.

## 5. What is only model-checked, and what is not modelled

- Liveness (`RunEnds`, `CallsEnd`, that `lvs` answers, in `KeepsPromise`): the
  provers at hand do not reach fairness.
- `VerilogReader`, `VerilogExpressions` and the references in `MCElaboration`
  and `MCVerilog` are recursive over data (blocks, parts of bundles,
  expressions); what a recursive definition computes for every input is induction
  over data.
- `nets`, `pins`, `reports`, and of `spice` all but that the cells are well formed
  (`NetsKept`, `InstancesResolved`, `GlobalsInherited`): what their operations do is
  said by folds over lists of objects, pins and names, and what a fold computes is
  again induction over data.  For the folds of merging and of the SPICE reader a
  way around it is found (section 4: `Networks_proof`, `Spice_proof`); it costs a
  page for each fold, and `NetsKept` would need the connections of the whole text
  as an invariant.
- `networks`: `OrderIrrelevant` compares results for two orders of the netlist,
  and `VerdictRight` and `ReportAgrees` depend on the sorting of records.
- `FlatMatchFound`: that flattening always ends in the worst case rests on what
  the rules of `PrematchLists` leave unflattened, for which no invariant is known.

Not modelled: writing of files, other formats, placement and embedding, queries,
menus and the Python front end (text and numeric optimisation that no comparison
depends on); hash tables; in the modelled components what `PROJECT.json` names in
the notes, mainly `equate pins` beyond its result, arrays of one element, string
tolerances, and `-current` devices.

## 6. Observed divergences

One has a run of its own (`loops`).  The others were met while modelling; the
model does what the code does.

**Sessions.**  With permutes in one circuit only, or with open pins before
connected ones, a unique match may pair devices whose nets do not correspond
(`EvenPair`; pairs `one_sided`, `open_pins`).  `restart` keeps the mismatch flag
and drops permutations.  A class that breaking left alone is reported with
"Anything left is truly indistinguishable", which need not be so
after an interrupt.  `resolved` reports count once more (tclnetgen.c 2532).
`ResolveProperties` is never called (tclnetgen.c 2279).  `MatchFail` looks cells
up by name without file.

**The flow.**  In a session's second `lvs`, a pair is reported to match although a
child does not (netgen.tcl.in 561, 629).  A name that is a device in one
file and a subcircuit in the other is queued without a look at its kind, so that
the queue is not bottom up; equated names that clash have the same effect
(`ClassesApart`).  A cell that holds only empty cells is empty once these are
flattened into it, and is then taken for a black box: it matches a cell with
devices, whether or not it was meant as one.  Instances of a cell in itself are skipped
(the model's assumption excludes them).

**Flattening.**  A cell's copies share its globals (flatten.c 557); the check of
ports of circuit 1 is commented out (2053); a child's global is captured by a
parent's port of the same name; `UniquePins` continues past shorted pins; the node
cache rebuilt is that of the wrong cell (2297); of several zero-valued
devices in a row the removal misses one (1979).

**Pins.**  Among permutable shorted pins the search by name takes a port already
numbered by its net (netcmp.c 8059-8092).  The result is 1 also when proxies were
inserted, although the comment speaks of -1 and -2.  Shorted ports in both cells get
proxies both ways; cells of one port get the proxy in front.  An unequal class
returns early with 1.  `correspond` is written after `FREE`.  Pins after an open one
move up a position (2594).  An instance that loses all pins vanishes.

**Networks.**  With `-open` the passes have no fixpoint; merging in series
without permutable ends depends on the order of devices; a second
comparison, made for the report, may find no difference.  A run of parallel
devices in series reduces as its sums do, so that R||(R+R) and R||R may pass.
`S` stands for `+` (netgen.c 3694); a closing tag is missing when the first device
has none; records are reversed; `parallel_sort` moves "+", `series_sort` uses a
stale value; `MovePlus` loses the first record; the null value is shared between
lists; UNIQUEGLOBAL is not excluded; NaN never matches.

**Expressions and values.**  Sums are reduced before groups: `1+2*(3+4)` is 21, and
so is `(3+4)*2+1`.  `x-2-3` with `x` known later is `x-(-1)`.  `==` and `!=` never
read their second operand.  IF with a true condition or without ELSE reads past
the stack.  `{...x}` loses a name that is not known.  An instance's property never
reaches an expression when the cell has a default (comment netgen.c 179,
spice.c 1028).  `PROP_VALUE` does not count as double in the choice of a type
(netcmp.c 5741, against netgen.c 1117-1122).  Strings not resolved are compared
as raw unions under a numeric definition.  The first instance compared sets the
type of the definition; an INTEGER definition drops fractions.  A property missing
twice is listed twice.

**Settings.**  `series all` and `none` are inverted (netgen.c 934).  Flags per
cell, and `remove` with a wildcard, reach only the newest cell of the name.
A wildcard with a top cell looks up a NULL name.  A tolerance written as an integer
leaves the double unwritten.  Pairs {key value} add nothing.  The deprecated
`critical` merges set bits nobody reads.  `PermuteForget` without pins frees
the list and leaves it on the cell (netcmp.c 6983-6992).  `PermuteSetup` records both
orders and forgetting removes one.  `derivedprops` overwrites the last property,
carries width and length over to the next instance, and returns nothing.
`ClassDelete` disconnects only the last port of a bare net.  `removeshorted` reads
past the end of the list.  `ignore` without option uses an index never set.

**Reports.**  Exchanging the end of a permutable group with a single pin breaks
the group shown.  Nodes without name crash the sorting.  `print legal` without
elements or nodes prints nothing; `print -list` of both kinds returns only the
elements.  `summary` neither sets up nor clears the interrupt.  Orphans are
printed with arguments missing (netcmp.c 540).

**SPICE.**  Local variables of included files, early returns for ignored classes
(spice.c 1797-1818), stray `.ENDS`, `.model` of a placeholder, instance names
shared by V, I and E, nets of an E line left open, a global that only a
descendant names.  The check for self reference compares the wrong name (1788).

**Verilog.**  A `for` variable is deleted before the last pass (run `loops`), and a
loop of one pass runs twice.  Instances chained by commas lose the first and take
"," for a name (comment verilog.c 2419).  `wire [3:0] a, b` makes `b` a scalar.
Ascending vectors are never expanded; assignments and widths that differ are
aligned at the left.  `elsif` after a section that was read is read as well.
`(a)-b-c` is `a-(b-c)`; shifts come before products and sums, against
Verilog, and `8<<2` without blanks is 8; `[-1:0]` is `[0:0]`; `8-1` as a parameter is
8; `{2{b}}` repeats only the last bit.  Whole-vector right sides leave memory
uninitialised, and so do `lhs` (1896), `portend` (2569) and `slice` (2835).  `wire w` of a vector
`w` declares a vector of the name that follows (1871), and a bad bound leaves its last tokens
to be read as names.  `include` in a module's body closes the module at the end of
the file.  Ignored classes end the reading of the file.  A module without
instances is a placeholder when it is defined again.  `MatchPins` tests
`tc2->flags && CELL_PLACEHOLDER`.
