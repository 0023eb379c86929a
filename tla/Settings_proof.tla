----------------------------- MODULE Settings_proof -----------------------------
(***************************************************************************)
(* Proofs about the commands of a setup file, for any netlists, commands    *)
(* and number of commands.                                                  *)
(***************************************************************************)
EXTENDS MCSettings, WellFoundedInduction, TLAPS

\* A way of merging does not ask to add and to add reciprocals.
Exclusive(bits) ==
  /\ ~({"p_add", "p_par"} \subseteq bits)
  /\ ~({"s_add", "s_par"} \subseteq bits)

Sound(cell) ==
  /\ "defs" \in DOMAIN cell
  /\ \A k \in DOMAIN cell.defs :
       /\ "merge" \in DOMAIN cell.defs[k]
       /\ Exclusive(cell.defs[k].merge)

Events ==
  Commands \cup {[op |-> "read", file |-> f] : f \in DOMAIN Netlists} \cup {[op |-> "assign"]}

SettingsInv ==
  /\ history \in Seq(Events)
  /\ \A c \in DOMAIN cells : Sound(cells[c])

-----------------------------------------------------------------------------
(* What the functions on one cell do to its ways of merging.                *)

\* Nothing, as far as the definition is still there; no new definition has any.
SameMerges(new, old) ==
  /\ "defs" \in DOMAIN new
  /\ \A k \in DOMAIN new.defs :
       /\ "merge" \in DOMAIN new.defs[k]
       /\ \/ k \in DOMAIN old.defs /\ new.defs[k].merge = old.defs[k].merge
          \/ k \notin DOMAIN old.defs /\ new.defs[k].merge = {}

LEMMA SameMergesSound ==
  ASSUME NEW new, NEW old, Sound(old), SameMerges(new, old)
  PROVE  Sound(new)
BY DEF Sound, SameMerges, Exclusive

LEMMA SameDefsSound ==
  ASSUME NEW new, NEW old, Sound(old), "defs" \in DOMAIN new, new.defs = old.defs
  PROVE  SameMerges(new, old) /\ Sound(new)
BY DEF Sound, SameMerges

LEMMA AddSame ==
  ASSUME NEW cell, NEW key, NEW type, NEW slop, Sound(cell)
  PROVE  SameMerges(PropertyAdd(cell, key, type, slop), cell)
BY DEF Sound, SameMerges, PropertyAdd, Definition

LEMMA DeleteSame ==
  ASSUME NEW cell, NEW keys, Sound(cell)
  PROVE  SameMerges(PropertyDelete(cell, keys), cell)
BY DEF Sound, SameMerges, PropertyDelete

LEMMA AssociateSame ==
  ASSUME NEW cell, NEW key, NEW pin, Sound(cell)
  PROVE  SameMerges(PropertyAssociatePin(cell, key, pin), cell)
BY DEF Sound, SameMerges, PropertyAssociatePin

LEMMA ToleranceSame ==
  ASSUME NEW cell, NEW key, NEW ival, NEW dval, Sound(cell)
  PROVE  SameMerges(PropertyTolerance(cell, key, ival, dval), cell)
BY DEF Sound, SameMerges, PropertyTolerance

\* PropertyMerge replaces the bits of the mask.
LEMMA MergeReplaces ==
  ASSUME NEW cell, NEW key, NEW types, NEW mask, Sound(cell)
  PROVE  LET new == PropertyMerge(cell, key, types, mask)
         IN  /\ "defs" \in DOMAIN new
             /\ DOMAIN new.defs = DOMAIN cell.defs
             /\ \A k \in DOMAIN cell.defs :
                  /\ "merge" \in DOMAIN new.defs[k]
                  /\ new.defs[k].merge = IF k = key THEN (cell.defs[k].merge \ mask) \cup types
                                         ELSE cell.defs[k].merge
BY DEF Sound, PropertyMerge

LEMMA MergeSound ==
  ASSUME NEW cell, NEW key, NEW types, NEW mask, Sound(cell), Exclusive(types),
         \/ mask = AllMask
         \/ mask = PMask /\ types \subseteq PMask
         \/ mask = SMask /\ types \subseteq SMask
  PROVE  Sound(PropertyMerge(cell, key, types, mask))
<1> DEFINE new == PropertyMerge(cell, key, types, mask)
<1>1. /\ "defs" \in DOMAIN new
      /\ DOMAIN new.defs = DOMAIN cell.defs
      /\ \A k \in DOMAIN cell.defs :
           /\ "merge" \in DOMAIN new.defs[k]
           /\ new.defs[k].merge = IF k = key THEN (cell.defs[k].merge \ mask) \cup types
                                  ELSE cell.defs[k].merge
  BY MergeReplaces
<1> HIDE DEF new
<1>2. ASSUME NEW k \in DOMAIN cell.defs
      PROVE  Exclusive(new.defs[k].merge)
  <2>1. Exclusive(cell.defs[k].merge)
    BY DEF Sound
  <2>2. ASSUME NEW old, Exclusive(old)
        PROVE  Exclusive((old \ mask) \cup types)
    <3>1. CASE mask = PMask /\ types \subseteq PMask
      BY <2>2, <3>1 DEF Exclusive, PMask
    <3>2. CASE mask = SMask /\ types \subseteq SMask
      BY <2>2, <3>2 DEF Exclusive, SMask
    <3>3. CASE mask = AllMask
      BY <2>2, <3>3 DEF Exclusive, AllMask, PMask, SMask
    <3> QED BY <3>1, <3>2, <3>3
  <2>3. Exclusive((cell.defs[k].merge \ mask) \cup types)
    BY <2>1, <2>2
  <2> QED BY <1>1, <2>1, <2>3
<1>3. Sound(new)
  BY <1>1, <1>2 DEF Sound
<1> QED BY <1>3 DEF new

\* The flags of a cell are not its definitions.
LEMMA FlagsSame ==
  ASSUME NEW cell, Sound(cell), NEW value
  PROVE  /\ SameMerges(SetParallelCombine(cell, value), cell)
         /\ SameMerges(SetSeriesCombine(cell, value), cell)
         /\ \A how : /\ Combine(cell, how, value).defs = cell.defs
                     /\ Sound(Combine(cell, how, value))
<1>1. SameMerges(SetParallelCombine(cell, value), cell)
  BY DEF Sound, SameMerges, SetParallelCombine
<1>2. SameMerges(SetSeriesCombine(cell, value), cell)
  BY DEF Sound, SameMerges, SetSeriesCombine
<1>3. ASSUME NEW how
      PROVE  /\ Combine(cell, how, value).defs = cell.defs
             /\ Sound(Combine(cell, how, value))
  <2>1. /\ "defs" \in DOMAIN Combine(cell, how, value)
        /\ Combine(cell, how, value).defs = cell.defs
    BY DEF Combine, Sound
  <2> QED BY <2>1, SameDefsSound
<1> QED BY <1>1, <1>2, <1>3

LEMMA DefaultSound ==
  ASSUME NEW cell, Sound(cell)
  PROVE  Sound(PropertyDefault(cell))
<1>1. /\ Exclusive({"p_add", "p_crit"}) /\ Exclusive({"p_par", "s_crit"})
      /\ Exclusive({"s_add", "p_crit"}) /\ Exclusive({"s_add", "p_par"})
      /\ Exclusive({"p_add", "s_par"})
  BY DEF Exclusive
<1>2. ASSUME NEW r, Sound(r)
      PROVE  Sound([r EXCEPT !.series = TRUE])
  <2>1. "defs" \in DOMAIN [r EXCEPT !.series = TRUE] /\ [r EXCEPT !.series = TRUE].defs = r.defs
    BY <1>2 DEF Sound
  <2> QED BY <1>2, <2>1, SameDefsSound
<1>3. CASE cell.class = "fet"
  <2> DEFINE r == PropertyMerge(cell, "w", {"p_add", "p_crit"}, AllMask)
  <2>1. Sound(r)
    BY <1>1, MergeSound
  <2>2. Sound(PropertyDelete(r, {"as", "ad", "ps", "pd"}))
    BY <2>1, DeleteSame, SameMergesSound
  <2> QED BY <1>3, <2>2 DEF PropertyDefault
<1>4. CASE cell.class = "res"
  <2> DEFINE r1 == PropertyMerge(cell, "w", {"p_par", "s_crit"}, AllMask)
             r2 == PropertyMerge(r1, "l", {"s_add", "p_crit"}, AllMask)
             r3 == PropertyMerge(r2, "value", {"s_add", "p_par"}, AllMask)
  <2>1. Sound(r1)
    BY <1>1, MergeSound
  <2> HIDE DEF r1
  <2>2. Sound(r2)
    BY <1>1, <2>1, MergeSound
  <2> HIDE DEF r2
  <2>3. Sound(r3)
    BY <1>1, <2>2, MergeSound
  <2> HIDE DEF r3
  <2>4. Sound([r3 EXCEPT !.series = TRUE])
    BY <1>2, <2>3
  <2>5. PropertyDefault(cell) = [r3 EXCEPT !.series = TRUE]
    BY <1>4 DEF PropertyDefault, r1, r2, r3
  <2> QED BY <2>4, <2>5
<1>5. CASE cell.class = "cap"
  <2> DEFINE r1 == PropertyMerge(cell, "area", {"p_add", "s_par"}, AllMask)
             r2 == PropertyMerge(r1, "value", {"p_add", "s_par"}, AllMask)
  <2>1. Sound(r1)
    BY <1>1, MergeSound
  <2> HIDE DEF r1
  <2>2. Sound(r2)
    BY <1>1, <2>1, MergeSound
  <2> HIDE DEF r2
  <2>3. Sound([r2 EXCEPT !.series = TRUE])
    BY <1>2, <2>2
  <2>4. PropertyDefault(cell) = [r2 EXCEPT !.series = TRUE]
    BY <1>5 DEF PropertyDefault, r1, r2
  <2> QED BY <2>3, <2>4
<1>6. CASE cell.class = "ind"
  <2> DEFINE r == PropertyMerge(cell, "value", {"s_add", "p_par"}, AllMask)
  <2>1. Sound(r)
    BY <1>1, MergeSound
  <2> HIDE DEF r
  <2>2. Sound([r EXCEPT !.series = TRUE])
    BY <1>2, <2>1
  <2>3. PropertyDefault(cell) = [r EXCEPT !.series = TRUE]
    BY <1>6 DEF PropertyDefault, r
  <2> QED BY <2>2, <2>3
<1>7. CASE cell.class \notin {"fet", "res", "cap", "ind"}
  BY <1>7 DEF PropertyDefault
<1> QED BY <1>3, <1>4, <1>5, <1>6, <1>7

\* Neither are the pins, the ports and the instances.
LEMMA PinsSame ==
  ASSUME NEW cell, Sound(cell), NEW p, NEW q, NEW devices
  PROVE  /\ Sound(PermuteSetup(cell, p, q))
         /\ Sound(PermuteForget(cell, p, q))
         /\ Sound(PermuteForgetAll(cell))
         /\ Sound(PermuteDefault(cell, devices))
<1> DEFINE Same(new) == "defs" \in DOMAIN new /\ new.defs = cell.defs
<1>0. ASSUME NEW new, Same(new)
      PROVE  Sound(new)
  BY <1>0, SameDefsSound
<1>1. ASSUME NEW x, NEW y
      PROVE  Same(PermuteSetup(cell, x, y))
  BY DEF PermuteSetup, Sound
<1>2. Same(PermuteForget(cell, p, q))
  BY DEF PermuteForget, Sound
<1>3. Same(PermuteForgetAll(cell))
  BY DEF PermuteForgetAll, Sound
<1>4. Same(PermuteDefault(cell, devices))
  <2> DEFINE pins == DefaultPins(cell, devices)
  <2>1. CASE pins = << >>
    <3>1. PermuteDefault(cell, devices) = cell
      BY <2>1 DEF PermuteDefault
    <3> QED BY <3>1 DEF Sound
  <2>2. CASE pins # << >>
    <3>1. PermuteDefault(cell, devices) = PermuteSetup(cell, pins[1], pins[2])
      BY <2>2 DEF PermuteDefault
    <3> QED BY <1>1, <3>1
  <2> QED BY <2>1, <2>2
<1> HIDE DEF Same
<1> QED BY <1>0, <1>1, <1>2, <1>3, <1>4

LEMMA InstancesSame ==
  ASSUME NEW cell, Sound(cell), NEW name
  PROVE  /\ Sound(RemoveShorted(cell, name))
         /\ Sound(ClassDelete(cell, name))
         /\ \A defs, key, width, length : Sound(Derived(cell, name, defs, key, width, length))
<1> DEFINE Same(new) == "defs" \in DOMAIN new /\ new.defs = cell.defs
<1>0. ASSUME NEW new, Same(new)
      PROVE  Sound(new)
  BY <1>0, SameDefsSound
<1>1. Same(RemoveShorted(cell, name))
  BY DEF RemoveShorted, Sound
<1>2. Same(ClassDelete(cell, name))
  BY DEF ClassDelete, Sound
<1>3. ASSUME NEW defs, NEW key, NEW width, NEW length
      PROVE  Same(Derived(cell, name, defs, key, width, length))
  BY DEF Derived, Sound
<1> HIDE DEF Same
<1> QED BY <1>0, <1>1, <1>2, <1>3

-----------------------------------------------------------------------------
(* The commands.                                                            *)

\* The bits of a word are of one kind of merging, and exclusive.
LEMMA WordBits ==
  /\ \A how : \A type \in {"none", "add", "par", "critical"} :
       /\ Exclusive(CombineBits(how, type))
       /\ CombineBits(how, type) \subseteq IF how = "series" THEN SMask ELSE PMask
  /\ \A type \in {"none", "add", "add_critical", "par", "par_critical", "ser", "ser_critical"} :
       Exclusive(MergeBits(type))
<1>1. ASSUME NEW how, NEW type \in {"none", "add", "par", "critical"}
      PROVE  /\ Exclusive(CombineBits(how, type))
             /\ CombineBits(how, type) \subseteq IF how = "series" THEN SMask ELSE PMask
  <2>1. CASE type = "none"
    BY <2>1 DEF CombineBits, Exclusive
  <2>2. CASE type = "add"
    BY <2>2 DEF CombineBits, Exclusive, SMask, PMask
  <2>3. CASE type = "par"
    BY <2>3 DEF CombineBits, Exclusive, SMask, PMask
  <2>4. CASE type = "critical"
    BY <2>4 DEF CombineBits, Exclusive, SMask, PMask
  <2> QED BY <2>1, <2>2, <2>3, <2>4
<1>2. ASSUME NEW type \in {"none", "add", "add_critical", "par", "par_critical",
                           "ser", "ser_critical"}
      PROVE  Exclusive(MergeBits(type))
  BY DEF MergeBits, Exclusive
<1> QED BY <1>1, <1>2

\* What combine makes of a cell that it reaches: the other kind stays.
LEMMA CombinedCell ==
  ASSUME NEW cell, Sound(cell), NEW key, NEW mask, NEW bits,
         mask = SMask \/ mask = PMask,
         Exclusive(bits), bits \subseteq mask
  PROVE  /\ Sound(PropertyMerge(cell, key, bits, mask))
         /\ DOMAIN PropertyMerge(cell, key, bits, mask).defs = DOMAIN cell.defs
         /\ \A k \in DOMAIN cell.defs :
              PropertyMerge(cell, key, bits, mask).defs[k].merge \ mask = cell.defs[k].merge \ mask
<1> DEFINE new == PropertyMerge(cell, key, bits, mask)
<1>1. Sound(new)
  BY MergeSound
<1>2. /\ "defs" \in DOMAIN new
      /\ DOMAIN new.defs = DOMAIN cell.defs
      /\ \A k \in DOMAIN cell.defs :
           /\ "merge" \in DOMAIN new.defs[k]
           /\ new.defs[k].merge = IF k = key THEN (cell.defs[k].merge \ mask) \cup bits
                                  ELSE cell.defs[k].merge
  BY MergeReplaces
<1> HIDE DEF new
<1>3. ASSUME NEW k \in DOMAIN cell.defs
      PROVE  new.defs[k].merge \ mask = cell.defs[k].merge \ mask
  BY <1>2
<1> QED BY <1>1, <1>2, <1>3 DEF new

\* Command combine sets only the ways of merging of its kind.
OthersKept(cmd) ==
  \A c \in DOMAIN cells : \A k \in DOMAIN cells[c].defs \cap DOMAIN cells'[c].defs :
    LET mask == IF cmd.how = "series" THEN SMask ELSE PMask
    IN  cells'[c].defs[k].merge \ mask = cells[c].defs[k].merge \ mask

LEMMA CombineStep ==
  ASSUME SettingsInv, NEW cmd \in Commands, PropertyCombine(cmd)
  PROVE  /\ \A c \in DOMAIN cells' : Sound(cells'[c])
         /\ OthersKept(cmd)
<1> DEFINE mask == IF cmd.how = "series" THEN SMask ELSE PMask
           allow == cmd.what \notin {"disable", "none"}
           Allowed(c) == IF c \in Found(cmd) THEN Combine(cells[c], cmd.how, allow) ELSE cells[c]
           Merged(c) == IF c \in Targets(cmd) /\ cmd.what \notin {"enable", "disable"}
                        THEN PropertyMerge(Allowed(c), cmd.key, CombineBits(cmd.how, cmd.what), mask)
                        ELSE Allowed(c)
<1>1. cells' = [c \in DOMAIN cells |-> Merged(c)]
  BY DEF PropertyCombine
<1>2. cmd.what \in {"enable", "disable", "none", "add", "par", "critical"}
  BY WordsAreKnown DEF PropertyCombine, Command
<1>3. ASSUME NEW c \in DOMAIN cells
      PROVE  /\ Sound(Merged(c)) /\ DOMAIN Merged(c).defs = DOMAIN cells[c].defs
             /\ \A k \in DOMAIN cells[c].defs :
                  Merged(c).defs[k].merge \ mask = cells[c].defs[k].merge \ mask
  <2>1. Sound(cells[c])
    BY DEF SettingsInv
  <2>2. Sound(Allowed(c)) /\ Allowed(c).defs = cells[c].defs
    BY <2>1, FlagsSame
  <2>3. CASE c \in Targets(cmd) /\ cmd.what \notin {"enable", "disable"}
    <3> DEFINE cell == Allowed(c)
               bits == CombineBits(cmd.how, cmd.what)
    <3>1. cmd.what \in {"none", "add", "par", "critical"}
      BY <1>2, <2>3
    <3>2. mask = SMask \/ mask = PMask
      OBVIOUS
    <3>3. Exclusive(bits) /\ bits \subseteq mask
      BY <3>1, WordBits
    <3>4. Merged(c) = PropertyMerge(cell, cmd.key, bits, mask)
      BY <2>3
    <3>5. Sound(cell) /\ cell.defs = cells[c].defs
      BY <2>2
    <3> HIDE DEF Allowed, Merged, mask, cell, bits
    <3>6. /\ Sound(PropertyMerge(cell, cmd.key, bits, mask))
          /\ DOMAIN PropertyMerge(cell, cmd.key, bits, mask).defs = DOMAIN cell.defs
          /\ \A k \in DOMAIN cell.defs :
               PropertyMerge(cell, cmd.key, bits, mask).defs[k].merge \ mask
                 = cell.defs[k].merge \ mask
      BY <3>2, <3>3, <3>5, CombinedCell
    <3> QED BY <3>4, <3>5, <3>6
  <2>4. CASE ~(c \in Targets(cmd) /\ cmd.what \notin {"enable", "disable"})
    <3>1. Merged(c) = Allowed(c)
      BY <2>4
    <3> HIDE DEF Allowed, Merged
    <3> QED BY <2>2, <3>1
  <2> QED BY <2>3, <2>4
<1> HIDE DEF Merged
<1>4. DOMAIN cells' = DOMAIN cells /\ \A c \in DOMAIN cells : cells'[c] = Merged(c)
  BY <1>1
<1> QED BY <1>3, <1>4 DEF OthersKept

LEMMA ReadStep ==
  ASSUME SettingsInv, NEW f \in DOMAIN Netlists, Read(f)
  PROVE  \A c \in DOMAIN cells' : Sound(cells'[c])
<1> DEFINE new == [i \in DOMAIN Netlists[f] |-> <<Netlists[f][i][1], f>>]
           At(c) == CHOOSE i \in DOMAIN new : new[i] = c
           Made(c) == IF c \in ToSet(new) THEN CellDef(Netlists[f][At(c)][2]) ELSE cells[c]
<1>1. cells' = [c \in DOMAIN cells \cup ToSet(new) |-> Made(c)]
  BY DEF Read
<1>2. ASSUME NEW c \in DOMAIN cells \cup ToSet(new)
      PROVE  Sound(Made(c))
  <2>1. CASE c \in ToSet(new)
    <3>1. At(c) \in DOMAIN Netlists[f]
      BY <2>1 DEF ToSet
    <3> DEFINE old == Netlists[f][At(c)][2]
    <3>2. /\ "defs" \in DOMAIN old
          /\ \A k \in DOMAIN old.defs : old.defs[k] = Definition(old.defs[k].type, old.defs[k].slop)
      BY <3>1, NetlistsAreRead
    <3> HIDE DEF old
    <3>3. /\ "defs" \in DOMAIN CellDef(old)
          /\ CellDef(old).defs = old.defs
      BY <3>2 DEF CellDef
    <3>4. Sound(CellDef(old))
      BY <3>2, <3>3 DEF Sound, Definition, Exclusive
    <3>5. Made(c) = CellDef(old)
      BY <2>1 DEF old
    <3> QED BY <3>4, <3>5
  <2>2. CASE c \notin ToSet(new)
    BY <2>2 DEF SettingsInv
  <2> QED BY <2>1, <2>2
<1> HIDE DEF new, Made
<1> QED BY <1>1, <1>2

LEMMA DeriveStep ==
  ASSUME SettingsInv, NEW cmd \in Commands, PropertyDerives(cmd)
  PROVE  \A c \in DOMAIN cells' : Sound(cells'[c])
<1> DEFINE Added(c) == IF c \in Targets(cmd) THEN PropertyAdd(cells[c], cmd.what, "double", "default")
                       ELSE cells[c]
           added == [c \in DOMAIN cells |-> Added(c)]
<1>1. ASSUME NEW c \in DOMAIN cells
      PROVE  Sound(added[c])
  <2>1. Sound(cells[c])
    BY DEF SettingsInv
  <2>2. Sound(PropertyAdd(cells[c], cmd.what, "double", "default"))
    BY <2>1, AddSame, SameMergesSound
  <2>3. Sound(Added(c))
    BY <2>1, <2>2
  <2> HIDE DEF Added
  <2> QED BY <2>3
<1>2. CASE UNCHANGED cells
  BY <1>2 DEF SettingsInv
<1>3. ASSUME NEW tc, NEW reached,
             cells' = [c \in DOMAIN cells |->
               IF c \in reached
               THEN Derived(added[c], tc[1], added[tc].defs, cmd.what, cmd.width, cmd.length)
               ELSE added[c]]
      PROVE  \A c \in DOMAIN cells' : Sound(cells'[c])
  <2> DEFINE Changed(c) == IF c \in reached
                       THEN Derived(added[c], tc[1], added[tc].defs, cmd.what, cmd.width, cmd.length)
                       ELSE added[c]
  <2> HIDE DEF added
  <2>1. ASSUME NEW c \in DOMAIN cells
        PROVE  Sound(Changed(c))
    BY <1>1, <2>1, InstancesSame
  <2>2. cells' = [c \in DOMAIN cells |-> Changed(c)]
    BY <1>3
  <2> HIDE DEF Changed
  <2> QED BY <2>1, <2>2
<1> HIDE DEF added
<1>4. CASE ~UNCHANGED cells
  <2>1. PICK tc \in Found(cmd), reached \in (SUBSET DOMAIN cells) \ {{}} :
          cells' = [c \in DOMAIN cells |->
            IF c \in reached
            THEN Derived(added[c], tc[1], added[tc].defs, cmd.what, cmd.width, cmd.length)
            ELSE added[c]]
    BY <1>4 DEF PropertyDerives, added
  <2> QED BY <1>3, <2>1
<1> QED BY <1>2, <1>4

LEMMA PropertyStep ==
  ASSUME SettingsInv, NEW cmd \in Commands,
         \/ PropertyDefaults(cmd) \/ PropertyParallel(cmd) \/ PropertySeries(cmd)
         \/ PropertyTopology(cmd) \/ PropertyMerges(cmd) \/ PropertyAdds(cmd)
         \/ PropertyRemoves(cmd) \/ PropertyAssociates(cmd) \/ PropertyTolerances(cmd)
  PROVE  \A c \in DOMAIN cells' : Sound(cells'[c])
<1>0. \A c \in DOMAIN cells : Sound(cells[c])
  BY DEF SettingsInv
<1>1. CASE PropertyDefaults(cmd)
  <2> DEFINE Changed(c) == PropertyDefault(cells[c])
  <2>1. ASSUME NEW c \in DOMAIN cells
        PROVE  Sound(Changed(c))
    BY <1>0, <2>1, DefaultSound
  <2>2. cells' = [c \in DOMAIN cells |-> Changed(c)]
    BY <1>1 DEF PropertyDefaults
  <2> HIDE DEF Changed
  <2> QED BY <2>1, <2>2
<1>2. CASE PropertyParallel(cmd)
  <2>1. CASE UNCHANGED cells
    BY <1>0, <2>1
  <2>2. CASE ~UNCHANGED cells
    <3> DEFINE Changed(c) == SetParallelCombine(cells[c], cmd.what = "all")
    <3>1. ASSUME NEW c \in DOMAIN cells
          PROVE  Sound(Changed(c))
      BY <1>0, <3>1, FlagsSame, SameMergesSound
    <3>2. cells' = [c \in DOMAIN cells |-> Changed(c)]
      BY <1>2, <2>2 DEF PropertyParallel
    <3> HIDE DEF Changed
    <3> QED BY <3>1, <3>2
  <2> QED BY <2>1, <2>2
<1>3. CASE PropertySeries(cmd)
  <2> DEFINE Changed(c) == SetSeriesCombine(cells[c], cmd.what = "all")
  <2>1. ASSUME NEW c \in DOMAIN cells
        PROVE  Sound(Changed(c))
    BY <1>0, <2>1, FlagsSame, SameMergesSound
  <2>2. cells' = [c \in DOMAIN cells |-> Changed(c)]
    BY <1>3 DEF PropertySeries
  <2> HIDE DEF Changed
  <2> QED BY <2>1, <2>2
<1>4. CASE PropertyTopology(cmd)
  BY <1>0, <1>4 DEF PropertyTopology
<1>5. CASE PropertyMerges(cmd)
  <2> DEFINE Changed(c) == 
         IF c \in Targets(cmd) THEN PropertyMerge(cells[c], cmd.key, MergeBits(cmd.what), AllMask)
         ELSE cells[c]
  <2>0. Exclusive(MergeBits(cmd.what))
    <3>1. cmd.what \in {"none", "add", "add_critical", "par", "par_critical", "ser", "ser_critical"}
      BY <1>5, WordsAreKnown DEF PropertyMerges, Command
    <3> QED BY <3>1, WordBits
  <2>1. ASSUME NEW c \in DOMAIN cells
        PROVE  Sound(Changed(c))
    BY <1>0, <2>1, <2>0, MergeSound
  <2>2. cells' = [c \in DOMAIN cells |-> Changed(c)]
    BY <1>5 DEF PropertyMerges
  <2> HIDE DEF Changed
  <2> QED BY <2>1, <2>2
<1>6. CASE PropertyAdds(cmd)
  <2> DEFINE Changed(c) == 
         IF c \in Targets(cmd) THEN PropertyAdd(cells[c], cmd.key, cmd.type, cmd.slop)
         ELSE cells[c]
  <2>1. ASSUME NEW c \in DOMAIN cells
        PROVE  Sound(Changed(c))
    BY <1>0, <2>1, AddSame, SameMergesSound
  <2>2. cells' = [c \in DOMAIN cells |-> Changed(c)]
    BY <1>6 DEF PropertyAdds
  <2> HIDE DEF Changed
  <2> QED BY <2>1, <2>2
<1>7. CASE PropertyRemoves(cmd)
  <2> DEFINE Changed(c) == 
         IF cmd.keys = {} /\ c \in Found(cmd) THEN PropertyDelete(cells[c], DOMAIN cells[c].defs)
         ELSE IF cmd.keys # {} /\ c \in Targets(cmd) THEN PropertyDelete(cells[c], cmd.keys)
         ELSE cells[c]
  <2>1. ASSUME NEW c \in DOMAIN cells
        PROVE  Sound(Changed(c))
    BY <1>0, <2>1, DeleteSame, SameMergesSound
  <2>2. cells' = [c \in DOMAIN cells |-> Changed(c)]
    BY <1>7 DEF PropertyRemoves
  <2> HIDE DEF Changed
  <2> QED BY <2>1, <2>2
<1>8. CASE PropertyAssociates(cmd)
  <2> DEFINE Changed(c) == 
         IF c \in Targets(cmd) THEN PropertyAssociatePin(cells[c], cmd.key, cmd.pin)
         ELSE cells[c]
  <2>1. ASSUME NEW c \in DOMAIN cells
        PROVE  Sound(Changed(c))
    BY <1>0, <2>1, AssociateSame, SameMergesSound
  <2>2. cells' = [c \in DOMAIN cells |-> Changed(c)]
    BY <1>8 DEF PropertyAssociates
  <2> HIDE DEF Changed
  <2> QED BY <2>1, <2>2
<1>9. CASE PropertyTolerances(cmd)
  <2> DEFINE Changed(c) == 
         IF c \in Targets(cmd)
         THEN PropertyTolerance(cells[c], cmd.key,
                IF cmd.kind = "double" THEN Unset ELSE cmd.slop,
                IF cmd.kind = "integer" THEN Unset ELSE cmd.slop)
         ELSE cells[c]
  <2>1. ASSUME NEW c \in DOMAIN cells
        PROVE  Sound(Changed(c))
    BY <1>0, <2>1, ToleranceSame, SameMergesSound
  <2>2. cells' = [c \in DOMAIN cells |-> Changed(c)]
    BY <1>9 DEF PropertyTolerances
  <2> HIDE DEF Changed
  <2> QED BY <2>1, <2>2
<1> QED BY <1>1, <1>2, <1>3, <1>4, <1>5, <1>6, <1>7, <1>8, <1>9

LEMMA PinStep ==
  ASSUME SettingsInv, NEW cmd \in Commands,
         PermuteClasses(cmd) \/ PermutePins(cmd) \/ PermuteForgets(cmd) \/ IgnoreClass(cmd)
  PROVE  \A c \in DOMAIN cells' : Sound(cells'[c])
<1>0. \A c \in DOMAIN cells : Sound(cells[c])
  BY DEF SettingsInv
<1>1. CASE PermuteClasses(cmd)
  <2> DEFINE Changed(c) == PermuteDefault(cells[c], cmd.what)
  <2>1. ASSUME NEW c \in DOMAIN cells
        PROVE  Sound(Changed(c))
    BY <1>0, <2>1, PinsSame
  <2>2. cells' = [c \in DOMAIN cells |-> Changed(c)]
    BY <1>1 DEF PermuteClasses
  <2> HIDE DEF Changed
  <2> QED BY <2>1, <2>2
<1>2. CASE PermutePins(cmd)
  <2> DEFINE Changed(c) == 
         IF c \in PermuteTargets(cmd) THEN PermuteSetup(cells[c], cmd.pins[1], cmd.pins[2])
         ELSE cells[c]
  <2>1. ASSUME NEW c \in DOMAIN cells
        PROVE  Sound(Changed(c))
    BY <1>0, <2>1, PinsSame
  <2>2. cells' = [c \in DOMAIN cells |-> Changed(c)]
    BY <1>2 DEF PermutePins
  <2> HIDE DEF Changed
  <2> QED BY <2>1, <2>2
<1>3. CASE PermuteForgets(cmd)
  <2> DEFINE Changed(c) == 
         IF cmd.cell # << >> /\ c \notin PermuteTargets(cmd) THEN cells[c]
         ELSE IF cmd.pins = << >> THEN PermuteForgetAll(cells[c])
         ELSE PermuteForget(cells[c], cmd.pins[1], cmd.pins[2])
  <2>1. ASSUME NEW c \in DOMAIN cells
        PROVE  Sound(Changed(c))
    BY <1>0, <2>1, PinsSame
  <2>2. cells' = [c \in DOMAIN cells |-> Changed(c)]
    BY <1>3 DEF PermuteForgets
  <2> HIDE DEF Changed
  <2> QED BY <2>1, <2>2
<1>4. CASE IgnoreClass(cmd)
  <2> DEFINE files == IF CommonParseCell(cmd.cell).file # AnyFile THEN {CommonParseCell(cmd.cell).file}
                      ELSE IF circuits # << >> THEN ToSet(circuits) ELSE {c[2] : c \in DOMAIN cells}
             name == (CHOOSE n \in Found(cmd) : TRUE)[1]
             Without(c, n) == IF cmd.what = "class" THEN ClassDelete(cells[c], n)
                              ELSE RemoveShorted(cells[c], n)
             Changed(c) == IF c[2] \in files /\ \E n \in Found(cmd) : <<n[1], c[2]>> \in DOMAIN cells
                           THEN Without(c, name) ELSE cells[c]
  <2>1. cells' = [c \in DOMAIN cells |-> Changed(c)]
    BY <1>4 DEF IgnoreClass
  <2> HIDE DEF files, name
  <2>2. ASSUME NEW c \in DOMAIN cells
        PROVE  Sound(Changed(c))
    <3>1. Sound(cells[c])
      BY <1>0
    <3>2. Sound(Without(c, name))
      BY <3>1, InstancesSame
    <3> HIDE DEF Without
    <3> QED BY <3>1, <3>2
  <2> HIDE DEF Changed
  <2> QED BY <2>1, <2>2
<1> QED BY <1>1, <1>2, <1>3, <1>4

-----------------------------------------------------------------------------
(* All steps.                                                               *)

LEMMA SettingsInvariant == Spec => []SettingsInv
<1>1. Init => SettingsInv
  BY DEF Init, SettingsInv
<1>2. SettingsInv /\ [Next]_vars => SettingsInv'
  <2> SUFFICES ASSUME SettingsInv, [Next]_vars
               PROVE  SettingsInv'
    OBVIOUS
  <2>1. CASE UNCHANGED vars
    BY <2>1 DEF SettingsInv, vars
  <2>2. ASSUME NEW f \in DOMAIN Netlists, Read(f)
        PROVE  SettingsInv'
    <3>1. history' \in Seq(Events)
      BY <2>2 DEF SettingsInv, Read, Done, Events
    <3> QED BY <2>2, <3>1, ReadStep DEF SettingsInv
  <2>3. CASE Assign
    <3>1. history' \in Seq(Events)
      BY <2>3 DEF SettingsInv, Assign, Done, Events
    <3> QED BY <2>3, <3>1 DEF SettingsInv, Assign
  <2>4. ASSUME NEW cmd \in Commands, NEW op, Command(op, cmd),
               \A c \in DOMAIN cells' : Sound(cells'[c])
        PROVE  SettingsInv'
    BY <2>4 DEF SettingsInv, Command, Done, Events
  <2>5. ASSUME NEW cmd \in Commands, PropertyCombine(cmd)
        PROVE  SettingsInv'
    BY <2>4, <2>5, CombineStep DEF PropertyCombine
  <2>6. ASSUME NEW cmd \in Commands, PropertyDerives(cmd)
        PROVE  SettingsInv'
    BY <2>4, <2>6, DeriveStep DEF PropertyDerives
  <2>7. ASSUME NEW cmd \in Commands,
               \/ PropertyDefaults(cmd) \/ PropertyParallel(cmd) \/ PropertySeries(cmd)
               \/ PropertyTopology(cmd) \/ PropertyMerges(cmd) \/ PropertyAdds(cmd)
               \/ PropertyRemoves(cmd) \/ PropertyAssociates(cmd) \/ PropertyTolerances(cmd)
        PROVE  SettingsInv'
    <3>1. \A c \in DOMAIN cells' : Sound(cells'[c])
      BY <2>7, PropertyStep
    <3>2. \E op : Command(op, cmd)
      BY <2>7 DEF PropertyDefaults, PropertyParallel, PropertySeries, PropertyTopology,
           PropertyMerges, PropertyAdds, PropertyRemoves, PropertyAssociates, PropertyTolerances
    <3> QED BY <2>4, <3>1, <3>2
  <2>8. ASSUME NEW cmd \in Commands,
               PermuteClasses(cmd) \/ PermutePins(cmd) \/ PermuteForgets(cmd) \/ IgnoreClass(cmd)
        PROVE  SettingsInv'
    <3>1. \A c \in DOMAIN cells' : Sound(cells'[c])
      BY <2>8, PinStep
    <3>2. \E op : Command(op, cmd)
      BY <2>8 DEF PermuteClasses, PermutePins, PermuteForgets, IgnoreClass
    <3> QED BY <2>4, <3>1, <3>2
  <2> QED BY <2>1, <2>2, <2>3, <2>5, <2>6, <2>7, <2>8 DEF Next
<1> QED BY <1>1, <1>2, PTL DEF Spec

\* The last event is the one of the step.
LEMMA LastDone ==
  ASSUME SettingsInv, NEW what, Done(what)
  PROVE  New = what
BY DEF SettingsInv, Done, New, Last

\* The step after which the last event is a command combine is that command.
LEMMA CombineIsLast ==
  ASSUME SettingsInv, Next, New.op = "combine"
  PROVE  New \in Commands /\ PropertyCombine(New)
<1>1. ASSUME NEW f, Read(f)
      PROVE  FALSE
  <2>1. New = [op |-> "read", file |-> f]
    BY <1>1, LastDone DEF Read
  <2> QED BY <2>1
<1>2. ASSUME Assign
      PROVE  FALSE
  <2>1. New = [op |-> "assign"]
    BY <1>2, LastDone DEF Assign
  <2> QED BY <2>1
<1>3. ASSUME NEW cmd, NEW op, Command(op, cmd)
      PROVE  New = cmd /\ op = "combine"
  BY <1>3, LastDone DEF Command
<1>4. ASSUME NEW cmd \in Commands,
             \/ PropertyDefaults(cmd) \/ PropertyParallel(cmd) \/ PropertySeries(cmd)
             \/ PropertyTopology(cmd) \/ PropertyMerges(cmd) \/ PropertyAdds(cmd)
             \/ PropertyRemoves(cmd) \/ PropertyAssociates(cmd) \/ PropertyTolerances(cmd)
             \/ PropertyDerives(cmd)
      PROVE  FALSE
  <2>1. \E op : op # "combine" /\ Command(op, cmd)
    BY <1>4 DEF PropertyDefaults, PropertyParallel, PropertySeries, PropertyTopology,
         PropertyMerges, PropertyAdds, PropertyRemoves, PropertyAssociates,
         PropertyTolerances, PropertyDerives
  <2> QED BY <1>3, <2>1
<1>5. ASSUME NEW cmd \in Commands,
             PermuteClasses(cmd) \/ PermutePins(cmd) \/ PermuteForgets(cmd) \/ IgnoreClass(cmd)
      PROVE  FALSE
  <2>1. \E op : op # "combine" /\ Command(op, cmd)
    BY <1>5 DEF PermuteClasses, PermutePins, PermuteForgets, IgnoreClass
  <2> QED BY <1>3, <2>1
<1>6. PICK cmd \in Commands : PropertyCombine(cmd)
  BY <1>1, <1>2, <1>4, <1>5 DEF Next
<1>7. New = cmd
  BY <1>3, <1>6 DEF PropertyCombine
<1> QED BY <1>6, <1>7

(***************************************************************************)
(* For all netlists and all sequences of commands, before, between and      *)
(* after reading and assigning: no property is to be added and to have its  *)
(* reciprocals added when devices merge in one way, and setting how it      *)
(* merges in series leaves how it merges in parallel alone, and the         *)
(* converse (PropertyMerge with the masks of `property series' and          *)
(* `property parallel').                                                    *)
(***************************************************************************)
THEOREM MergesStayApart == Spec => MergesApart
<1>1. ASSUME SettingsInv, SettingsInv', [Next]_vars
      PROVE  \A c \in DOMAIN cells : \A k \in DOMAIN cells[c].defs \cap DOMAIN cells'[c].defs :
               LET old == cells[c].defs[k].merge
                   new == cells'[c].defs[k].merge
               IN  /\ ~({"p_add", "p_par"} \subseteq new) /\ ~({"s_add", "s_par"} \subseteq new)
                   /\ IsCommand /\ New.op = "combine" =>
                        IF New.how = "series" THEN new \cap PMask = old \cap PMask
                        ELSE new \cap SMask = old \cap SMask
  <2>1. DOMAIN cells \subseteq DOMAIN cells'
    <3>1. CASE UNCHANGED vars
      BY <3>1 DEF vars
    <3>2. CASE Next
      BY <3>2 DEF Next, Read, Assign, PropertyDefaults, PropertyParallel, PropertySeries,
           PropertyTopology, PropertyCombine, PropertyMerges, PropertyAdds, PropertyRemoves,
           PropertyAssociates, PropertyTolerances, PropertyDerives, PermuteClasses,
           PermutePins, PermuteForgets, IgnoreClass
    <3> QED BY <1>1, <3>1, <3>2
  <2>2. ASSUME NEW c \in DOMAIN cells,
               NEW k \in DOMAIN cells[c].defs \cap DOMAIN cells'[c].defs
        PROVE  Exclusive(cells'[c].defs[k].merge)
    <3>1. Sound(cells'[c])
      BY <1>1, <2>1 DEF SettingsInv
    <3> QED BY <3>1 DEF Sound
  <2>3. ASSUME IsCommand, New.op = "combine",
               NEW c \in DOMAIN cells,
               NEW k \in DOMAIN cells[c].defs \cap DOMAIN cells'[c].defs
        PROVE  IF New.how = "series"
               THEN cells'[c].defs[k].merge \cap PMask = cells[c].defs[k].merge \cap PMask
               ELSE cells'[c].defs[k].merge \cap SMask = cells[c].defs[k].merge \cap SMask
    <3>1. Next
      BY <1>1, <2>3 DEF IsCommand, vars
    <3>2. OthersKept(New)
      BY <1>1, <2>3, <3>1, CombineIsLast, CombineStep
    <3>3. LET mask == IF New.how = "series" THEN SMask ELSE PMask
          IN  cells'[c].defs[k].merge \ mask = cells[c].defs[k].merge \ mask
      BY <3>2 DEF OthersKept
    <3>4. PMask \cap SMask = {}
      BY DEF PMask, SMask
    <3> QED BY <3>3, <3>4
  <2> QED BY <2>2, <2>3 DEF Exclusive
<1> QED BY <1>1, SettingsInvariant, PTL DEF Spec, MergesApart

-----------------------------------------------------------------------------
(* What stays in a cell: its fields, whether it is a top cell, and the names *)
(* of its pins.                                                              *)

CellFields == {"class", "top", "ports", "defs", "series", "noparallel",
               "permutes", "freed", "insts"}

Whole(cell) == CellFields \subseteq DOMAIN cell
Keeps(new, old) ==
  /\ DOMAIN new = DOMAIN old
  /\ new.top = old.top
  /\ PinNames(new) = PinNames(old)
Steady(new, old) == Keeps(new, old) /\ new.noparallel = old.noparallel

LEMMA SteadyTwice ==
  ASSUME NEW a, NEW b, NEW c, Steady(a, b), Steady(b, c)
  PROVE  Steady(a, c)
BY DEF Steady, Keeps

LEMMA SteadySelf ==
  ASSUME NEW a
  PROVE  Steady(a, a)
BY DEF Steady, Keeps

LEMMA DefinitionsSteady ==
  ASSUME NEW cell, Whole(cell)
  PROVE  /\ \A key, type, slop : Steady(PropertyAdd(cell, key, type, slop), cell)
         /\ \A keys : Steady(PropertyDelete(cell, keys), cell)
         /\ \A key, pin : Steady(PropertyAssociatePin(cell, key, pin), cell)
         /\ \A key, ival, dval : Steady(PropertyTolerance(cell, key, ival, dval), cell)
         /\ \A key, types, mask : Steady(PropertyMerge(cell, key, types, mask), cell)
<1>1. \A key, type, slop : Steady(PropertyAdd(cell, key, type, slop), cell)
  BY DEF PropertyAdd, Whole, CellFields, Steady, Keeps, PinNames
<1>2. \A keys : Steady(PropertyDelete(cell, keys), cell)
  BY DEF PropertyDelete, Whole, CellFields, Steady, Keeps, PinNames
<1>3. \A key, pin : Steady(PropertyAssociatePin(cell, key, pin), cell)
  BY DEF PropertyAssociatePin, Whole, CellFields, Steady, Keeps, PinNames
<1>4. \A key, ival, dval : Steady(PropertyTolerance(cell, key, ival, dval), cell)
  BY DEF PropertyTolerance, Whole, CellFields, Steady, Keeps, PinNames
<1>5. \A key, types, mask : Steady(PropertyMerge(cell, key, types, mask), cell)
  BY DEF PropertyMerge, Whole, CellFields, Steady, Keeps, PinNames
<1> QED BY <1>1, <1>2, <1>3, <1>4, <1>5

LEMMA SeriesSteady ==
  ASSUME NEW cell, Whole(cell)
  PROVE  /\ Steady([cell EXCEPT !.series = TRUE], cell)
         /\ \A value : Steady(SetSeriesCombine(cell, value), cell)
BY DEF SetSeriesCombine, Whole, CellFields, Steady, Keeps, PinNames

LEMMA DefaultSteady ==
  ASSUME NEW cell, Whole(cell)
  PROVE  Steady(PropertyDefault(cell), cell)
<1>1. ASSUME NEW x, Steady(x, cell), NEW key, NEW types
      PROVE  Steady(PropertyMerge(x, key, types, AllMask), cell)
  BY <1>1, DefinitionsSteady, SteadyTwice DEF Steady, Keeps, Whole
<1>2. ASSUME NEW x, Steady(x, cell)
      PROVE  Steady([x EXCEPT !.series = TRUE], cell)
  BY <1>2, SeriesSteady, SteadyTwice DEF Steady, Keeps, Whole
<1>3. Steady(cell, cell)
  BY SteadySelf
<1>4. CASE cell.class = "fet"
  <2> DEFINE x == PropertyMerge(cell, "w", {"p_add", "p_crit"}, AllMask)
  <2>1. Steady(x, cell)
    BY <1>1, <1>3
  <2> HIDE DEF x
  <2>2. Whole(x)
    BY <2>1 DEF Steady, Keeps, Whole
  <2>3. Steady(PropertyDelete(x, {"as", "ad", "ps", "pd"}), x)
    BY <2>2, DefinitionsSteady
  <2>4. Steady(PropertyDelete(x, {"as", "ad", "ps", "pd"}), cell)
    BY <2>1, <2>3, SteadyTwice
  <2> QED BY <1>4, <2>4 DEF PropertyDefault, x
<1>5. CASE cell.class = "res"
  <2> DEFINE x == PropertyMerge(cell, "w", {"p_par", "s_crit"}, AllMask)
             y == PropertyMerge(x, "l", {"s_add", "p_crit"}, AllMask)
             z == PropertyMerge(y, "value", {"s_add", "p_par"}, AllMask)
  <2>1. Steady(x, cell)
    BY <1>1, <1>3
  <2> HIDE DEF x
  <2>2. Steady(y, cell)
    BY <1>1, <2>1
  <2> HIDE DEF y
  <2>3. Steady(z, cell)
    BY <1>1, <2>2
  <2> HIDE DEF z
  <2>4. Steady([z EXCEPT !.series = TRUE], cell)
    BY <1>2, <2>3
  <2> QED BY <1>5, <2>4 DEF PropertyDefault, x, y, z
<1>6. CASE cell.class = "cap"
  <2> DEFINE x == PropertyMerge(cell, "area", {"p_add", "s_par"}, AllMask)
             y == PropertyMerge(x, "value", {"p_add", "s_par"}, AllMask)
  <2>1. Steady(x, cell)
    BY <1>1, <1>3
  <2> HIDE DEF x
  <2>2. Steady(y, cell)
    BY <1>1, <2>1
  <2> HIDE DEF y
  <2>3. Steady([y EXCEPT !.series = TRUE], cell)
    BY <1>2, <2>2
  <2> QED BY <1>6, <2>3 DEF PropertyDefault, x, y
<1>7. CASE cell.class = "ind"
  <2> DEFINE x == PropertyMerge(cell, "value", {"s_add", "p_par"}, AllMask)
  <2>1. Steady(x, cell)
    BY <1>1, <1>3
  <2> HIDE DEF x
  <2>2. Steady([x EXCEPT !.series = TRUE], cell)
    BY <1>2, <2>1
  <2> QED BY <1>7, <2>2 DEF PropertyDefault, x
<1>8. CASE cell.class \notin {"fet", "res", "cap", "ind"}
  BY <1>8, <1>3 DEF PropertyDefault
<1> QED BY <1>4, <1>5, <1>6, <1>7, <1>8

LEMMA PermutesSteady ==
  ASSUME NEW cell, Whole(cell)
  PROVE  /\ \A p, q : Steady(PermuteSetup(cell, p, q), cell)
         /\ \A p, q : Steady(PermuteForget(cell, p, q), cell)
         /\ Steady(PermuteForgetAll(cell), cell)
         /\ \A devices : Steady(PermuteDefault(cell, devices), cell)
<1>1. \A p, q : Steady(PermuteSetup(cell, p, q), cell)
  BY DEF PermuteSetup, Whole, CellFields, Steady, Keeps, PinNames
<1>2. \A p, q : Steady(PermuteForget(cell, p, q), cell)
  BY DEF PermuteForget, Whole, CellFields, Steady, Keeps, PinNames
<1>3. Steady(PermuteForgetAll(cell), cell)
  BY DEF PermuteForgetAll, Whole, CellFields, Steady, Keeps, PinNames
<1>4. ASSUME NEW devices
      PROVE  Steady(PermuteDefault(cell, devices), cell)
  <2> DEFINE pins == DefaultPins(cell, devices)
  <2> HIDE DEF pins
  <2>1. PermuteDefault(cell, devices) = IF pins = << >> THEN cell
                                        ELSE PermuteSetup(cell, pins[1], pins[2])
    BY DEF PermuteDefault, pins
  <2> QED BY <1>1, <2>1, SteadySelf
<1> QED BY <1>1, <1>2, <1>3, <1>4

LEMMA InstancesSteady ==
  ASSUME NEW cell, Whole(cell), NEW name
  PROVE  /\ Steady(RemoveShorted(cell, name), cell)
         /\ Steady(ClassDelete(cell, name), cell)
         /\ \A defs, key, width, length : Steady(Derived(cell, name, defs, key, width, length), cell)
<1>1. Steady(RemoveShorted(cell, name), cell)
  BY DEF RemoveShorted, Whole, CellFields, Steady, Keeps, PinNames
<1>2. Steady(ClassDelete(cell, name), cell)
  <2> DEFINE left == SelectSeq(cell.insts, LAMBDA x : x.model # name)
             Used(insts) == UNION {ToSet(x.nodes) : x \in ToSet(insts)}
             bare == Used(cell.insts) \ Used(left)
             IsLast(i) == \A j \in DOMAIN cell.ports : j > i => cell.ports[j][2] # cell.ports[i][2]
             ports == [i \in DOMAIN cell.ports |->
                         IF cell.ports[i][2] \in bare /\ IsLast(i)
                         THEN <<cell.ports[i][1], -1>> ELSE cell.ports[i]]
  <2>1. ClassDelete(cell, name) = [cell EXCEPT !.insts = left, !.ports = ports]
    BY DEF ClassDelete
  <2>2. DOMAIN ports = DOMAIN cell.ports /\ \A i \in DOMAIN cell.ports : ports[i][1] = cell.ports[i][1]
    OBVIOUS
  <2> HIDE DEF left, ports
  <2> QED BY <2>1, <2>2 DEF Whole, CellFields, Steady, Keeps, PinNames
<1>3. ASSUME NEW defs, NEW key, NEW width, NEW length
      PROVE  Steady(Derived(cell, name, defs, key, width, length), cell)
  <2>1. \E x : Derived(cell, name, defs, key, width, length) = [cell EXCEPT !.insts = x]
    BY DEF Derived
  <2>2. \A x : Steady([cell EXCEPT !.insts = x], cell)
    BY DEF Whole, CellFields, Steady, Keeps, PinNames
  <2> QED BY <2>1, <2>2
<1> QED BY <1>1, <1>2, <1>3

-----------------------------------------------------------------------------
(* The last event that speaks of a cell.                                     *)

TopOf == <<"top1", "top2">>
ReadOf(f) == [op |-> "read", file |-> f]

\* Event i of a history is for all cells, or for cell c.
ForAll(h, i) == h[i].op = "parallel" /\ h[i].what \in {"none", "all"}
ForCell(h, c, i) ==
  /\ h[i].op = "combine" /\ h[i].how = "parallel"
  /\ \E j \in DOMAIN h : j < i /\ h[j] = ReadOf(c[2])
  /\ Name(c[1]) \in ToSet(h[i].cell) /\ c[1] # TopOf[c[2]]
  /\ FilesMeant(h[i].cell) = {c[2]}
  /\ \A o \in ToSet(h[i].cell) : o[1] = "option" => \E j \in 1..i : h[j].op = "assign"
Says(h, c, i) == ForAll(h, i) \/ ForCell(h, c, i)

Denies(event) == event.what \in {"none", "disable"}

\* A flag has the value that the last such event gave it, and is FALSE before.
LastForAll(h, value) ==
  \/ value = FALSE /\ \A i \in DOMAIN h : ~ForAll(h, i)
  \/ \E m \in DOMAIN h :
       /\ ForAll(h, m) /\ \A i \in DOMAIN h : ForAll(h, i) => i <= m
       /\ value = (h[m].what = "none")
LastSays(h, c, value) ==
  \/ value = FALSE /\ \A i \in DOMAIN h : ~Says(h, c, i)
  \/ \E m \in DOMAIN h :
       /\ Says(h, c, m) /\ \A i \in DOMAIN h : Says(h, c, i) => i <= m
       /\ value = Denies(h[m])

LEMMA Appended ==
  ASSUME NEW S, NEW h \in Seq(S), NEW e
  PROVE  LET g == Append(h, e)
         IN  /\ Len(h) \in Nat /\ DOMAIN h = 1..Len(h) /\ Len(g) = Len(h) + 1
             /\ DOMAIN g = 1..(Len(h) + 1)
             /\ \A i \in 1..Len(h) : g[i] = h[i]
             /\ g[Len(h) + 1] = e
<1>1. h \in Seq(S \cup {e})
  OBVIOUS
<1> QED BY <1>1

\* What has been said stays said.
LEMMA SaysStays ==
  ASSUME NEW S, NEW h \in Seq(S), NEW e, NEW c, NEW i \in DOMAIN h
  PROVE  /\ ForAll(Append(h, e), i) <=> ForAll(h, i)
         /\ Says(Append(h, e), c, i) <=> Says(h, c, i)
<1> DEFINE g == Append(h, e)
<1>1. /\ Len(h) \in Nat /\ DOMAIN h = 1..Len(h) /\ DOMAIN g = 1..(Len(h) + 1)
      /\ \A j \in 1..Len(h) : g[j] = h[j]
  BY Appended
<1> HIDE DEF g
<1>2. g[i] = h[i]
  BY <1>1
<1>3. ForAll(g, i) <=> ForAll(h, i)
  BY <1>2 DEF ForAll
<1>4. (\E j \in DOMAIN g : j < i /\ g[j] = ReadOf(c[2]))
        <=> (\E j \in DOMAIN h : j < i /\ h[j] = ReadOf(c[2]))
  BY <1>1
<1>5. (\E j \in 1..i : g[j].op = "assign") <=> (\E j \in 1..i : h[j].op = "assign")
  BY <1>1
<1>6. ForCell(g, c, i) <=> ForCell(h, c, i)
  BY <1>2, <1>4, <1>5 DEF ForCell
<1> QED BY <1>3, <1>6 DEF Says, g

LEMMA AppendForAll ==
  ASSUME NEW S, NEW h \in Seq(S), NEW e, NEW value, LastForAll(h, value)
  PROVE  LET g == Append(h, e)
         IN  /\ ForAll(g, Len(h) + 1) => LastForAll(g, e.what = "none")
             /\ ~ForAll(g, Len(h) + 1) => LastForAll(g, value)
<1> DEFINE g == Append(h, e)
<1>1. /\ Len(h) \in Nat /\ DOMAIN h = 1..Len(h) /\ DOMAIN g = 1..(Len(h) + 1)
      /\ \A j \in 1..Len(h) : g[j] = h[j]
      /\ g[Len(h) + 1] = e
  BY Appended
<1>2. \A i \in DOMAIN h : ForAll(g, i) <=> ForAll(h, i)
  BY SaysStays
<1> HIDE DEF g
<1>3. ASSUME ForAll(g, Len(h) + 1)
      PROVE  LastForAll(g, e.what = "none")
  BY <1>1, <1>3 DEF LastForAll
<1>4. ASSUME ~ForAll(g, Len(h) + 1)
      PROVE  LastForAll(g, value)
  <2>1. CASE value = FALSE /\ \A i \in DOMAIN h : ~ForAll(h, i)
    <3>1. \A i \in DOMAIN g : ~ForAll(g, i)
      BY <1>1, <1>2, <1>4, <2>1
    <3> QED BY <2>1, <3>1 DEF LastForAll
  <2>2. ASSUME NEW m \in DOMAIN h, ForAll(h, m), \A i \in DOMAIN h : ForAll(h, i) => i <= m,
               value = (h[m].what = "none")
        PROVE  LastForAll(g, value)
    <3>1. m \in DOMAIN g /\ g[m] = h[m] /\ ForAll(g, m)
      BY <1>1, <1>2, <2>2
    <3>2. \A i \in DOMAIN g : ForAll(g, i) => i <= m
      BY <1>1, <1>2, <1>4, <2>2
    <3> QED BY <2>2, <3>1, <3>2 DEF LastForAll
  <2> QED BY <2>1, <2>2 DEF LastForAll
<1> QED BY <1>3, <1>4 DEF g

LEMMA AppendSays ==
  ASSUME NEW S, NEW h \in Seq(S), NEW e, NEW c, NEW value, LastSays(h, c, value)
  PROVE  LET g == Append(h, e)
         IN  /\ Says(g, c, Len(h) + 1) => LastSays(g, c, Denies(e))
             /\ ~Says(g, c, Len(h) + 1) => LastSays(g, c, value)
<1> DEFINE g == Append(h, e)
<1>1. /\ Len(h) \in Nat /\ DOMAIN h = 1..Len(h) /\ DOMAIN g = 1..(Len(h) + 1)
      /\ \A j \in 1..Len(h) : g[j] = h[j]
      /\ g[Len(h) + 1] = e
  BY Appended
<1>2. \A i \in DOMAIN h : Says(g, c, i) <=> Says(h, c, i)
  BY SaysStays
<1> HIDE DEF g
<1>3. ASSUME Says(g, c, Len(h) + 1)
      PROVE  LastSays(g, c, Denies(e))
  BY <1>1, <1>3 DEF LastSays
<1>4. ASSUME ~Says(g, c, Len(h) + 1)
      PROVE  LastSays(g, c, value)
  <2>1. CASE value = FALSE /\ \A i \in DOMAIN h : ~Says(h, c, i)
    <3>1. \A i \in DOMAIN g : ~Says(g, c, i)
      BY <1>1, <1>2, <1>4, <2>1
    <3> QED BY <2>1, <3>1 DEF LastSays
  <2>2. ASSUME NEW m \in DOMAIN h, Says(h, c, m), \A i \in DOMAIN h : Says(h, c, i) => i <= m,
               value = Denies(h[m])
        PROVE  LastSays(g, c, value)
    <3>1. m \in DOMAIN g /\ g[m] = h[m] /\ Says(g, c, m)
      BY <1>1, <1>2, <2>2
    <3>2. \A i \in DOMAIN g : Says(g, c, i) => i <= m
      BY <1>1, <1>2, <1>4, <2>2
    <3> QED BY <2>2, <3>1, <3>2 DEF LastSays
  <2> QED BY <2>1, <2>2 DEF LastSays
<1> QED BY <1>3, <1>4 DEF g

\* Before the file of a cell is read only events for all cells speak of it.
LEMMA NotReadSays ==
  ASSUME NEW S, NEW h \in Seq(S), NEW e, NEW c, NEW value, LastForAll(h, value),
         \A i \in DOMAIN h : h[i] # ReadOf(c[2]),
         e.op # "combine", e.op # "parallel"
  PROVE  LastSays(Append(h, e), c, value)
<1> DEFINE g == Append(h, e)
<1>1. /\ Len(h) \in Nat /\ DOMAIN h = 1..Len(h) /\ DOMAIN g = 1..(Len(h) + 1)
      /\ \A j \in 1..Len(h) : g[j] = h[j]
      /\ g[Len(h) + 1] = e
  BY Appended
<1>2. \A i \in DOMAIN h : ForAll(g, i) <=> ForAll(h, i)
  BY SaysStays
<1> HIDE DEF g
<1>3. \A i \in DOMAIN g : ~ForCell(g, c, i)
  <2> SUFFICES ASSUME NEW i \in DOMAIN g, ForCell(g, c, i)
               PROVE  FALSE
    OBVIOUS
  <2>1. PICK j \in DOMAIN g : j < i /\ g[j] = ReadOf(c[2])
    BY DEF ForCell
  <2>2. j \in DOMAIN h
    BY <1>1, <2>1
  <2> QED BY <1>1, <2>1, <2>2
<1>4. ~ForAll(g, Len(h) + 1)
  BY <1>1 DEF ForAll
<1>5. CASE value = FALSE /\ \A i \in DOMAIN h : ~ForAll(h, i)
  <2>1. \A i \in DOMAIN g : ~Says(g, c, i)
    BY <1>1, <1>2, <1>3, <1>4, <1>5 DEF Says
  <2> QED BY <1>5, <2>1 DEF LastSays, g
<1>6. ASSUME NEW m \in DOMAIN h, ForAll(h, m), \A i \in DOMAIN h : ForAll(h, i) => i <= m,
             value = (h[m].what = "none")
      PROVE  LastSays(g, c, value)
  <2>1. m \in DOMAIN g /\ g[m] = h[m] /\ Says(g, c, m)
    BY <1>1, <1>2, <1>6 DEF Says
  <2>2. \A i \in DOMAIN g : Says(g, c, i) => i <= m
    BY <1>1, <1>2, <1>3, <1>4, <1>6 DEF Says
  <2>3. value = Denies(g[m])
    BY <1>6, <2>1 DEF Denies, ForAll
  <2> QED BY <2>1, <2>2, <2>3 DEF LastSays
<1> QED BY <1>5, <1>6 DEF LastForAll, g

-----------------------------------------------------------------------------
(* The two files, and the cells that an argument finds.                      *)

\* The greatest of the numbers in a set with a bound.
LEMMA Greatest ==
  ASSUME NEW N \in Nat, NEW T \in SUBSET (1..N), T # {}
  PROVE  Max(T) \in T /\ \A m \in T : m <= Max(T)
<1> DEFINE D == {N - m : m \in T}
<1>1. D \in SUBSET Nat /\ D # {}
  <2>1. \A m \in T : m \in 1..N /\ N - m \in Nat
    OBVIOUS
  <2> QED BY <2>1
<1>2. PICK d \in D : \A y \in D : ~(<<y, d>> \in OpToRel(<, Nat))
  BY <1>1, NatLessThanWellFounded, WFMin
<1>3. PICK x \in T : d = N - x
  OBVIOUS
<1>4. ASSUME NEW m \in T PROVE m <= x
  <2>1. N - m \in D /\ N - m \in Nat /\ d \in Nat
    BY <1>1
  <2>2. ~(N - m < d)
    BY <1>2, <2>1 DEF OpToRel
  <2> QED BY <1>3, <2>1, <2>2
<1>5. \E n \in T : \A m \in T : n >= m
  BY <1>4
<1>6. Max(T) \in T /\ \A m \in T : Max(T) >= m
  BY <1>5 DEF Max
<1> QED BY <1>6

\* Two files, each with one top cell that only it has.
TwoFiles ==
  /\ DOMAIN Netlists = {1, 2}
  /\ \A f \in {1, 2} :
       /\ Netlists[f] \in Seq(ToSet(Netlists[f]))
       /\ \E i \in DOMAIN Netlists[f] : Netlists[f][i][1] = TopOf[f]
       /\ \A i \in DOMAIN Netlists[f] :
            /\ Whole(Netlists[f][i][2])
            /\ Netlists[f][i][2].top = (Netlists[f][i][1] = TopOf[f])
            /\ Netlists[f][i][1] # TopOf[3 - f]

\* A cell is named by one token, or by two of which one is a name.
Token(t) ==
  \/ \E f \in Nat : t = File(f)
  \/ \E o : t = Option(o)
  \/ \E n : t = Name(n)
Argument(arg) ==
  \/ \E t : Token(t) /\ arg = <<t>>
  \/ \E t, n : Token(t) /\ arg \in {<<t, Name(n)>>, <<Name(n), t>>}

InFile(c) ==
  /\ c[2] \in {1, 2}
  /\ \E i \in DOMAIN Netlists[c[2]] : c = <<Netlists[c[2]][i][1], c[2]>>

\* What is known of the cells, and when the circuits are.
FilesInv ==
  /\ history \in Seq(Events)
  /\ order \in Seq(DOMAIN cells) /\ DOMAIN cells = ToSet(order)
  /\ \A c \in DOMAIN cells : InFile(c) /\ ReadOf(c[2]) \in ToSet(history)
  /\ \A c : InFile(c) /\ ReadOf(c[2]) \in ToSet(history) => c \in DOMAIN cells
  /\ \A c \in DOMAIN cells : Whole(cells[c]) /\ cells[c].top = (c[1] = TopOf[c[2]])
  /\ IF circuits = << >> THEN \A i \in DOMAIN history : history[i].op # "assign"
     ELSE /\ circuits = <<1, 2>>
          /\ \E i \in DOMAIN history : history[i].op = "assign"
          /\ \A f \in {1, 2} : ReadOf(f) \in ToSet(history)

\* The one file that a token speaks of.
Spoken(t) ==
  CASE t[1] = "file" -> {t[2]}
    [] t = Option("-circuit1") \/ t = Name("top1") -> {1}
    [] t = Option("-circuit2") \/ t = Name("top2") -> {2}
    [] OTHER -> {}

LEMMA Meant ==
  /\ \A t : FilesMeant(<<t>>) = IF Spoken(t) = {} THEN {1, 2} ELSE Spoken(t)
  /\ \A s, t : FilesMeant(<<s, t>>) = IF Spoken(s) \cup Spoken(t) = {} THEN {1, 2}
                                     ELSE Spoken(s) \cup Spoken(t)
<1>1. ASSUME NEW t
      PROVE  FilesMeant(<<t>>) = IF Spoken(t) = {} THEN {1, 2} ELSE Spoken(t)
  <2> DEFINE f == UNION {Spoken(<<t>>[i]) : i \in DOMAIN <<t>>}
  <2>1. FilesMeant(<<t>>) = IF f = {} THEN {1, 2} ELSE f
    BY DEF FilesMeant, Spoken
  <2>2. f = Spoken(t)
    <3>1. DOMAIN <<t>> = {1} /\ <<t>>[1] = t
      OBVIOUS
    <3> QED BY <3>1
  <2> QED BY <2>1, <2>2
<1>2. ASSUME NEW s, NEW t
      PROVE  FilesMeant(<<s, t>>) = IF Spoken(s) \cup Spoken(t) = {} THEN {1, 2}
                                    ELSE Spoken(s) \cup Spoken(t)
  <2> DEFINE f == UNION {Spoken(<<s, t>>[i]) : i \in DOMAIN <<s, t>>}
  <2>1. FilesMeant(<<s, t>>) = IF f = {} THEN {1, 2} ELSE f
    BY DEF FilesMeant, Spoken
  <2>2. f = Spoken(s) \cup Spoken(t)
    <3>1. DOMAIN <<s, t>> = {1, 2} /\ <<s, t>>[1] = s /\ <<s, t>>[2] = t
      OBVIOUS
    <3> QED BY <3>1
  <2> QED BY <2>1, <2>2
<1> QED BY <1>1, <1>2

LEMMA SpokenTokens ==
  /\ \A f : Spoken(File(f)) = {f}
  /\ \A o : Spoken(Option(o)) = IF o = "-circuit1" THEN {1} ELSE IF o = "-circuit2" THEN {2} ELSE {}
  /\ \A n : Spoken(Name(n)) = IF n = "top1" THEN {1} ELSE IF n = "top2" THEN {2} ELSE {}
BY DEF Spoken, File, Option, Name

LEMMA FileOfTokens ==
  /\ \A f : FileOf(File(f)) = {f}
  /\ \A o : FileOf(Option(o)) = IF circuits = << >> THEN {}
                                ELSE IF o = "-circuit1" THEN {circuits[1]}
                                ELSE IF o = "-circuit2" THEN {circuits[2]} ELSE {}
BY DEF FileOf, File, Option

LEMMA LookupFinds ==
  ASSUME FilesInv, NEW n
  PROVE  \/ LookupCell(order, n) = {} /\ \A c \in DOMAIN cells : c[1] # n
         \/ \E c \in DOMAIN cells : c[1] = n /\ LookupCell(order, n) = {c}
<1> DEFINE named == {i \in DOMAIN order : order[i][1] = n}
<1>1. LookupCell(order, n) = IF named = {} THEN {} ELSE {order[Max(named)]}
  BY DEF LookupCell
<1>2. Len(order) \in Nat /\ DOMAIN order = 1..Len(order)
  BY DEF FilesInv
<1>3. CASE named = {}
  <2>1. ASSUME NEW c \in DOMAIN cells
        PROVE  c[1] # n
    BY <1>3 DEF FilesInv, ToSet
  <2> QED BY <1>1, <1>3, <2>1
<1>4. CASE named # {}
  <2>1. Max(named) \in named
    BY <1>2, <1>4, Greatest
  <2>2. order[Max(named)] \in DOMAIN cells
    BY <1>2, <2>1 DEF FilesInv
  <2>3. order[Max(named)][1] = n
    BY <2>1
  <2> HIDE DEF named
  <2> QED BY <1>1, <1>4, <2>2, <2>3
<1> QED BY <1>3, <1>4

In(n, f) == Parsed(LookupCellFile(cells, n, f), f)

LEMMA ParseShapes ==
  /\ \A a : CommonParseCell(<<a>>) = ParseOne(a)
  /\ \A a, b : CommonParseCell(<<a, b>>) = ParsePair(a, b)
BY DEF CommonParseCell

LEMMA ParseFile ==
  ASSUME NEW f, NEW n
  PROVE  ParsePair(File(f), Name(n)) = In(n, f) /\ ParsePair(Name(n), File(f)) = In(n, f)
<1>1. FileOf(File(f)) = {f} /\ (CHOOSE x \in {f} : TRUE) = f
  BY FileOfTokens
<1>2. ~IsWildcard(File(f)) /\ ~IsWildcard(Name(n))
  BY DEF IsWildcard, File, Name
<1>3. File(f)[1] = "file" /\ Name(n)[1] = "name" /\ Name(n)[2] = n
  BY DEF File, Name
<1> QED BY <1>1, <1>2, <1>3 DEF ParsePair, In

LEMMA ParseOption ==
  ASSUME NEW o, NEW n, o # "*"
  PROVE  LET p == IF FileOf(Option(o)) = {} THEN Failed
                  ELSE In(n, CHOOSE x \in FileOf(Option(o)) : TRUE)
         IN  ParsePair(Option(o), Name(n)) = p /\ ParsePair(Name(n), Option(o)) = p
<1>2. ~IsWildcard(Option(o)) /\ ~IsWildcard(Name(n))
  BY DEF IsWildcard, Option, Name
<1>3. Option(o)[1] = "option" /\ Name(n)[1] = "name" /\ Name(n)[2] = n
  BY DEF Option, Name
<1> QED BY <1>2, <1>3 DEF ParsePair, In

LEMMA ParseWildcard ==
  ASSUME NEW n
  PROVE  /\ ParsePair(Option("*"), Name(n)) = OfAnyFile(n)
         /\ ParsePair(Name(n), Option("*")) = OfAnyFile(n)
         /\ ParseOne(Option("*")) = Failed
<1>2. IsWildcard(Option("*")) /\ ~IsWildcard(Name(n))
  BY DEF IsWildcard, Option, Name
<1>3. Option("*")[1] = "option" /\ Name(n)[1] = "name" /\ Name(n)[2] = n
  BY DEF Option, Name
<1> QED BY <1>2, <1>3 DEF ParsePair, ParseOne

LEMMA ParseNames ==
  ASSUME NEW m, NEW n
  PROVE  ParsePair(Name(m), Name(n)) = WithFileName(m, n)
<1>2. ~IsWildcard(Name(m)) /\ ~IsWildcard(Name(n))
  BY DEF IsWildcard, Name
<1>3. Name(m)[1] = "name" /\ Name(n)[1] = "name" /\ Name(m)[2] = m /\ Name(n)[2] = n
  BY DEF Name
<1> QED BY <1>2, <1>3 DEF ParsePair

\* A top cell is the only cell of its name, and no other cell is one.
LEMMA Tops ==
  ASSUME FilesInv, TwoFiles, NEW c \in DOMAIN cells
  PROVE  /\ c = <<c[1], c[2]>> /\ c[2] \in {1, 2}
         /\ IsTop(c) <=> c[1] = TopOf[c[2]]
         /\ c[1] = "top1" => c[2] = 1 /\ IsTop(c)
         /\ c[1] = "top2" => c[2] = 2 /\ IsTop(c)
         /\ IsTop(c) => c = <<"top1", 1>> \/ c = <<"top2", 2>>
         /\ <<TopOf[c[2]], c[2]>> \in DOMAIN cells
<1>1. c[2] \in {1, 2} /\ InFile(c) /\ ReadOf(c[2]) \in ToSet(history)
  BY DEF FilesInv, InFile
<1>2. PICK i \in DOMAIN Netlists[c[2]] : c = <<Netlists[c[2]][i][1], c[2]>>
  BY <1>1 DEF InFile
<1>3. c = <<c[1], c[2]>> /\ c[1] # TopOf[3 - c[2]]
  BY <1>1, <1>2 DEF TwoFiles
<1>4. IsTop(c) <=> c[1] = TopOf[c[2]]
  BY DEF FilesInv, IsTop
<1>5. TopOf[1] = "top1" /\ TopOf[2] = "top2" /\ 3 - 1 = 2 /\ 3 - 2 = 1
  BY DEF TopOf
<1>6. c[1] = "top1" => c[2] = 1
  BY <1>1, <1>3, <1>5
<1>7. c[1] = "top2" => c[2] = 2
  BY <1>1, <1>3, <1>5
<1>8. <<TopOf[c[2]], c[2]>> \in DOMAIN cells
  <2> DEFINE d == <<TopOf[c[2]], c[2]>>
  <2>1. d[2] = c[2] /\ d[1] = TopOf[c[2]]
    OBVIOUS
  <2>2. InFile(d)
    BY <1>1, <2>1 DEF TwoFiles, InFile
  <2>3. ReadOf(d[2]) \in ToSet(history)
    BY <1>1, <2>1
  <2> HIDE DEF d
  <2>4. d \in DOMAIN cells
    BY <2>2, <2>3 DEF FilesInv
  <2> QED BY <2>4 DEF d
<1> QED BY <1>1, <1>3, <1>4, <1>5, <1>6, <1>7, <1>8

\* An argument finds nothing, a cell of the one file that it speaks of, or a
\* cell of some file when it speaks of none.
FindsAsNamed(arg) ==
  LET p == CommonParseCell(arg)
  IN  \/ p.found = {}
      \/ \E c \in DOMAIN cells :
           /\ p.found = {c}
           /\ \/ p.file = c[2] /\ FilesMeant(arg) = {c[2]}
              \/ p.file = AnyFile /\ FilesMeant(arg) = {1, 2}

\* The part of an argument that speaks of the file.
LEMMA LookedUp ==
  ASSUME FilesInv, TwoFiles, NEW n, NEW f, NEW arg, CommonParseCell(arg) = In(n, f),
         \E s : /\ FilesMeant(arg) = {f} \cup s
                /\ s = IF n = "top1" THEN {1} ELSE IF n = "top2" THEN {2} ELSE {}
  PROVE  FindsAsNamed(arg)
<1>1. CommonParseCell(arg).found = {<<n, f>>} \cap DOMAIN cells /\ CommonParseCell(arg).file = f
  BY DEF In, Parsed, LookupCellFile
<1>2. CASE <<n, f>> \notin DOMAIN cells
  BY <1>1, <1>2 DEF FindsAsNamed
<1>3. CASE <<n, f>> \in DOMAIN cells
  <2> DEFINE c == <<n, f>>
  <2>1. c[1] = n /\ c[2] = f
    OBVIOUS
  <2>2. (n = "top1" => f = 1) /\ (n = "top2" => f = 2)
    BY <1>3, <2>1, Tops
  <2>3. FilesMeant(arg) = {f}
    BY <2>2
  <2> QED BY <1>1, <1>3, <2>1, <2>3 DEF FindsAsNamed
<1> QED BY <1>2, <1>3

LEMMA FindsPair ==
  ASSUME FilesInv, TwoFiles, NEW t, Token(t), NEW n, NEW arg \in {<<t, Name(n)>>, <<Name(n), t>>}
  PROVE  FindsAsNamed(arg)
<1> DEFINE s == IF n = "top1" THEN {1} ELSE IF n = "top2" THEN {2} ELSE {}
<1>1. FilesMeant(arg) = IF Spoken(t) \cup s = {} THEN {1, 2} ELSE Spoken(t) \cup s
  <2>1. Spoken(Name(n)) = s
    BY SpokenTokens
  <2> HIDE DEF s
  <2>2. CASE arg = <<t, Name(n)>>
    BY <2>1, <2>2, Meant
  <2>3. CASE arg = <<Name(n), t>>
    <3>1. FilesMeant(arg) = IF Spoken(Name(n)) \cup Spoken(t) = {} THEN {1, 2}
                            ELSE Spoken(Name(n)) \cup Spoken(t)
      BY <2>3, Meant
    <3>2. Spoken(Name(n)) \cup Spoken(t) = Spoken(t) \cup s
      BY <2>1
    <3> QED BY <3>1, <3>2
  <2> QED BY <2>2, <2>3
<1>2. CommonParseCell(arg) \in {ParsePair(t, Name(n)), ParsePair(Name(n), t)}
  BY ParseShapes
<1>3. ASSUME NEW f \in Nat, t = File(f)
      PROVE  FindsAsNamed(arg)
  <2>1. CommonParseCell(arg) = In(n, f)
    BY <1>2, <1>3, ParseFile
  <2>2. FilesMeant(arg) = {f} \cup s
    BY <1>1, <1>3, SpokenTokens
  <2> QED BY <2>1, <2>2, LookedUp
<1>4. ASSUME NEW o, t = Option(o), o # "*"
      PROVE  FindsAsNamed(arg)
  <2>1. CASE FileOf(Option(o)) = {}
    <3>1. CommonParseCell(arg) = Failed
      BY <1>2, <1>4, <2>1, ParseOption
    <3> QED BY <3>1 DEF FindsAsNamed, Failed, Parsed
  <2>2. CASE FileOf(Option(o)) # {}
    <3>1. circuits = <<1, 2>>
      BY <2>2, FileOfTokens DEF FilesInv
    <3>2. circuits[1] = 1 /\ circuits[2] = 2
      BY <3>1
    <3>3. PICK f : FileOf(Option(o)) = {f} /\ Spoken(Option(o)) = {f}
      BY <2>2, <3>1, <3>2, FileOfTokens, SpokenTokens
    <3>4. CommonParseCell(arg) = In(n, CHOOSE x \in {f} : TRUE)
      BY <1>2, <1>4, <2>2, <3>3, ParseOption
    <3>5. CommonParseCell(arg) = In(n, f)
      BY <3>4
    <3>6. FilesMeant(arg) = {f} \cup s
      BY <1>1, <1>4, <3>3
    <3> QED BY <3>5, <3>6, LookedUp
  <2> QED BY <2>1, <2>2
<1>5. CASE t = Option("*")
  <2>1. CommonParseCell(arg) = OfAnyFile(n)
    BY <1>2, <1>5, ParseWildcard
  <2>2. CASE LookupCell(order, n) = {}
    <3>1. CommonParseCell(arg).found = {}
      BY <2>1, <2>2 DEF OfAnyFile, Parsed, Failed
    <3> QED BY <3>1 DEF FindsAsNamed
  <2>3. ASSUME NEW c \in DOMAIN cells, c[1] = n, LookupCell(order, n) = {c}
        PROVE  FindsAsNamed(arg)
    <3>1. CASE IsTop(c)
      <4>1. CommonParseCell(arg) = Failed
        BY <2>1, <2>3, <3>1 DEF OfAnyFile
      <4> QED BY <4>1 DEF FindsAsNamed, Failed, Parsed
    <3>2. CASE ~IsTop(c)
      <4>1. CommonParseCell(arg) = Parsed({c}, AnyFile)
        BY <2>1, <2>3, <3>2 DEF OfAnyFile
      <4>2. s = {}
        BY <2>3, <3>2, Tops
      <4>3. Spoken(t) = {}
        BY <1>5, SpokenTokens
      <4>4. FilesMeant(arg) = {1, 2}
        BY <1>1, <4>2, <4>3
      <4>5. CommonParseCell(arg).found = {c} /\ CommonParseCell(arg).file = AnyFile
        BY <4>1 DEF Parsed
      <4> QED BY <2>3, <4>4, <4>5 DEF FindsAsNamed
    <3> QED BY <3>1, <3>2
  <2> QED BY <2>2, <2>3, LookupFinds
<1>6. ASSUME NEW m, t = Name(m)
      PROVE  FindsAsNamed(arg)
  <2> SUFFICES ASSUME NEW first, NEW second, {first, second} = {m, n},
                      CommonParseCell(arg) = WithFileName(first, second)
               PROVE  FindsAsNamed(arg)
    <3>1. CommonParseCell(arg) \in {WithFileName(m, n), WithFileName(n, m)}
      BY <1>2, <1>6, ParseNames
    <3>2. {m, n} = {n, m}
      OBVIOUS
    <3> QED BY <3>1, <3>2
  <2> DEFINE Top(x) == IF x = "top1" THEN {1} ELSE IF x = "top2" THEN {2} ELSE {}
  <2>1. FilesMeant(arg) = IF Top(first) \cup Top(second) = {} THEN {1, 2}
                          ELSE Top(first) \cup Top(second)
    <3>1. Spoken(t) = Top(m) /\ s = Top(n)
      BY <1>6, SpokenTokens
    <3>2. Top(first) \cup Top(second) = Top(m) \cup Top(n)
      <4> HIDE DEF Top
      <4> QED OBVIOUS
    <3> QED BY <1>1, <3>1, <3>2
  <2>2. CASE LookupCell(order, first) = {} \/ LookupCell(order, second) = {}
    <3>1. CommonParseCell(arg) = Failed
      BY <2>2 DEF WithFileName
    <3> QED BY <3>1 DEF FindsAsNamed, Failed, Parsed
  <2>3. ASSUME NEW c \in DOMAIN cells, c[1] = first, LookupCell(order, first) = {c},
               NEW d \in DOMAIN cells, d[1] = second, LookupCell(order, second) = {d}
        PROVE  FindsAsNamed(arg)
    <3>1. CommonParseCell(arg) = CASE IsTop(c) -> In(second, c[2])
                                   [] ~IsTop(c) /\ IsTop(d) -> In(first, d[2])
                                   [] OTHER -> Failed
      <4>1. (CHOOSE x \in {c} : TRUE) = c /\ (CHOOSE x \in {d} : TRUE) = d
        OBVIOUS
      <4> QED BY <2>3, <4>1 DEF WithFileName, In
    <3>2. CASE IsTop(c)
      <4>1. CommonParseCell(arg) = In(second, c[2])
        BY <3>1, <3>2
      <4>2. Top(first) = {c[2]}
        BY <2>3, <3>2, Tops
      <4>3. FilesMeant(arg) = {c[2]} \cup Top(second)
        BY <2>1, <4>2
      <4> QED BY <4>1, <4>3, LookedUp
    <3>3. CASE ~IsTop(c) /\ IsTop(d)
      <4>1. CommonParseCell(arg) = In(first, d[2])
        BY <3>1, <3>3
      <4>2. Top(second) = {d[2]}
        BY <2>3, <3>3, Tops
      <4>3. FilesMeant(arg) = {d[2]} \cup Top(first)
        BY <2>1, <4>2
      <4> QED BY <4>1, <4>3, LookedUp
    <3>4. CASE ~IsTop(c) /\ ~IsTop(d)
      <4>1. CommonParseCell(arg) = Failed
        BY <3>1, <3>4
      <4> QED BY <4>1 DEF FindsAsNamed, Failed, Parsed
    <3> QED BY <3>2, <3>3, <3>4
  <2> QED BY <2>2, <2>3, LookupFinds
<1> QED BY <1>3, <1>4, <1>5, <1>6 DEF Token

LEMMA FindsOne ==
  ASSUME FilesInv, TwoFiles, NEW t, Token(t)
  PROVE  FindsAsNamed(<<t>>)
<1> DEFINE p == CommonParseCell(<<t>>)
<1>1. p = ParseOne(t)
  BY ParseShapes
<1>2. CASE t = Option("*")
  BY <1>1, <1>2, ParseWildcard DEF FindsAsNamed, Failed, Parsed
<1>3. ASSUME t # Option("*"), t[1] # "name"
      PROVE  FindsAsNamed(<<t>>)
  <2> DEFINE tops == {c \in DOMAIN cells : IsTop(c) /\ c[2] \in FileOf(t)}
  <2>1. p = IF tops = {} THEN Failed ELSE Parsed(tops, (CHOOSE c \in tops : TRUE)[2])
    BY <1>1, <1>3 DEF ParseOne, IsWildcard, Option
  <2>2. FileOf(t) = {} \/ FileOf(t) = Spoken(t)
    <3>1. ASSUME NEW o, t = Option(o)
          PROVE  FileOf(t) = {} \/ FileOf(t) = Spoken(t)
      <4>1. circuits # << >> => circuits[1] = 1 /\ circuits[2] = 2
        BY DEF FilesInv
      <4> QED BY <3>1, <4>1, FileOfTokens, SpokenTokens
    <3>2. ASSUME NEW f, t = File(f)
          PROVE  FileOf(t) = Spoken(t)
      BY <3>2, FileOfTokens, SpokenTokens
    <3>3. \A n : t # Name(n)
      BY <1>3 DEF Name
    <3> QED BY <3>1, <3>2, <3>3 DEF Token
  <2>3. CASE tops = {}
    BY <2>1, <2>3 DEF FindsAsNamed, Failed, Parsed
  <2>4. ASSUME NEW c \in tops
        PROVE  FindsAsNamed(<<t>>)
    <3>1. Spoken(t) = {c[2]}
      <4>1. \E f : Spoken(t) \in {{}, {f}}
        <5>1. \A n : t # Name(n)
          BY <1>3 DEF Name
        <5> QED BY <5>1, SpokenTokens DEF Token
      <4> QED BY <2>2, <4>1
    <3>2. tops = {c}
      <4>1. ASSUME NEW d \in tops
            PROVE  d = c
        <5>1. d \in DOMAIN cells /\ IsTop(d) /\ c \in DOMAIN cells /\ IsTop(c)
          OBVIOUS
        <5>2. d[2] = c[2]
          BY <2>2, <3>1
        <5>3. d = <<d[1], d[2]>> /\ d[1] = TopOf[d[2]]
          BY <5>1, Tops
        <5>4. c = <<c[1], c[2]>> /\ c[1] = TopOf[c[2]]
          BY <5>1, Tops
        <5> QED BY <5>2, <5>3, <5>4
      <4> QED BY <4>1
    <3> HIDE DEF tops
    <3>3. (CHOOSE x \in tops : TRUE) = c
      BY <3>2
    <3>4. p = Parsed({c}, c[2])
      BY <2>1, <3>2, <3>3
    <3>5. p.found = {c} /\ p.file = c[2]
      BY <3>4 DEF Parsed
    <3>6. FilesMeant(<<t>>) = {c[2]}
      BY <3>1, Meant
    <3>7. c \in DOMAIN cells
      BY DEF tops
    <3> HIDE DEF p
    <3> QED BY <3>5, <3>6, <3>7 DEF FindsAsNamed, p
  <2> QED BY <2>3, <2>4
<1>4. ASSUME NEW n, t = Name(n)
      PROVE  FindsAsNamed(<<t>>)
  <2> DEFINE tp == LookupCell(order, n)
  <2>1. p = IF \E c \in tp : IsTop(c) THEN Parsed(tp, (CHOOSE c \in tp : TRUE)[2])
            ELSE Parsed(tp, AnyFile)
    <3>1. t[1] = "name" /\ t[2] = n /\ ~IsWildcard(t)
      BY <1>4 DEF Name, IsWildcard
    <3> QED BY <1>1, <3>1 DEF ParseOne
  <2>2. CASE tp = {}
    BY <2>1, <2>2 DEF FindsAsNamed, Parsed
  <2>3. ASSUME NEW c \in DOMAIN cells, c[1] = n, tp = {c}
        PROVE  FindsAsNamed(<<t>>)
    <3> HIDE DEF tp
    <3>0. (CHOOSE x \in tp : TRUE) = c
      BY <2>3
    <3>1. FilesMeant(<<t>>) = IF Spoken(t) = {} THEN {1, 2} ELSE Spoken(t)
      BY Meant
    <3>2. Spoken(t) = IF n = "top1" THEN {1} ELSE IF n = "top2" THEN {2} ELSE {}
      BY <1>4, SpokenTokens
    <3>3. CASE IsTop(c)
      <4>1. p = Parsed({c}, c[2])
        BY <2>1, <2>3, <3>0, <3>3
      <4>2. p.found = {c} /\ p.file = c[2]
        BY <4>1 DEF Parsed
      <4>3. FilesMeant(<<t>>) = {c[2]}
        BY <2>3, <3>1, <3>2, <3>3, Tops
      <4> QED BY <2>3, <4>2, <4>3 DEF FindsAsNamed
    <3>4. CASE ~IsTop(c)
      <4>1. p = Parsed({c}, AnyFile)
        BY <2>1, <2>3, <3>4
      <4>2. p.found = {c} /\ p.file = AnyFile
        BY <4>1 DEF Parsed
      <4>3. FilesMeant(<<t>>) = {1, 2}
        BY <2>3, <3>1, <3>2, <3>4, Tops
      <4> QED BY <2>3, <4>2, <4>3 DEF FindsAsNamed
    <3> QED BY <3>3, <3>4
  <2> QED BY <2>2, <2>3, LookupFinds
<1>5. t[1] = "name" => \E n : t = Name(n)
  BY DEF Token, File, Option, Name
<1> QED BY <1>2, <1>3, <1>4, <1>5

LEMMA ArgumentFinds ==
  ASSUME FilesInv, TwoFiles, NEW arg, Argument(arg)
  PROVE  FindsAsNamed(arg)
BY FindsPair, FindsOne DEF Argument

-----------------------------------------------------------------------------
(* What a command does to the cells, their files and their flags.            *)

FlagAfter(cmd, c) ==
  IF ForAll(<<cmd>>, 1) THEN cmd.what = "none"
  ELSE IF cmd.op = "combine" /\ cmd.how # "series" /\ c \in Found(cmd)
  THEN cmd.what \in {"none", "disable"}
  ELSE cells[c].noparallel

CommandDoes(cmd) ==
  /\ history' = Append(history, cmd) /\ cmd.op \notin {"read", "assign"}
  /\ order' = order /\ circuits' = circuits
  /\ DOMAIN cells' = DOMAIN cells
  /\ \A c \in DOMAIN cells :
       Keeps(cells'[c], cells[c]) /\ cells'[c].noparallel = FlagAfter(cmd, c)
  /\ "parallelNone" \in DOMAIN options'
  /\ options'.parallelNone = IF ForAll(<<cmd>>, 1) THEN cmd.what = "none" ELSE options.parallelNone

LEMMA SteadyDoes ==
  ASSUME NEW cmd, NEW op, Command(op, cmd),
         op \notin {"read", "assign", "parallel", "combine"},
         order' = order, circuits' = circuits,
         "parallelNone" \in DOMAIN options', options'.parallelNone = options.parallelNone,
         DOMAIN cells' = DOMAIN cells,
         \A c \in DOMAIN cells : Steady(cells'[c], cells[c])
  PROVE  CommandDoes(cmd)
<1>1. cmd.op = op /\ history' = Append(history, cmd)
  BY DEF Command, Done
<1>2. ~ForAll(<<cmd>>, 1)
  BY <1>1 DEF ForAll
<1>3. \A c \in DOMAIN cells : FlagAfter(cmd, c) = cells[c].noparallel
  BY <1>1, <1>2 DEF FlagAfter
<1> QED BY <1>1, <1>2, <1>3 DEF CommandDoes, Steady

LEMMA AllWhole ==
  ASSUME FilesInv, NEW c \in DOMAIN cells
  PROVE  Whole(cells[c]) /\ Steady(cells[c], cells[c])
BY SteadySelf DEF FilesInv

LEMMA ParallelDoes ==
  ASSUME FilesInv, "parallelNone" \in DOMAIN options, NEW cmd, PropertyParallel(cmd)
  PROVE  CommandDoes(cmd)
<1>1. cmd.op = "parallel" /\ history' = Append(history, cmd) /\ order' = order /\ circuits' = circuits
  BY DEF PropertyParallel, Command, Done
<1>2. ForAll(<<cmd>>, 1) <=> cmd.what \in {"none", "all"}
  BY <1>1 DEF ForAll
<1>3. CASE cmd.what \in {"none", "all"}
  <2> DEFINE Changed(c) == SetParallelCombine(cells[c], cmd.what = "all")
  <2>1. cells' = [c \in DOMAIN cells |-> Changed(c)]
    BY <1>3 DEF PropertyParallel
  <2>2. ASSUME NEW c \in DOMAIN cells
        PROVE  /\ Keeps(Changed(c), cells[c])
               /\ Changed(c).noparallel = (cmd.what = "none")
    BY <1>3, AllWhole DEF SetParallelCombine, Whole, CellFields, Keeps, PinNames
  <2>3. /\ "parallelNone" \in DOMAIN options'
        /\ options'.parallelNone = (cmd.what = "none")
    BY <1>3 DEF PropertyParallel
  <2> HIDE DEF Changed
  <2>4. DOMAIN cells' = DOMAIN cells /\ \A c \in DOMAIN cells : cells'[c] = Changed(c)
    BY <2>1
  <2>5. \A c \in DOMAIN cells : FlagAfter(cmd, c) = (cmd.what = "none")
    BY <1>2, <1>3 DEF FlagAfter
  <2> QED BY <1>1, <1>2, <1>3, <2>2, <2>3, <2>4, <2>5 DEF CommandDoes
<1>4. CASE cmd.what \notin {"none", "all"}
  <2>1. cells' = cells
    BY <1>4 DEF PropertyParallel
  <2>2. "parallelNone" \in DOMAIN options' /\ options'.parallelNone = options.parallelNone
    BY <1>4 DEF PropertyParallel
  <2>3. \A c \in DOMAIN cells : FlagAfter(cmd, c) = cells[c].noparallel
    BY <1>1, <1>2, <1>4 DEF FlagAfter
  <2>4. \A c \in DOMAIN cells : Keeps(cells'[c], cells[c])
    BY <2>1, AllWhole DEF Steady
  <2> QED BY <1>1, <1>2, <1>4, <2>1, <2>2, <2>3, <2>4 DEF CommandDoes
<1> QED BY <1>3, <1>4

LEMMA CombineDoes ==
  ASSUME FilesInv, "parallelNone" \in DOMAIN options, NEW cmd \in Commands, PropertyCombine(cmd)
  PROVE  CommandDoes(cmd)
<1> DEFINE mask == IF cmd.how = "series" THEN SMask ELSE PMask
           allow == cmd.what \notin {"disable", "none"}
           Allowed(c) == IF c \in Found(cmd) THEN Combine(cells[c], cmd.how, allow) ELSE cells[c]
           Merged(c) == IF c \in Targets(cmd) /\ cmd.what \notin {"enable", "disable"}
                        THEN PropertyMerge(Allowed(c), cmd.key, CombineBits(cmd.how, cmd.what), mask)
                        ELSE Allowed(c)
<1>1. cells' = [c \in DOMAIN cells |-> Merged(c)]
  BY DEF PropertyCombine
<1>2. /\ cmd.op = "combine" /\ history' = Append(history, cmd)
      /\ order' = order /\ circuits' = circuits /\ options' = options
  BY DEF PropertyCombine, Command, Done
<1>3. ~ForAll(<<cmd>>, 1)
  BY <1>2 DEF ForAll
<1>4. ASSUME NEW c \in DOMAIN cells
      PROVE  Keeps(Merged(c), cells[c]) /\ Merged(c).noparallel = FlagAfter(cmd, c)
  <2> DEFINE old == cells[c]
             flag == FlagAfter(cmd, c)
  <2>1. Whole(old)
    BY <1>4, AllWhole
  <2>2. FlagAfter(cmd, c) = IF cmd.how # "series" /\ c \in Found(cmd) THEN ~allow ELSE old.noparallel
    BY <1>2, <1>3 DEF FlagAfter
  <2>3. Keeps(Allowed(c), old) /\ Allowed(c).noparallel = flag
    <3> HIDE DEF old, flag
    <3>1. CASE c \notin Found(cmd)
      <4>1. Allowed(c) = old
        BY <3>1 DEF old
      <4> QED BY <2>2, <3>1, <4>1 DEF flag, Keeps
    <3>2. CASE c \in Found(cmd) /\ cmd.how = "series"
      <4>1. Allowed(c) = [old EXCEPT !.series = allow]
        BY <3>2 DEF old, Combine
      <4> QED BY <2>1, <2>2, <3>2, <4>1 DEF flag, Keeps, Whole, CellFields, PinNames
    <3>3. CASE c \in Found(cmd) /\ cmd.how # "series"
      <4>1. Allowed(c) = [old EXCEPT !.noparallel = ~allow]
        BY <3>3 DEF old, Combine
      <4> HIDE DEF Allowed
      <4> QED BY <2>1, <2>2, <3>3, <4>1 DEF flag, Keeps, Whole, CellFields, PinNames
    <3> QED BY <3>1, <3>2, <3>3
  <2> HIDE DEF Allowed, old, flag, mask
  <2>4. Whole(Allowed(c))
    BY <2>1, <2>3 DEF Keeps, Whole
  <2>5. Steady(Merged(c), Allowed(c))
    BY <2>4, DefinitionsSteady, SteadySelf
  <2> HIDE DEF Merged
  <2>6. Keeps(Merged(c), old) /\ Merged(c).noparallel = flag
    BY <2>3, <2>5 DEF Steady, Keeps
  <2> QED BY <2>6 DEF old, flag
<1> HIDE DEF Merged
<1>5. DOMAIN cells' = DOMAIN cells /\ \A c \in DOMAIN cells : cells'[c] = Merged(c)
  BY <1>1
<1> QED BY <1>2, <1>3, <1>4, <1>5 DEF CommandDoes

LEMMA DerivesDoes ==
  ASSUME FilesInv, "parallelNone" \in DOMAIN options, NEW cmd, PropertyDerives(cmd)
  PROVE  CommandDoes(cmd)
<1> DEFINE Added(c) == IF c \in Targets(cmd) THEN PropertyAdd(cells[c], cmd.what, "double", "default")
                       ELSE cells[c]
           added == [c \in DOMAIN cells |-> Added(c)]
<1>1. ASSUME NEW c \in DOMAIN cells
      PROVE  Steady(added[c], cells[c]) /\ Whole(added[c])
  <2>1. Whole(cells[c]) /\ Steady(cells[c], cells[c])
    BY <1>1, AllWhole
  <2>2. Steady(Added(c), cells[c])
    BY <2>1, DefinitionsSteady
  <2>3. added[c] = Added(c)
    OBVIOUS
  <2> HIDE DEF Added, added
  <2> QED BY <2>1, <2>2, <2>3 DEF Steady, Keeps, Whole
<1> HIDE DEF added
<1>2. DOMAIN cells' = DOMAIN cells /\ \A c \in DOMAIN cells : Steady(cells'[c], cells[c])
  <2>1. CASE cells' = cells
    BY <2>1, AllWhole
  <2>2. ASSUME NEW tc, NEW reached,
               cells' = [c \in DOMAIN cells |->
                 IF c \in reached
                 THEN Derived(added[c], tc[1], added[tc].defs, cmd.what, cmd.width, cmd.length)
                 ELSE added[c]]
        PROVE  DOMAIN cells' = DOMAIN cells /\ \A c \in DOMAIN cells : Steady(cells'[c], cells[c])
    <3> DEFINE Changed(c) == IF c \in reached
                 THEN Derived(added[c], tc[1], added[tc].defs, cmd.what, cmd.width, cmd.length)
                 ELSE added[c]
    <3>1. ASSUME NEW c \in DOMAIN cells
          PROVE  Steady(Changed(c), cells[c])
      <4>1. Steady(added[c], cells[c]) /\ Whole(added[c])
        BY <1>1, <3>1
      <4>2. Steady(Changed(c), added[c])
        BY <4>1, InstancesSteady, SteadySelf
      <4> HIDE DEF Changed
      <4> QED BY <4>1, <4>2, SteadyTwice
    <3>2. cells' = [c \in DOMAIN cells |-> Changed(c)]
      BY <2>2
    <3> HIDE DEF Changed
    <3> QED BY <3>1, <3>2
  <2>3. CASE cells' # cells
    <3>1. PICK tc \in Found(cmd), reached \in (SUBSET DOMAIN cells) \ {{}} :
            cells' = [c \in DOMAIN cells |->
              IF c \in reached
              THEN Derived(added[c], tc[1], added[tc].defs, cmd.what, cmd.width, cmd.length)
              ELSE added[c]]
      BY <2>3 DEF PropertyDerives, added
    <3> QED BY <2>2, <3>1
  <2> QED BY <2>1, <2>3
<1>3. Command("derive", cmd) /\ order' = order /\ circuits' = circuits /\ options' = options
  BY DEF PropertyDerives
<1> QED BY <1>2, <1>3, SteadyDoes

LEMMA IgnoreDoes ==
  ASSUME FilesInv, "parallelNone" \in DOMAIN options, NEW cmd, IgnoreClass(cmd)
  PROVE  CommandDoes(cmd)
<1> DEFINE files == IF CommonParseCell(cmd.cell).file # AnyFile THEN {CommonParseCell(cmd.cell).file}
                    ELSE IF circuits # << >> THEN ToSet(circuits) ELSE {c[2] : c \in DOMAIN cells}
           name == (CHOOSE n \in Found(cmd) : TRUE)[1]
           Without(c, n) == IF cmd.what = "class" THEN ClassDelete(cells[c], n)
                            ELSE RemoveShorted(cells[c], n)
           Changed(c) == IF c[2] \in files /\ \E n \in Found(cmd) : <<n[1], c[2]>> \in DOMAIN cells
                         THEN Without(c, name) ELSE cells[c]
<1>1. cells' = [c \in DOMAIN cells |-> Changed(c)]
  BY DEF IgnoreClass
<1> HIDE DEF files, name
<1>2. ASSUME NEW c \in DOMAIN cells
      PROVE  Steady(Changed(c), cells[c])
  <2>1. Whole(cells[c]) /\ Steady(cells[c], cells[c])
    BY <1>2, AllWhole
  <2>2. Steady(Without(c, name), cells[c])
    BY <2>1, InstancesSteady
  <2> HIDE DEF Without
  <2> QED BY <2>1, <2>2
<1> HIDE DEF Changed
<1>3. DOMAIN cells' = DOMAIN cells /\ \A c \in DOMAIN cells : Steady(cells'[c], cells[c])
  BY <1>1, <1>2
<1>4. Command("ignore", cmd) /\ order' = order /\ circuits' = circuits /\ options' = options
  BY DEF IgnoreClass
<1> QED BY <1>3, <1>4, SteadyDoes

LEMMA OthersDo ==
  ASSUME FilesInv, "parallelNone" \in DOMAIN options, NEW cmd,
         \/ PropertyDefaults(cmd) \/ PropertySeries(cmd) \/ PropertyTopology(cmd)
         \/ PropertyMerges(cmd) \/ PropertyAdds(cmd) \/ PropertyRemoves(cmd)
         \/ PropertyAssociates(cmd) \/ PropertyTolerances(cmd)
         \/ PermuteClasses(cmd) \/ PermutePins(cmd) \/ PermuteForgets(cmd)
  PROVE  CommandDoes(cmd)
<1>0. \A c \in DOMAIN cells : Whole(cells[c]) /\ Steady(cells[c], cells[c])
  BY AllWhole
<1>1. CASE PropertyDefaults(cmd)
  <2> DEFINE Changed(c) ==
                  PropertyDefault(cells[c])
  <2>1. \A c \in DOMAIN cells : Steady(Changed(c), cells[c])
    BY <1>0, DefaultSteady
  <2>2. cells' = [c \in DOMAIN cells |-> Changed(c)]
    BY <1>1 DEF PropertyDefaults
  <2>3. Command("default", cmd) /\ order' = order /\ circuits' = circuits /\ options' = options
    BY <1>1 DEF PropertyDefaults
  <2> HIDE DEF Changed
  <2> QED BY <2>1, <2>2, <2>3, SteadyDoes
<1>2. CASE PropertySeries(cmd)
  <2> DEFINE Changed(c) ==
                  SetSeriesCombine(cells[c], cmd.what = "all")
  <2>1. \A c \in DOMAIN cells : Steady(Changed(c), cells[c])
    BY <1>0, SeriesSteady
  <2>2. cells' = [c \in DOMAIN cells |-> Changed(c)]
    BY <1>2 DEF PropertySeries
  <2>3. Command("series", cmd) /\ order' = order /\ circuits' = circuits /\ options' = options
    BY <1>2 DEF PropertySeries
  <2> HIDE DEF Changed
  <2> QED BY <2>1, <2>2, <2>3, SteadyDoes
<1>3. CASE PropertyTopology(cmd)
  <2>1. Command("topology", cmd) /\ cells' = cells /\ order' = order /\ circuits' = circuits
    BY <1>3 DEF PropertyTopology
  <2>2. "parallelNone" \in DOMAIN options' /\ options'.parallelNone = options.parallelNone
    BY <1>3 DEF PropertyTopology
  <2> QED BY <1>0, <2>1, <2>2, SteadyDoes
<1>4. CASE PropertyMerges(cmd)
  <2> DEFINE Changed(c) ==
                  IF c \in Targets(cmd)
                  THEN PropertyMerge(cells[c], cmd.key, MergeBits(cmd.what), AllMask)
                  ELSE cells[c]
  <2>1. \A c \in DOMAIN cells : Steady(Changed(c), cells[c])
    BY <1>0, DefinitionsSteady
  <2>2. cells' = [c \in DOMAIN cells |-> Changed(c)]
    BY <1>4 DEF PropertyMerges
  <2>3. Command("merge", cmd) /\ order' = order /\ circuits' = circuits /\ options' = options
    BY <1>4 DEF PropertyMerges
  <2> HIDE DEF Changed
  <2> QED BY <2>1, <2>2, <2>3, SteadyDoes
<1>5. CASE PropertyAdds(cmd)
  <2> DEFINE Changed(c) ==
                  IF c \in Targets(cmd)
                  THEN PropertyAdd(cells[c], cmd.key, cmd.type, cmd.slop) ELSE cells[c]
  <2>1. \A c \in DOMAIN cells : Steady(Changed(c), cells[c])
    BY <1>0, DefinitionsSteady
  <2>2. cells' = [c \in DOMAIN cells |-> Changed(c)]
    BY <1>5 DEF PropertyAdds
  <2>3. Command("add", cmd) /\ order' = order /\ circuits' = circuits /\ options' = options
    BY <1>5 DEF PropertyAdds
  <2> HIDE DEF Changed
  <2> QED BY <2>1, <2>2, <2>3, SteadyDoes
<1>6. CASE PropertyRemoves(cmd)
  <2> DEFINE Changed(c) ==
                  IF cmd.keys = {} /\ c \in Found(cmd)
                  THEN PropertyDelete(cells[c], DOMAIN cells[c].defs)
                  ELSE IF cmd.keys # {} /\ c \in Targets(cmd)
                  THEN PropertyDelete(cells[c], cmd.keys)
                  ELSE cells[c]
  <2>1. \A c \in DOMAIN cells : Steady(Changed(c), cells[c])
    BY <1>0, DefinitionsSteady
  <2>2. cells' = [c \in DOMAIN cells |-> Changed(c)]
    BY <1>6 DEF PropertyRemoves
  <2>3. Command("remove", cmd) /\ order' = order /\ circuits' = circuits /\ options' = options
    BY <1>6 DEF PropertyRemoves
  <2> HIDE DEF Changed
  <2> QED BY <2>1, <2>2, <2>3, SteadyDoes
<1>7. CASE PropertyAssociates(cmd)
  <2> DEFINE Changed(c) ==
                  IF c \in Targets(cmd)
                  THEN PropertyAssociatePin(cells[c], cmd.key, cmd.pin) ELSE cells[c]
  <2>1. \A c \in DOMAIN cells : Steady(Changed(c), cells[c])
    BY <1>0, DefinitionsSteady
  <2>2. cells' = [c \in DOMAIN cells |-> Changed(c)]
    BY <1>7 DEF PropertyAssociates
  <2>3. Command("associate", cmd) /\ order' = order /\ circuits' = circuits /\ options' = options
    BY <1>7 DEF PropertyAssociates
  <2> HIDE DEF Changed
  <2> QED BY <2>1, <2>2, <2>3, SteadyDoes
<1>8. CASE PropertyTolerances(cmd)
  <2> DEFINE Changed(c) ==
                  IF c \in Targets(cmd)
                  THEN PropertyTolerance(cells[c], cmd.key,
                         IF cmd.kind = "double" THEN Unset ELSE cmd.slop,
                         IF cmd.kind = "integer" THEN Unset ELSE cmd.slop)
                  ELSE cells[c]
  <2>1. \A c \in DOMAIN cells : Steady(Changed(c), cells[c])
    BY <1>0, DefinitionsSteady
  <2>2. cells' = [c \in DOMAIN cells |-> Changed(c)]
    BY <1>8 DEF PropertyTolerances
  <2>3. Command("tolerance", cmd) /\ order' = order /\ circuits' = circuits /\ options' = options
    BY <1>8 DEF PropertyTolerances
  <2> HIDE DEF Changed
  <2> QED BY <2>1, <2>2, <2>3, SteadyDoes
<1>9. CASE PermuteClasses(cmd)
  <2> DEFINE Changed(c) ==
                  PermuteDefault(cells[c], cmd.what)
  <2>1. \A c \in DOMAIN cells : Steady(Changed(c), cells[c])
    BY <1>0, PermutesSteady
  <2>2. cells' = [c \in DOMAIN cells |-> Changed(c)]
    BY <1>9 DEF PermuteClasses
  <2>3. Command("permute_class", cmd) /\ order' = order /\ circuits' = circuits /\ options' = options
    BY <1>9 DEF PermuteClasses
  <2> HIDE DEF Changed
  <2> QED BY <2>1, <2>2, <2>3, SteadyDoes
<1>10. CASE PermutePins(cmd)
  <2> DEFINE Changed(c) ==
                  IF c \in PermuteTargets(cmd)
                  THEN PermuteSetup(cells[c], cmd.pins[1], cmd.pins[2]) ELSE cells[c]
  <2>1. \A c \in DOMAIN cells : Steady(Changed(c), cells[c])
    BY <1>0, PermutesSteady
  <2>2. cells' = [c \in DOMAIN cells |-> Changed(c)]
    BY <1>10 DEF PermutePins
  <2>3. Command("permute", cmd) /\ order' = order /\ circuits' = circuits /\ options' = options
    BY <1>10 DEF PermutePins
  <2> HIDE DEF Changed
  <2> QED BY <2>1, <2>2, <2>3, SteadyDoes
<1>11. CASE PermuteForgets(cmd)
  <2> DEFINE Changed(c) ==
                  IF cmd.cell # << >> /\ c \notin PermuteTargets(cmd) THEN cells[c]
                  ELSE IF cmd.pins = << >> THEN PermuteForgetAll(cells[c])
                  ELSE PermuteForget(cells[c], cmd.pins[1], cmd.pins[2])
  <2>1. \A c \in DOMAIN cells : Steady(Changed(c), cells[c])
    BY <1>0, PermutesSteady
  <2>2. cells' = [c \in DOMAIN cells |-> Changed(c)]
    BY <1>11 DEF PermuteForgets
  <2>3. Command("forget", cmd) /\ order' = order /\ circuits' = circuits /\ options' = options
    BY <1>11 DEF PermuteForgets
  <2> HIDE DEF Changed
  <2> QED BY <2>1, <2>2, <2>3, SteadyDoes
<1> QED BY <1>1, <1>2, <1>3, <1>4, <1>5, <1>6, <1>7, <1>8, <1>9, <1>10, <1>11

\* Every step reads a file, assigns the circuits or is a command.
LEMMA StepDoes ==
  ASSUME FilesInv, "parallelNone" \in DOMAIN options, Next
  PROVE  \/ \E f \in DOMAIN Netlists : Read(f)
         \/ Assign
         \/ \E cmd \in Commands : CommandDoes(cmd)
BY ParallelDoes, CombineDoes, DerivesDoes, IgnoreDoes, OthersDo DEF Next

-----------------------------------------------------------------------------
(* Which cell a command for one cell and one file finds.                     *)

FileTokens == {File(1), File(2), Option("-circuit1"), Option("-circuit2"),
               Name("top1"), Name("top2")}
NamesOne(arg, t, n) ==
  /\ t \in FileTokens /\ n \notin {"top1", "top2"}
  /\ arg \in {<<t, Name(n)>>, <<Name(n), t>>}

LEMMA FileTokenSpeaks ==
  ASSUME NEW t \in FileTokens
  PROVE  /\ Token(t) /\ Spoken(t) \in {{1}, {2}}
         /\ \A n : t = Name(n) => \E f \in {1, 2} : n = TopOf[f] /\ Spoken(t) = {f}
         /\ t[1] = "option" <=> t \in {Option("-circuit1"), Option("-circuit2")}
<1>1. Token(t)
  BY DEF FileTokens, Token
<1>2. Spoken(t) \in {{1}, {2}}
  BY SpokenTokens DEF FileTokens
<1>3. ASSUME NEW n, t = Name(n)
      PROVE  \E f \in {1, 2} : n = TopOf[f] /\ Spoken(t) = {f}
  <2>1. t = Name("top1") \/ t = Name("top2")
    BY <1>3 DEF FileTokens, File, Option, Name
  <2>2. n = "top1" \/ n = "top2"
    BY <1>3, <2>1 DEF Name
  <2>3. TopOf[1] = "top1" /\ TopOf[2] = "top2"
    BY DEF TopOf
  <2> QED BY <1>3, <2>2, <2>3, SpokenTokens
<1>4. t[1] = "option" <=> t \in {Option("-circuit1"), Option("-circuit2")}
  BY DEF FileTokens, File, Option, Name
<1> QED BY <1>1, <1>2, <1>3, <1>4

LEMMA NamedTokens ==
  ASSUME NEW arg, NEW t, NEW n, NamesOne(arg, t, n)
  PROVE  ToSet(arg) = {t, Name(n)} /\ FilesMeant(arg) = Spoken(t)
<1>1. CASE arg = <<t, Name(n)>>
  <2>1. DOMAIN arg = {1, 2} /\ arg[1] = t /\ arg[2] = Name(n)
    BY <1>1
  <2>2. ToSet(arg) = {t, Name(n)}
    BY <2>1 DEF ToSet
  <2>3. FilesMeant(arg) = IF Spoken(t) \cup Spoken(Name(n)) = {} THEN {1, 2}
                          ELSE Spoken(t) \cup Spoken(Name(n))
    BY <1>1, Meant
  <2>4. Spoken(Name(n)) = {}
    BY SpokenTokens DEF NamesOne
  <2>5. Spoken(t) # {}
    BY FileTokenSpeaks DEF NamesOne
  <2> QED BY <2>2, <2>3, <2>4, <2>5
<1>2. CASE arg = <<Name(n), t>>
  <2>1. DOMAIN arg = {1, 2} /\ arg[2] = t /\ arg[1] = Name(n)
    BY <1>2
  <2>2. ToSet(arg) = {t, Name(n)}
    BY <2>1 DEF ToSet
  <2>3. FilesMeant(arg) = IF Spoken(Name(n)) \cup Spoken(t) = {} THEN {1, 2}
                          ELSE Spoken(Name(n)) \cup Spoken(t)
    BY <1>2, Meant
  <2>4. Spoken(Name(n)) = {}
    BY SpokenTokens DEF NamesOne
  <2>5. Spoken(t) # {}
    BY FileTokenSpeaks DEF NamesOne
  <2> QED BY <2>2, <2>3, <2>4, <2>5
<1> QED BY <1>1, <1>2 DEF NamesOne

LEMMA FoundInFile ==
  ASSUME FilesInv, TwoFiles, NEW arg, NEW t, NEW n, NamesOne(arg, t, n), NEW c \in DOMAIN cells
  PROVE  c \in CommonParseCell(arg).found
           <=> /\ c[1] = n /\ Spoken(t) = {c[2]}
               /\ t[1] = "option" => circuits # << >>
<1> DEFINE p == CommonParseCell(arg)
<1>1. PICK f \in {1, 2} : Spoken(t) = {f}
  BY FileTokenSpeaks DEF NamesOne
<1>2. c = <<n, f>> <=> c[1] = n /\ Spoken(t) = {c[2]}
  <2>1. c = <<c[1], c[2]>>
    BY Tops
  <2> QED BY <1>1, <2>1
<1>3. p \in {ParsePair(t, Name(n)), ParsePair(Name(n), t)}
  BY ParseShapes DEF NamesOne
<1>4. ASSUME p = In(n, f)
      PROVE  c \in p.found <=> c = <<n, f>>
  BY <1>4 DEF In, Parsed, LookupCellFile
<1>5. ASSUME p = Failed
      PROVE  c \notin p.found
  BY <1>5 DEF Failed, Parsed
<1> HIDE DEF p
<1>6. CASE t \in {File(1), File(2)}
  <2>1. p = In(n, f)
    BY <1>1, <1>3, <1>6, ParseFile, SpokenTokens
  <2>2. t[1] # "option"
    BY <1>6 DEF File
  <2> QED BY <1>2, <1>4, <2>1, <2>2 DEF p
<1>7. ASSUME NEW o \in {"-circuit1", "-circuit2"}, t = Option(o)
      PROVE  c \in p.found <=> c = <<n, f>> /\ circuits # << >>
  <2>1. CASE circuits = << >>
    <3>1. FileOf(Option(o)) = {}
      BY <2>1, FileOfTokens
    <3>2. ParsePair(t, Name(n)) = Failed /\ ParsePair(Name(n), t) = Failed
      BY <1>7, <3>1, ParseOption
    <3>3. p = Failed
      BY <1>3, <3>2
    <3> QED BY <1>5, <2>1, <3>3
  <2>2. CASE circuits # << >>
    <3>1. circuits = <<1, 2>>
      BY <2>2 DEF FilesInv
    <3>2. circuits[1] = 1 /\ circuits[2] = 2
      BY <3>1
    <3>3. FileOf(Option(o)) = {f}
      BY <1>1, <1>7, <2>2, <3>2, FileOfTokens, SpokenTokens
    <3>4. p = In(n, CHOOSE x \in {f} : TRUE)
      BY <1>3, <1>7, <3>3, ParseOption
    <3>5. p = In(n, f)
      BY <3>4
    <3> QED BY <1>4, <2>2, <3>5
  <2> QED BY <2>1, <2>2
<1>8. CASE t \in {Option("-circuit1"), Option("-circuit2")}
  <2>1. t[1] = "option"
    BY <1>8 DEF Option
  <2> QED BY <1>2, <1>7, <1>8, <2>1 DEF p
<1>9. CASE t \in {Name("top1"), Name("top2")}
  <2>0. (f = 1 /\ TopOf[f] = "top1") \/ (f = 2 /\ TopOf[f] = "top2")
    BY DEF TopOf
  <2>1. t = Name(TopOf[f])
    BY <1>1, <1>9, SpokenTokens DEF TopOf
  <2>2. p \in {WithFileName(TopOf[f], n), WithFileName(n, TopOf[f])}
    BY <1>3, <2>1, ParseNames
  <2>3. p = Failed \/ p = In(n, f)
    <3>1. CASE LookupCell(order, TopOf[f]) = {} \/ LookupCell(order, n) = {}
      BY <2>2, <3>1 DEF WithFileName
    <3>2. ASSUME NEW d \in DOMAIN cells, d[1] = TopOf[f], LookupCell(order, TopOf[f]) = {d},
                 NEW e \in DOMAIN cells, e[1] = n, LookupCell(order, n) = {e}
          PROVE  p = In(n, f)
      <4>1. IsTop(d) /\ d[2] = f
        BY <2>0, <3>2, Tops
      <4>2. ~IsTop(e)
        BY <3>2, Tops DEF NamesOne
      <4>3. (CHOOSE x \in {d} : TRUE) = d /\ (CHOOSE x \in {e} : TRUE) = e
        OBVIOUS
      <4> QED BY <2>2, <3>2, <4>1, <4>2, <4>3 DEF WithFileName, In
    <3> QED BY <3>1, <3>2, LookupFinds
  <2>4. ASSUME c = <<n, f>>
        PROVE  p # Failed
    <3>1. c[1] = n /\ c[2] = f /\ <<TopOf[f], f>> \in DOMAIN cells
      BY <2>4, Tops
    <3> DEFINE d == <<TopOf[f], f>>
    <3>2. d[1] = TopOf[f]
      OBVIOUS
    <3>3. LookupCell(order, n) # {} /\ LookupCell(order, TopOf[f]) # {}
      BY <3>1, <3>2, LookupFinds
    <3> HIDE DEF d
    <3>4. PICK d1 \in DOMAIN cells : d1[1] = TopOf[f] /\ LookupCell(order, TopOf[f]) = {d1}
      BY <3>3, LookupFinds
    <3>5. PICK e \in DOMAIN cells : e[1] = n /\ LookupCell(order, n) = {e}
      BY <3>3, LookupFinds
    <3>6. IsTop(d1) /\ d1[2] = f
      BY <2>0, <3>4, Tops
    <3>7. ~IsTop(e)
      BY <3>5, Tops DEF NamesOne
    <3>8. (CHOOSE x \in {d1} : TRUE) = d1 /\ (CHOOSE x \in {e} : TRUE) = e
      OBVIOUS
    <3>9. p = In(n, f)
      BY <2>2, <3>4, <3>5, <3>6, <3>7, <3>8 DEF WithFileName, In
    <3>10. c \in p.found
      BY <1>4, <2>4, <3>9
    <3> QED BY <1>5, <3>10
  <2>5. t[1] # "option"
    BY <1>9 DEF Name
  <2> QED BY <1>2, <1>4, <1>5, <2>3, <2>4, <2>5 DEF p
<1> QED BY <1>6, <1>8, <1>9 DEF NamesOne, FileTokens, p

\* The command speaks of the cell that it finds.
LEMMA SaysFinds ==
  ASSUME FilesInv, TwoFiles, NEW cmd, cmd.op = "combine", cmd.how = "parallel",
         \E t, n : NamesOne(cmd.cell, t, n),
         NEW c \in DOMAIN cells
  PROVE  Says(Append(history, cmd), c, Len(history) + 1) <=> c \in Found(cmd)
<1> DEFINE g == Append(history, cmd)
           N == Len(history) + 1
<1>1. PICK t, n : NamesOne(cmd.cell, t, n)
  OBVIOUS
<1>2. /\ Len(history) \in Nat /\ DOMAIN history = 1..Len(history) /\ DOMAIN g = 1..N
      /\ \A i \in 1..Len(history) : g[i] = history[i]
      /\ g[N] = cmd
  BY Appended DEF FilesInv
<1> HIDE DEF g
<1>3. \E j \in DOMAIN g : j < N /\ g[j] = ReadOf(c[2])
  <2>1. ReadOf(c[2]) \in ToSet(history)
    BY DEF FilesInv
  <2>2. PICK j \in DOMAIN history : history[j] = ReadOf(c[2])
    BY <2>1 DEF ToSet
  <2> QED BY <1>2, <2>2
<1>4. (\E j \in 1..N : g[j].op = "assign") <=> circuits # << >>
  <2>1. (\E j \in DOMAIN history : history[j].op = "assign") <=> circuits # << >>
    BY DEF FilesInv
  <2>2. cmd.op # "assign"
    OBVIOUS
  <2> QED BY <1>2, <2>1, <2>2
<1>5. ToSet(cmd.cell) = {t, Name(n)} /\ FilesMeant(cmd.cell) = Spoken(t)
  BY <1>1, NamedTokens
<1>6. Name(n)[1] # "option"
  BY DEF Name
<1>7. ~ForAll(g, N)
  BY <1>2 DEF ForAll
<1>8. Says(g, c, N)
        <=> /\ Name(c[1]) \in {t, Name(n)} /\ c[1] # TopOf[c[2]]
            /\ Spoken(t) = {c[2]}
            /\ t[1] = "option" => circuits # << >>
  BY <1>2, <1>3, <1>4, <1>5, <1>6, <1>7 DEF Says, ForCell
<1>9. ASSUME Spoken(t) = {c[2]}
      PROVE  (Name(c[1]) \in {t, Name(n)} /\ c[1] # TopOf[c[2]]) <=> c[1] = n
  <2>1. n # TopOf[c[2]]
    <3>1. c[2] \in {1, 2}
      BY Tops
    <3> QED BY <1>1, <3>1 DEF NamesOne, TopOf
  <2>2. Name(c[1]) = t => c[1] = TopOf[c[2]]
    BY <1>1, <1>9, FileTokenSpeaks DEF NamesOne
  <2>3. Name(c[1]) = Name(n) <=> c[1] = n
    BY DEF Name
  <2> QED BY <2>1, <2>2, <2>3
<1>10. c \in Found(cmd)
         <=> /\ c[1] = n /\ Spoken(t) = {c[2]}
             /\ t[1] = "option" => circuits # << >>
  BY <1>1, FoundInFile DEF Found
<1> QED BY <1>8, <1>9, <1>10 DEF g

-----------------------------------------------------------------------------
(* The flag of a cell is what was said last.                                 *)

\* Each file is read once, the option of all cells is what was said last of all
\* cells, and the flag of a cell is what was said last of it or of all.
FlagsInv ==
  /\ FilesInv
  /\ \A f : \A i, j \in DOMAIN history : history[i] = ReadOf(f) /\ history[j] = ReadOf(f) => i = j
  /\ "parallelNone" \in DOMAIN options
  /\ LastForAll(history, options.parallelNone)
  /\ \A c \in DOMAIN cells : LastSays(history, c, cells[c].noparallel)

\* Commands to combine devices in parallel are for one cell of one file.
ParallelNamesOne ==
  \A cmd \in Commands : cmd.op = "combine" /\ cmd.how # "series" =>
    cmd.how = "parallel" /\ \E t, n : NamesOne(cmd.cell, t, n)

LEMMA InitFlags == Init => FlagsInv
<1> SUFFICES ASSUME Init
             PROVE  FlagsInv
  OBVIOUS
<1>1. /\ history = << >> /\ order = << >> /\ cells = << >> /\ circuits = << >>
      /\ "parallelNone" \in DOMAIN options /\ options.parallelNone = FALSE
  BY DEF Init
<1>2. DOMAIN history = {} /\ DOMAIN cells = {} /\ ToSet(order) = {} /\ ToSet(history) = {}
  BY <1>1 DEF ToSet
<1>3. FilesInv
  BY <1>1, <1>2 DEF FilesInv
<1> QED BY <1>1, <1>2, <1>3 DEF FlagsInv, LastForAll

LEMMA ToSetAppend ==
  ASSUME NEW S, NEW h \in Seq(S), NEW e
  PROVE  ToSet(Append(h, e)) = ToSet(h) \cup {e}
<1> DEFINE g == Append(h, e)
<1>1. /\ Len(h) \in Nat /\ DOMAIN h = 1..Len(h) /\ DOMAIN g = 1..(Len(h) + 1)
      /\ \A i \in 1..Len(h) : g[i] = h[i]
      /\ g[Len(h) + 1] = e
  BY Appended
<1> HIDE DEF g
<1>2. \A i \in DOMAIN g : g[i] \in ToSet(h) \cup {e}
  BY <1>1 DEF ToSet
<1>3. \A x \in ToSet(h) : \E i \in DOMAIN g : g[i] = x
  BY <1>1 DEF ToSet
<1>4. \E i \in DOMAIN g : g[i] = e
  BY <1>1
<1>5. ToSet(g) = ToSet(h) \cup {e}
  BY <1>2, <1>3, <1>4 DEF ToSet
<1> QED BY <1>5 DEF g

LEMMA ToSetConcat ==
  ASSUME NEW S, NEW s \in Seq(S), NEW T, NEW t \in Seq(T)
  PROVE  ToSet(s \o t) = ToSet(s) \cup ToSet(t)
<1> DEFINE g == s \o t
<1>1. s \in Seq(S \cup T) /\ t \in Seq(S \cup T)
  OBVIOUS
<1>2. /\ g \in Seq(S \cup T) /\ Len(s) \in Nat /\ Len(t) \in Nat
      /\ DOMAIN s = 1..Len(s) /\ DOMAIN t = 1..Len(t) /\ DOMAIN g = 1..(Len(s) + Len(t))
      /\ \A i \in 1..(Len(s) + Len(t)) : g[i] = IF i <= Len(s) THEN s[i] ELSE t[i - Len(s)]
  BY <1>1
<1> HIDE DEF g
<1>3. \A i \in DOMAIN g : g[i] \in ToSet(s) \cup ToSet(t)
  <2> TAKE i \in DOMAIN g
  <2>1. CASE i <= Len(s)
    BY <1>2, <2>1 DEF ToSet
  <2>2. CASE ~(i <= Len(s))
    <3>1. i - Len(s) \in DOMAIN t /\ g[i] = t[i - Len(s)]
      BY <1>2, <2>2
    <3> QED BY <3>1 DEF ToSet
  <2> QED BY <2>1, <2>2
<1>4. ASSUME NEW i \in DOMAIN s
      PROVE  \E j \in DOMAIN g : g[j] = s[i]
  BY <1>2
<1>5. ASSUME NEW i \in DOMAIN t
      PROVE  \E j \in DOMAIN g : g[j] = t[i]
  <2>1. i + Len(s) \in DOMAIN g /\ g[i + Len(s)] = t[i]
    BY <1>2
  <2> QED BY <2>1
<1>6. ToSet(g) = ToSet(s) \cup ToSet(t)
  BY <1>3, <1>4, <1>5 DEF ToSet
<1> QED BY <1>6 DEF g

\* A file is read.
LEMMA ReadFlags ==
  ASSUME FlagsInv, TwoFiles, NEW f \in DOMAIN Netlists, Read(f), history' \in Seq(Events)
  PROVE  FlagsInv'
<1> DEFINE new == [i \in DOMAIN Netlists[f] |-> <<Netlists[f][i][1], f>>]
           At(c) == CHOOSE i \in DOMAIN new : new[i] = c
           Made(c) == IF c \in ToSet(new) THEN CellDef(Netlists[f][At(c)][2]) ELSE cells[c]
<1>1. /\ cells' = [c \in DOMAIN cells \cup ToSet(new) |-> Made(c)]
      /\ order' = order \o new
      /\ history' = Append(history, ReadOf(f))
      /\ ReadOf(f) \notin ToSet(history)
      /\ circuits' = circuits /\ options' = options
  BY DEF Read, Done, ReadOf
<1>2. history \in Seq(Events) /\ FilesInv /\ f \in {1, 2}
  BY DEF FlagsInv, FilesInv, TwoFiles
<1>3. DOMAIN cells' = DOMAIN cells \cup ToSet(new)
  BY <1>1
<1>4. ASSUME NEW c \in ToSet(new)
      PROVE  /\ c[2] = f /\ InFile(c)
             /\ Whole(cells'[c]) /\ cells'[c].top = (c[1] = TopOf[f])
             /\ cells'[c].noparallel = options.parallelNone
  <2>1. \E i \in DOMAIN new : new[i] = c
    BY <1>4 DEF ToSet
  <2> DEFINE i == At(c)
             old == Netlists[f][i][2]
  <2>2. i \in DOMAIN Netlists[f] /\ c = <<Netlists[f][i][1], f>>
    BY <2>1
  <2>3. cells'[c] = CellDef(old)
    BY <1>1, <1>4
  <2> HIDE DEF i
  <2>4. c[2] = f /\ c[1] = Netlists[f][i][1] /\ InFile(c)
    BY <1>2, <2>2 DEF InFile
  <2>5. Whole(old) /\ old.top = (c[1] = TopOf[f])
    BY <1>2, <2>2, <2>4 DEF TwoFiles
  <2> HIDE DEF old, new
  <2>6. /\ Whole(CellDef(old)) /\ CellDef(old).top = old.top
        /\ CellDef(old).noparallel = options.parallelNone
    BY <2>5 DEF CellDef, Whole, CellFields
  <2> QED BY <2>3, <2>4, <2>5, <2>6
<1>5. ASSUME NEW c \in DOMAIN cells
      PROVE  c \notin ToSet(new) /\ c[2] # f /\ cells'[c] = cells[c]
  <2>1. c[2] # f
    BY <1>1, <1>2 DEF FilesInv
  <2>2. c \notin ToSet(new)
    BY <1>4, <2>1
  <2> QED BY <1>1, <2>1, <2>2
<1>6. ToSet(history') = ToSet(history) \cup {ReadOf(f)}
  BY <1>1, <1>2, ToSetAppend
<1>7. FilesInv'
  <2>1. new \in Seq(ToSet(new))
    <3>1. DOMAIN Netlists[f] = 1..Len(Netlists[f]) /\ Len(Netlists[f]) \in Nat
      BY <1>2 DEF TwoFiles
    <3>2. DOMAIN new = 1..Len(Netlists[f])
      BY <3>1
    <3>3. \A i \in 1..Len(Netlists[f]) : new[i] \in ToSet(new)
      BY <3>2 DEF ToSet
    <3>4. new = [i \in 1..Len(Netlists[f]) |-> new[i]]
      BY <3>1
    <3> HIDE DEF new
    <3> QED BY <3>1, <3>3, <3>4
  <2>2. order \in Seq(DOMAIN cells) /\ DOMAIN cells = ToSet(order)
    BY <1>2 DEF FilesInv
  <2> HIDE DEF new, Made
  <2>3. order' \in Seq(DOMAIN cells') /\ DOMAIN cells' = ToSet(order')
    <3>1. /\ order \o new \in Seq(DOMAIN cells \cup ToSet(new))
          /\ ToSet(order \o new) = ToSet(order) \cup ToSet(new)
      <4> DEFINE S == DOMAIN cells
                 T == ToSet(new)
      <4>1. order \in Seq(S) /\ new \in Seq(T)
        BY <2>1, <2>2
      <4> HIDE DEF S, T
      <4>2. ToSet(order \o new) = ToSet(order) \cup ToSet(new)
        BY ONLY <4>1, ToSetConcat
      <4>3. order \in Seq(S \cup T) /\ new \in Seq(S \cup T)
        BY <4>1
      <4>4. order \o new \in Seq(S \cup T)
        BY <4>3
      <4> QED BY <4>2, <4>4 DEF S, T
    <3>2. order' = order \o new
      BY <1>1
    <3> QED BY <1>3, <2>2, <3>1, <3>2
  <2>4. \A c \in DOMAIN cells' : InFile(c) /\ ReadOf(c[2]) \in ToSet(history')
    BY <1>2, <1>3, <1>4, <1>6 DEF FilesInv
  <2>5. ASSUME NEW c, InFile(c), ReadOf(c[2]) \in ToSet(history')
        PROVE  c \in DOMAIN cells'
    <3>1. CASE ReadOf(c[2]) \in ToSet(history)
      BY <1>2, <1>3, <2>5, <3>1 DEF FilesInv
    <3>2. CASE ReadOf(c[2]) = ReadOf(f)
      <4>1. ReadOf(c[2]).file = ReadOf(f).file
        BY <3>2
      <4>2. c[2] = f
        BY <4>1 DEF ReadOf
      <4>3. PICK i \in DOMAIN Netlists[f] : c = <<Netlists[f][i][1], f>>
        BY <2>5, <4>2 DEF InFile
      <4>4. c \in ToSet(new)
        BY <4>3 DEF new, ToSet
      <4> QED BY <1>3, <4>4
    <3> QED BY <1>6, <2>5, <3>1, <3>2
  <2>6. \A c \in DOMAIN cells' : Whole(cells'[c]) /\ cells'[c].top = (c[1] = TopOf[c[2]])
    BY <1>2, <1>3, <1>4, <1>5 DEF FilesInv
  <2>7. IF circuits = << >> THEN \A i \in DOMAIN history' : history'[i].op # "assign"
        ELSE \E i \in DOMAIN history' : history'[i].op = "assign"
    <3>1. /\ Len(history) \in Nat /\ DOMAIN history = 1..Len(history)
          /\ DOMAIN history' = 1..(Len(history) + 1)
          /\ \A i \in 1..Len(history) : history'[i] = history[i]
          /\ history'[Len(history) + 1] = ReadOf(f)
      BY <1>1, <1>2, Appended
    <3>2. ReadOf(f).op = "read"
      BY DEF ReadOf
    <3> QED BY <1>2, <3>1, <3>2 DEF FilesInv
  <2>8. circuits # << >> => circuits = <<1, 2>> /\ \A g \in {1, 2} : ReadOf(g) \in ToSet(history')
    BY <1>2, <1>6 DEF FilesInv
  <2> QED BY <1>1, <2>3, <2>4, <2>5, <2>6, <2>7, <2>8 DEF FilesInv, InFile
<1> HIDE DEF new, Made
<1>8. ReadOf(f).op = "read"
  BY DEF ReadOf
<1>9. \A g : \A i, j \in DOMAIN history' : history'[i] = ReadOf(g) /\ history'[j] = ReadOf(g) => i = j
  <2>1. /\ Len(history) \in Nat /\ DOMAIN history = 1..Len(history)
        /\ DOMAIN history' = 1..(Len(history) + 1)
        /\ \A i \in 1..Len(history) : history'[i] = history[i]
        /\ history'[Len(history) + 1] = ReadOf(f)
    BY <1>1, <1>2, Appended
  <2>2. \A i \in 1..Len(history) : history[i] # ReadOf(f)
    BY <1>1, <2>1 DEF ToSet
  <2> QED BY <2>1, <2>2 DEF FlagsInv
<1>10. LastForAll(history', options.parallelNone)
  <2>1. ~ForAll(history', Len(history) + 1)
    BY <1>1, <1>2, <1>8, Appended DEF ForAll
  <2> QED BY <1>1, <1>2, <2>1, AppendForAll DEF FlagsInv
<1>11. ASSUME NEW c \in DOMAIN cells
       PROVE  LastSays(history', c, cells[c].noparallel)
  <2>1. ~Says(history', c, Len(history) + 1)
    BY <1>1, <1>2, <1>8, Appended DEF Says, ForAll, ForCell
  <2> QED BY <1>1, <1>2, <2>1, AppendSays DEF FlagsInv
<1>12. ASSUME NEW c \in ToSet(new)
       PROVE  LastSays(history', c, options.parallelNone)
  <2>1. \A i \in DOMAIN history : history[i] # ReadOf(c[2])
    BY <1>1, <1>4, <1>12 DEF ToSet
  <2>2. LastForAll(history, options.parallelNone)
    BY DEF FlagsInv
  <2> QED BY <1>1, <1>2, <1>8, <2>1, <2>2, NotReadSays
<1>13. \A c \in DOMAIN cells' : LastSays(history', c, cells'[c].noparallel)
  BY <1>3, <1>4, <1>5, <1>11, <1>12
<1> QED BY <1>1, <1>7, <1>9, <1>10, <1>13 DEF FlagsInv

LEMMA SameFiles ==
  ASSUME FilesInv, NEW e, history' = Append(history, e), history' \in Seq(Events),
         order' = order, DOMAIN cells' = DOMAIN cells,
         \A f : e # ReadOf(f),
         \A c \in DOMAIN cells : Keeps(cells'[c], cells[c])
  PROVE  /\ ToSet(history') = ToSet(history) \cup {e}
         /\ order' \in Seq(DOMAIN cells') /\ DOMAIN cells' = ToSet(order')
         /\ \A c \in DOMAIN cells' : InFile(c) /\ ReadOf(c[2]) \in ToSet(history')
         /\ \A c : InFile(c) /\ ReadOf(c[2]) \in ToSet(history') => c \in DOMAIN cells'
         /\ \A c \in DOMAIN cells' : Whole(cells'[c]) /\ cells'[c].top = (c[1] = TopOf[c[2]])
<1>1. ToSet(history') = ToSet(history) \cup {e}
  BY ToSetAppend DEF FilesInv
<1>2. \A c \in DOMAIN cells' : Whole(cells'[c]) /\ cells'[c].top = (c[1] = TopOf[c[2]])
  BY DEF FilesInv, Keeps, Whole
<1> QED BY <1>1, <1>2 DEF FilesInv

LEMMA SameReads ==
  ASSUME FlagsInv, NEW e, history' = Append(history, e), \A f : e # ReadOf(f)
  PROVE  \A f : \A i, j \in DOMAIN history' :
           history'[i] = ReadOf(f) /\ history'[j] = ReadOf(f) => i = j
<1>1. /\ Len(history) \in Nat /\ DOMAIN history = 1..Len(history)
      /\ DOMAIN history' = 1..(Len(history) + 1)
      /\ \A i \in 1..Len(history) : history'[i] = history[i]
      /\ history'[Len(history) + 1] = e
  BY Appended DEF FlagsInv, FilesInv
<1> QED BY <1>1 DEF FlagsInv

LEMMA AssignFlags ==
  ASSUME FlagsInv, Assign, history' \in Seq(Events)
  PROVE  FlagsInv'
<1> DEFINE e == [op |-> "assign"]
<1>1. /\ history' = Append(history, e) /\ circuits = << >> /\ circuits' = <<1, 2>>
      /\ cells' = cells /\ order' = order /\ options' = options
  BY DEF Assign, Done
<1>2. history \in Seq(Events) /\ FilesInv
  BY DEF FlagsInv, FilesInv
<1>3. \A f : e # ReadOf(f)
  BY DEF ReadOf
<1>4. e.op = "assign"
  OBVIOUS
<1> HIDE DEF e
<1>5. \A c \in DOMAIN cells : Keeps(cells'[c], cells[c])
  BY <1>1 DEF Keeps
<1>6. /\ Len(history) \in Nat /\ DOMAIN history = 1..Len(history)
      /\ DOMAIN history' = 1..(Len(history) + 1)
      /\ \A i \in 1..Len(history) : history'[i] = history[i]
      /\ history'[Len(history) + 1] = e
  BY <1>1, <1>2, Appended
<1>7. FilesInv'
  <2>1. \E i \in DOMAIN history' : history'[i].op = "assign"
    BY <1>4, <1>6
  <2>2. ASSUME NEW f \in {1, 2}
        PROVE  ReadOf(f) \in ToSet(history')
    <3>1. PICK c \in DOMAIN cells : c[2] = f
      BY DEF Assign
    <3>2. ReadOf(f) \in ToSet(history)
      BY <1>2, <3>1 DEF FilesInv
    <3> QED BY <1>1, <1>2, <3>2, ToSetAppend
  <2>3. circuits' # << >>
    BY <1>1
  <2> QED BY <1>1, <1>2, <1>3, <1>5, <2>1, <2>2, <2>3, SameFiles DEF FilesInv, InFile
<1>8. ~ForAll(history', Len(history) + 1)
  BY <1>4, <1>6 DEF ForAll
<1>9. \A c : ~Says(history', c, Len(history) + 1)
  BY <1>4, <1>6, <1>8 DEF Says, ForCell
<1>10. LastForAll(history', options'.parallelNone)
  BY <1>1, <1>2, <1>8, AppendForAll DEF FlagsInv
<1>11. ASSUME NEW c \in DOMAIN cells
       PROVE  LastSays(history', c, cells[c].noparallel)
  BY <1>1, <1>2, <1>9, AppendSays DEF FlagsInv
<1>12. \A f : \A i, j \in DOMAIN history' :
         history'[i] = ReadOf(f) /\ history'[j] = ReadOf(f) => i = j
  BY <1>1, <1>3, SameReads
<1>13. "parallelNone" \in DOMAIN options'
  BY <1>1 DEF FlagsInv
<1>14. \A c \in DOMAIN cells' : LastSays(history', c, cells'[c].noparallel)
  BY <1>1, <1>11
<1> QED BY <1>7, <1>10, <1>12, <1>13, <1>14 DEF FlagsInv

LEMMA CommandFlags ==
  ASSUME FlagsInv, TwoFiles, ParallelNamesOne, NEW cmd \in Commands, CommandDoes(cmd),
         history' \in Seq(Events)
  PROVE  FlagsInv'
<1>1. /\ history' = Append(history, cmd) /\ cmd.op \notin {"read", "assign"}
      /\ order' = order /\ circuits' = circuits
      /\ DOMAIN cells' = DOMAIN cells
      /\ \A c \in DOMAIN cells :
           Keeps(cells'[c], cells[c]) /\ cells'[c].noparallel = FlagAfter(cmd, c)
      /\ "parallelNone" \in DOMAIN options'
      /\ options'.parallelNone = IF ForAll(<<cmd>>, 1) THEN cmd.what = "none" ELSE options.parallelNone
  BY DEF CommandDoes
<1>2. history \in Seq(Events) /\ FilesInv
  BY DEF FlagsInv, FilesInv
<1>3. \A f : cmd # ReadOf(f)
  BY <1>1 DEF ReadOf
<1>6. /\ Len(history) \in Nat /\ DOMAIN history = 1..Len(history)
      /\ DOMAIN history' = 1..(Len(history) + 1)
      /\ \A i \in 1..Len(history) : history'[i] = history[i]
      /\ history'[Len(history) + 1] = cmd
  BY <1>1, <1>2, Appended
<1>7. FilesInv'
  <2>1. (\E i \in DOMAIN history' : history'[i].op = "assign")
          <=> (\E i \in DOMAIN history : history[i].op = "assign")
    BY <1>1, <1>6
  <2>2. (circuits' = << >> => \A i \in DOMAIN history' : history'[i].op # "assign")
    BY <1>1, <1>2, <2>1 DEF FilesInv
  <2>3. ASSUME circuits' # << >>
        PROVE  /\ circuits' = <<1, 2>>
               /\ \E i \in DOMAIN history' : history'[i].op = "assign"
               /\ \A f \in {1, 2} : ReadOf(f) \in ToSet(history')
    <3>1. ToSet(history') = ToSet(history) \cup {cmd}
      BY <1>1, <1>2, ToSetAppend
    <3> QED BY <1>1, <1>2, <2>1, <2>3, <3>1 DEF FilesInv
  <2> QED BY <1>1, <1>2, <1>3, <2>2, <2>3, SameFiles DEF FilesInv, InFile
<1>8. ForAll(history', Len(history) + 1) <=> ForAll(<<cmd>>, 1)
  BY <1>6 DEF ForAll
<1>9. LastForAll(history', options'.parallelNone)
  <2>1. LastForAll(history, options.parallelNone)
    BY DEF FlagsInv
  <2>2. /\ ForAll(Append(history, cmd), Len(history) + 1) =>
             LastForAll(Append(history, cmd), cmd.what = "none")
        /\ ~ForAll(Append(history, cmd), Len(history) + 1) =>
             LastForAll(Append(history, cmd), options.parallelNone)
    BY <1>2, <2>1, AppendForAll
  <2> QED BY <1>1, <1>8, <2>2
<1>10. ASSUME NEW c \in DOMAIN cells
       PROVE  LastSays(history', c, cells'[c].noparallel)
  <2>1. LastSays(history, c, cells[c].noparallel)
    BY DEF FlagsInv
  <2>2. /\ Says(history', c, Len(history) + 1) => LastSays(history', c, Denies(cmd))
        /\ ~Says(history', c, Len(history) + 1) => LastSays(history', c, cells[c].noparallel)
    BY <1>1, <1>2, <2>1, AppendSays
  <2>3. cells'[c].noparallel = FlagAfter(cmd, c)
    BY <1>1, <1>10
  <2>4. CASE ForAll(<<cmd>>, 1)
    <3>1. FlagAfter(cmd, c) = Denies(cmd)
      BY <2>4 DEF FlagAfter, Denies, ForAll
    <3>2. Says(history', c, Len(history) + 1)
      BY <1>8, <2>4 DEF Says
    <3> QED BY <2>2, <2>3, <3>1, <3>2
  <2>5. CASE ~ForAll(<<cmd>>, 1) /\ cmd.op = "combine" /\ cmd.how # "series"
    <3>1. cmd.how = "parallel" /\ \E t, n : NamesOne(cmd.cell, t, n)
      BY <2>5 DEF ParallelNamesOne
    <3>2. Says(history', c, Len(history) + 1) <=> c \in Found(cmd)
      BY <1>1, <1>2, <1>10, <2>5, <3>1, SaysFinds
    <3>3. CASE c \in Found(cmd)
      <4>1. FlagAfter(cmd, c) = Denies(cmd)
        BY <2>5, <3>3 DEF FlagAfter, Denies
      <4> QED BY <2>2, <2>3, <3>2, <3>3, <4>1
    <3>4. CASE c \notin Found(cmd)
      <4>1. FlagAfter(cmd, c) = cells[c].noparallel
        BY <2>5, <3>4 DEF FlagAfter
      <4> QED BY <2>2, <2>3, <3>2, <3>4, <4>1
    <3> QED BY <3>3, <3>4
  <2>6. CASE ~ForAll(<<cmd>>, 1) /\ ~(cmd.op = "combine" /\ cmd.how # "series")
    <3>1. FlagAfter(cmd, c) = cells[c].noparallel
      BY <2>6 DEF FlagAfter
    <3>2. ~Says(history', c, Len(history) + 1)
      BY <1>6, <1>8, <2>6 DEF Says, ForCell
    <3> QED BY <2>2, <2>3, <3>1, <3>2
  <2> QED BY <2>4, <2>5, <2>6
<1>11. \A f : \A i, j \in DOMAIN history' :
         history'[i] = ReadOf(f) /\ history'[j] = ReadOf(f) => i = j
  BY <1>1, <1>3, SameReads
<1> QED BY <1>1, <1>7, <1>9, <1>10, <1>11 DEF FlagsInv

LEMMA FlagsInvariant ==
  ASSUME TwoFiles, ParallelNamesOne
  PROVE  Spec => []FlagsInv
<1>1. Init => FlagsInv
  BY InitFlags
<1>2. FlagsInv /\ SettingsInv' /\ [Next]_vars => FlagsInv'
  <2> SUFFICES ASSUME FlagsInv, SettingsInv', [Next]_vars
               PROVE  FlagsInv'
    OBVIOUS
  <2>1. history' \in Seq(Events)
    BY DEF SettingsInv
  <2>2. CASE UNCHANGED vars
    BY <2>2 DEF FlagsInv, FilesInv, InFile, vars
  <2>3. CASE Next
    <3>1. FilesInv /\ "parallelNone" \in DOMAIN options
      BY DEF FlagsInv
    <3>2. \/ \E f \in DOMAIN Netlists : Read(f)
          \/ Assign
          \/ \E cmd \in Commands : CommandDoes(cmd)
      BY <2>3, <3>1, StepDoes
    <3> QED BY <2>1, <3>2, ReadFlags, AssignFlags, CommandFlags
  <2> QED BY <2>2, <2>3
<1> QED BY <1>1, <1>2, SettingsInvariant, PTL DEF Spec

LEMMA SaidLast ==
  ASSUME FlagsInv
  PROVE  ParallelAsSaid
<1> SUFFICES ASSUME NEW c \in DOMAIN cells
             PROVE  LET readAt == CHOOSE i \in DOMAIN history :
                                    history[i] = [op |-> "read", file |-> c[2]]
                        Speaks(i) ==
                          LET h == history[i]
                          IN  CASE h.op = "parallel" -> h.what \in {"none", "all"}
                                [] h.op = "combine" ->
                                     /\ h.how = "parallel" /\ i > readAt
                                     /\ Name(c[1]) \in ToSet(h.cell) /\ ~IsTop(c)
                                     /\ FilesMeant(h.cell) = {c[2]}
                                     /\ \A o \in ToSet(h.cell) : o[1] = "option" =>
                                          \E j \in 1..i : history[j].op = "assign"
                                [] OTHER -> FALSE
                        said == {i \in DOMAIN history : Speaks(i)}
                    IN  cells[c].noparallel <=>
                          (said # {} /\ history[Max(said)].what \in {"none", "disable"})
  BY DEF ParallelAsSaid
<1> DEFINE readAt == CHOOSE i \in DOMAIN history : history[i] = [op |-> "read", file |-> c[2]]
           Speaks(i) ==
             LET h == history[i]
             IN  CASE h.op = "parallel" -> h.what \in {"none", "all"}
                   [] h.op = "combine" ->
                        /\ h.how = "parallel" /\ i > readAt
                        /\ Name(c[1]) \in ToSet(h.cell) /\ ~IsTop(c)
                        /\ FilesMeant(h.cell) = {c[2]}
                        /\ \A o \in ToSet(h.cell) : o[1] = "option" =>
                             \E j \in 1..i : history[j].op = "assign"
                   [] OTHER -> FALSE
           said == {i \in DOMAIN history : Speaks(i)}
<1>1. DOMAIN history = 1..Len(history) /\ Len(history) \in Nat
  BY DEF FlagsInv, FilesInv
<1>2. /\ readAt \in DOMAIN history
      /\ \A j \in DOMAIN history : history[j] = ReadOf(c[2]) <=> j = readAt
  <2>1. ReadOf(c[2]) \in ToSet(history)
    BY DEF FlagsInv, FilesInv
  <2>2. \E j \in DOMAIN history : history[j] = ReadOf(c[2])
    BY <2>1 DEF ToSet
  <2>3. readAt \in DOMAIN history /\ history[readAt] = ReadOf(c[2])
    BY <2>2 DEF ReadOf
  <2> HIDE DEF readAt
  <2> QED BY <2>3 DEF FlagsInv
<1>3. IsTop(c) <=> c[1] = TopOf[c[2]]
  BY DEF FlagsInv, FilesInv, IsTop
<1> HIDE DEF readAt
<1>4. ASSUME NEW i \in DOMAIN history
      PROVE  Speaks(i) <=> Says(history, c, i)
  <2>1. (\E j \in DOMAIN history : j < i /\ history[j] = ReadOf(c[2])) <=> i > readAt
    BY <1>1, <1>2
  <2>2. CASE history[i].op = "parallel"
    BY <2>2 DEF Says, ForAll, ForCell
  <2>3. CASE history[i].op = "combine"
    BY <1>3, <2>1, <2>3 DEF Says, ForAll, ForCell
  <2>4. CASE history[i].op \notin {"parallel", "combine"}
    BY <2>4 DEF Says, ForAll, ForCell
  <2> QED BY <2>2, <2>3, <2>4
<1>5. said = {i \in DOMAIN history : Says(history, c, i)}
  BY <1>4
<1> HIDE DEF Speaks
<1>6. cells[c].noparallel <=> (said # {} /\ history[Max(said)].what \in {"none", "disable"})
  <2>1. LastSays(history, c, cells[c].noparallel)
    BY DEF FlagsInv
  <2>2. CASE cells[c].noparallel = FALSE /\ \A i \in DOMAIN history : ~Says(history, c, i)
    BY <1>5, <2>2
  <2>3. ASSUME NEW m \in DOMAIN history, Says(history, c, m),
               \A i \in DOMAIN history : Says(history, c, i) => i <= m,
               cells[c].noparallel = Denies(history[m])
        PROVE  cells[c].noparallel <=> (said # {} /\ history[Max(said)].what \in {"none", "disable"})
    <3>1. m \in said /\ said \in SUBSET (1..Len(history)) /\ \A i \in said : i <= m
      BY <1>1, <1>5, <2>3
    <3> HIDE DEF said
    <3>2. Max(said) \in said /\ m <= Max(said)
      BY <1>1, <3>1, Greatest
    <3>3. Max(said) = m
      BY <1>1, <3>1, <3>2
    <3> QED BY <2>3, <3>1, <3>3 DEF Denies
  <2> QED BY <2>1, <2>2, <2>3 DEF LastSays
<1> QED BY <1>6 DEF said, Speaks, readAt

\* SetParallelCombine, PropertyParallel and CellDef (netgen.c, tclnetgen.c):
\* whatever the two files, with one top cell each, and the commands, whether the
\* devices of a cell merge in parallel is what the last command said that speaks
\* of the cell or of all.
THEOREM FlagIsLastSaid ==
  ASSUME TwoFiles, ParallelNamesOne
  PROVE  Spec => []ParallelAsSaid
<1>1. FlagsInv => ParallelAsSaid
  BY SaidLast
<1> QED BY <1>1, FlagsInvariant, PTL

-----------------------------------------------------------------------------
(* Cells that are alike stay alike.                                          *)

\* Two cells of which one follows the other: where definitions and permutations
\* of x and y were the same, those of x1 and y1 are.
SameAt(x, y, k) ==
  /\ k \in DOMAIN x.defs <=> k \in DOMAIN y.defs
  /\ k \in DOMAIN x.defs => x.defs[k] = y.defs[k]
Follows(x, y, x1, y1) ==
  /\ \A k : SameAt(x, y, k) => SameAt(x1, y1, k)
  /\ x.permutes = y.permutes => x1.permutes = y1.permutes
Untouched(new, old) == new.defs = old.defs /\ new.permutes = old.permutes

LEMMA SameAtDefs ==
  ASSUME NEW x, NEW y, NEW k
  PROVE  DefsOf(x, k) = DefsOf(y, k) <=> SameAt(x, y, k)
<1>1. ASSUME NEW z
      PROVE  DefsOf(z, k) = IF k \in DOMAIN z.defs THEN {z.defs[k]} ELSE {}
  BY DEF DefsOf
<1> QED BY <1>1 DEF SameAt

LEMMA UntouchedFollow ==
  ASSUME NEW x, NEW y, NEW x1, NEW y1, Untouched(x1, x), Untouched(y1, y)
  PROVE  Follows(x, y, x1, y1)
BY DEF Untouched, Follows, SameAt

LEMMA FollowsTwice ==
  ASSUME NEW x, NEW y, NEW x1, NEW y1, NEW x2, NEW y2,
         Follows(x, y, x1, y1), Follows(x1, y1, x2, y2)
  PROVE  Follows(x, y, x2, y2)
BY DEF Follows

LEMMA DefinitionsFollow ==
  ASSUME NEW x, Whole(x), NEW y, Whole(y), PinNames(x) = PinNames(y)
  PROVE  /\ \A key, type, slop : Follows(x, y, PropertyAdd(x, key, type, slop),
                                                PropertyAdd(y, key, type, slop))
         /\ \A keys : Follows(x, y, PropertyDelete(x, keys), PropertyDelete(y, keys))
         /\ \A key, pin : Follows(x, y, PropertyAssociatePin(x, key, pin),
                                        PropertyAssociatePin(y, key, pin))
         /\ \A key, ival, dval : Follows(x, y, PropertyTolerance(x, key, ival, dval),
                                                PropertyTolerance(y, key, ival, dval))
         /\ \A key, types, mask : Follows(x, y, PropertyMerge(x, key, types, mask),
                                                 PropertyMerge(y, key, types, mask))
<1>0. "defs" \in DOMAIN x /\ "permutes" \in DOMAIN x /\ "defs" \in DOMAIN y /\ "permutes" \in DOMAIN y
  BY DEF Whole, CellFields
<1>1. ASSUME NEW key, NEW type, NEW slop
      PROVE  Follows(x, y, PropertyAdd(x, key, type, slop), PropertyAdd(y, key, type, slop))
  BY <1>0 DEF PropertyAdd, Follows, SameAt
<1>2. ASSUME NEW keys
      PROVE  Follows(x, y, PropertyDelete(x, keys), PropertyDelete(y, keys))
  BY <1>0 DEF PropertyDelete, Follows, SameAt
<1>3. ASSUME NEW key, NEW pin
      PROVE  Follows(x, y, PropertyAssociatePin(x, key, pin), PropertyAssociatePin(y, key, pin))
  <2>1. (\E i \in DOMAIN x.ports : x.ports[i][1] = pin) <=> (\E i \in DOMAIN y.ports : y.ports[i][1] = pin)
    <3>1. DOMAIN PinNames(x) = DOMAIN x.ports /\ DOMAIN PinNames(y) = DOMAIN y.ports
      BY DEF PinNames
    <3>2. \A i \in DOMAIN x.ports : PinNames(x)[i] = x.ports[i][1]
      BY DEF PinNames
    <3>3. \A i \in DOMAIN y.ports : PinNames(y)[i] = y.ports[i][1]
      BY DEF PinNames
    <3> QED BY <3>1, <3>2, <3>3
  <2> QED BY <1>0, <2>1 DEF PropertyAssociatePin, Follows, SameAt
<1>4. ASSUME NEW key, NEW ival, NEW dval
      PROVE  Follows(x, y, PropertyTolerance(x, key, ival, dval), PropertyTolerance(y, key, ival, dval))
  BY <1>0 DEF PropertyTolerance, Follows, SameAt
<1>5. ASSUME NEW key, NEW types, NEW mask
      PROVE  Follows(x, y, PropertyMerge(x, key, types, mask), PropertyMerge(y, key, types, mask))
  BY <1>0 DEF PropertyMerge, Follows, SameAt
<1> QED BY <1>1, <1>2, <1>3, <1>4, <1>5

LEMMA PermutesFollow ==
  ASSUME NEW x, Whole(x), NEW y, Whole(y), PinNames(x) = PinNames(y)
  PROVE  /\ \A p, q : Follows(x, y, PermuteSetup(x, p, q), PermuteSetup(y, p, q))
         /\ \A p, q : Follows(x, y, PermuteForget(x, p, q), PermuteForget(y, p, q))
         /\ Follows(x, y, PermuteForgetAll(x), PermuteForgetAll(y))
<1>0. "defs" \in DOMAIN x /\ "permutes" \in DOMAIN x /\ "defs" \in DOMAIN y /\ "permutes" \in DOMAIN y
  BY DEF Whole, CellFields
<1>1. \A pins : HasPins(x, pins) <=> HasPins(y, pins)
  <2>1. DOMAIN PinNames(x) = DOMAIN x.ports /\ DOMAIN PinNames(y) = DOMAIN y.ports
    BY DEF PinNames
  <2>2. \A i \in DOMAIN x.ports : PinNames(x)[i] = x.ports[i][1]
    BY DEF PinNames
  <2>3. \A i \in DOMAIN y.ports : PinNames(y)[i] = y.ports[i][1]
    BY DEF PinNames
  <2>4. {x.ports[i][1] : i \in DOMAIN x.ports} = {y.ports[i][1] : i \in DOMAIN y.ports}
    BY <2>1, <2>2, <2>3
  <2> QED BY <2>4 DEF HasPins
<1>2. ASSUME NEW p, NEW q
      PROVE  Follows(x, y, PermuteSetup(x, p, q), PermuteSetup(y, p, q))
  BY <1>0, <1>1 DEF PermuteSetup, Follows, SameAt
<1>3. ASSUME NEW p, NEW q
      PROVE  Follows(x, y, PermuteForget(x, p, q), PermuteForget(y, p, q))
  <2> DEFINE Forgotten(s) ==
               LET found == SelectInSeq(s, LAMBDA r : r \in {<<p, q>>, <<q, p>>})
               IN  IF found = 0 THEN s ELSE RemoveAt(s, found)
             After(z) == IF HasPins(z, {p, q}) THEN Forgotten(z.permutes) ELSE z.permutes
  <2>1. ASSUME NEW z, "defs" \in DOMAIN z, "permutes" \in DOMAIN z
        PROVE  /\ PermuteForget(z, p, q).defs = z.defs
               /\ PermuteForget(z, p, q).permutes = After(z)
    BY <2>1 DEF PermuteForget
  <2> HIDE DEF Forgotten
  <2> QED BY <1>0, <1>1, <2>1 DEF Follows, SameAt
<1>4. Follows(x, y, PermuteForgetAll(x), PermuteForgetAll(y))
  BY <1>0 DEF PermuteForgetAll, Follows, SameAt
<1> QED BY <1>2, <1>3, <1>4

LEMMA InstancesUntouched ==
  ASSUME NEW cell, Whole(cell), NEW name
  PROVE  /\ Untouched(RemoveShorted(cell, name), cell)
         /\ Untouched(ClassDelete(cell, name), cell)
         /\ \A defs, key, width, length :
              Untouched(Derived(cell, name, defs, key, width, length), cell)
<1>0. "defs" \in DOMAIN cell /\ "permutes" \in DOMAIN cell
  BY DEF Whole, CellFields
<1>1. Untouched(RemoveShorted(cell, name), cell)
  BY <1>0 DEF RemoveShorted, Untouched
<1>2. Untouched(ClassDelete(cell, name), cell)
  <2>1. \E x, z : ClassDelete(cell, name) = [cell EXCEPT !.insts = x, !.ports = z]
    BY DEF ClassDelete
  <2> QED BY <1>0, <2>1 DEF Untouched
<1>3. ASSUME NEW defs, NEW key, NEW width, NEW length
      PROVE  Untouched(Derived(cell, name, defs, key, width, length), cell)
  <2>1. \E x : Derived(cell, name, defs, key, width, length) = [cell EXCEPT !.insts = x]
    BY DEF Derived
  <2> QED BY <1>0, <2>1 DEF Untouched
<1> QED BY <1>1, <1>2, <1>3

-----------------------------------------------------------------------------
(* The cells that a command is for.                                          *)

Both(n) == {<<n, 1>>, <<n, 2>>} \cap DOMAIN cells

LEMMA TargetsAsNamed ==
  ASSUME FilesInv, TwoFiles, circuits # << >>, NEW cmd, FindsAsNamed(cmd.cell)
  PROVE  \/ Found(cmd) = {} /\ Targets(cmd) = {} /\ PermuteTargets(cmd) = {}
         \/ \E c \in DOMAIN cells :
              /\ Found(cmd) = {c}
              /\ \/ /\ FilesMeant(cmd.cell) = {c[2]}
                    /\ CommonParseCell(cmd.cell).file = c[2]
                    /\ Targets(cmd) = {c} /\ PermuteTargets(cmd) = {c}
                 \/ /\ FilesMeant(cmd.cell) = {1, 2}
                    /\ CommonParseCell(cmd.cell).file = AnyFile
                    /\ Targets(cmd) = Both(c[1]) /\ PermuteTargets(cmd) = Both(c[1])
<1> DEFINE p == CommonParseCell(cmd.cell)
<1>0. circuits = <<1, 2>> /\ ToSet(circuits) = {1, 2}
  <2>1. circuits = <<1, 2>>
    BY DEF FilesInv
  <2>2. DOMAIN circuits = {1, 2} /\ circuits[1] = 1 /\ circuits[2] = 2
    BY <2>1
  <2> QED BY <2>1, <2>2 DEF ToSet
<1>1. /\ Found(cmd) = p.found
      /\ Targets(cmd) = UNION {Reached(cells, order, circuits, c[1], p.file) : c \in p.found}
      /\ PermuteTargets(cmd) = UNION {ReachedPermute(cells, circuits, c[1], p.file) : c \in p.found}
  BY DEF Found, Targets, PermuteTargets
<1> HIDE DEF p
<1>2. CASE p.found = {}
  BY <1>1, <1>2
<1>3. ASSUME NEW c \in DOMAIN cells, p.found = {c}, p.file = c[2]
      PROVE  Targets(cmd) = {c} /\ PermuteTargets(cmd) = {c}
  <2>1. c = <<c[1], c[2]>> /\ c[2] \in {1, 2}
    BY <1>3, Tops
  <2>2. p.file # AnyFile
    BY <1>3, <2>1 DEF AnyFile
  <2>3. Reached(cells, order, circuits, c[1], p.file) = {c}
    BY <1>3, <2>1, <2>2 DEF Reached, LookupCellFile
  <2>4. ReachedPermute(cells, circuits, c[1], p.file) = {c}
    <3>1. {<<c[1], f>> : f \in {p.file}} = {c}
      BY <1>3, <2>1
    <3> QED BY <1>3, <2>2, <3>1 DEF ReachedPermute
  <2> QED BY <1>1, <1>3, <2>3, <2>4
<1>4. ASSUME NEW c \in DOMAIN cells, p.found = {c}, p.file = AnyFile
      PROVE  Targets(cmd) = Both(c[1]) /\ PermuteTargets(cmd) = Both(c[1])
  <2>1. {<<c[1], f>> : f \in ToSet(circuits)} = {<<c[1], 1>>, <<c[1], 2>>}
    BY <1>0
  <2>2. Reached(cells, order, circuits, c[1], p.file) = Both(c[1])
    BY <1>4, <2>1 DEF Reached, Both
  <2>3. ReachedPermute(cells, circuits, c[1], p.file) = Both(c[1])
    BY <1>4, <2>1 DEF ReachedPermute, Both
  <2> QED BY <1>1, <1>4, <2>2, <2>3
<1> QED BY <1>1, <1>2, <1>3, <1>4 DEF FindsAsNamed, p

\* What AppliesAsNamed says of a command.
Applies(cmd) ==
  LET files == FilesMeant(cmd.cell)
  IN  /\ \A d \in DOMAIN cells : d[2] \notin files => cells'[d] = cells[d]
      /\ files = {1, 2} => \A n : SharedPins(n) =>
           Follows(cells[<<n, 1>>], cells[<<n, 2>>], cells'[<<n, 1>>], cells'[<<n, 2>>])

Pointed(cmd) == circuits # << >> /\ FindsAsNamed(cmd.cell)

LEMMA SelfFollows ==
  ASSUME NEW x, NEW y
  PROVE  Follows(x, y, x, y)
BY DEF Follows

LEMMA TargetsApply ==
  ASSUME FilesInv, TwoFiles, NEW cmd, Pointed(cmd),
         NEW T, T = Targets(cmd) \/ T = PermuteTargets(cmd),
         \A d \in DOMAIN cells : d \notin T => cells'[d] = cells[d],
         FilesMeant(cmd.cell) = {1, 2} => \A n : SharedPins(n) =>
           Follows(cells[<<n, 1>>], cells[<<n, 2>>], cells'[<<n, 1>>], cells'[<<n, 2>>])
             \/ ~({<<n, 1>>, <<n, 2>>} \subseteq T)
  PROVE  Applies(cmd)
<1>1. ASSUME T = {}
      PROVE  Applies(cmd)
  BY <1>1, SelfFollows DEF Applies, SharedPins
<1>2. ASSUME NEW c \in DOMAIN cells, FilesMeant(cmd.cell) = {c[2]}, T = {c}
      PROVE  Applies(cmd)
  <2>1. FilesMeant(cmd.cell) # {1, 2}
    BY <1>2
  <2>2. \A d \in DOMAIN cells : d[2] # c[2] => d \notin T
    BY <1>2
  <2> QED BY <1>2, <2>1, <2>2 DEF Applies
<1>3. ASSUME NEW c \in DOMAIN cells, FilesMeant(cmd.cell) = {1, 2}, T = Both(c[1])
      PROVE  Applies(cmd)
  <2>1. \A d \in DOMAIN cells : d[2] \in {1, 2}
    BY Tops
  <2>2. ASSUME NEW n, SharedPins(n)
        PROVE  Follows(cells[<<n, 1>>], cells[<<n, 2>>], cells'[<<n, 1>>], cells'[<<n, 2>>])
    <3>1. {<<n, 1>>, <<n, 2>>} \subseteq DOMAIN cells
      BY <2>2 DEF SharedPins
    <3>2. CASE n = c[1]
      <4>1. {<<n, 1>>, <<n, 2>>} \subseteq T
        BY <1>3, <3>1, <3>2 DEF Both
      <4> QED BY <1>3, <2>2, <4>1
    <3>3. CASE n # c[1]
      <4>1. <<n, 1>> \notin T /\ <<n, 2>> \notin T
        BY <1>3, <3>3 DEF Both
      <4>2. cells'[<<n, 1>>] = cells[<<n, 1>>] /\ cells'[<<n, 2>>] = cells[<<n, 2>>]
        BY <3>1, <4>1
      <4> QED BY <4>2, SelfFollows
    <3> QED BY <3>2, <3>3
  <2> QED BY <1>3, <2>1, <2>2 DEF Applies
<1> QED BY <1>1, <1>2, <1>3, TargetsAsNamed DEF Pointed

\* The pins of a shared cell.
LEMMA SharedWhole ==
  ASSUME FilesInv, NEW n, SharedPins(n)
  PROVE  /\ <<n, 1>> \in DOMAIN cells /\ <<n, 2>> \in DOMAIN cells
         /\ Whole(cells[<<n, 1>>]) /\ Whole(cells[<<n, 2>>])
         /\ PinNames(cells[<<n, 1>>]) = PinNames(cells[<<n, 2>>])
BY AllWhole DEF SharedPins

LEMMA OneApplies ==
  ASSUME FilesInv, TwoFiles, NEW cmd, Pointed(cmd), cmd.cell # << >>,
         \/ PropertyMerges(cmd) \/ PropertyAdds(cmd) \/ PropertyAssociates(cmd)
         \/ PropertyTolerances(cmd) \/ PermutePins(cmd) \/ PermuteForgets(cmd)
  PROVE  Applies(cmd)
<1>1. CASE PropertyMerges(cmd)
  <2> DEFINE T == Targets(cmd)
             After(c) == PropertyMerge(cells[c], cmd.key, MergeBits(cmd.what), AllMask)
  <2>1. cells' = [c \in DOMAIN cells |-> IF c \in T THEN After(c) ELSE cells[c]]
    BY <1>1 DEF PropertyMerges
  <2>2. ASSUME NEW n, SharedPins(n)
        PROVE  Follows(cells[<<n, 1>>], cells[<<n, 2>>], After(<<n, 1>>), After(<<n, 2>>))
    BY <2>2, SharedWhole, DefinitionsFollow
  <2> HIDE DEF T, After
  <2>3. ASSUME NEW n, SharedPins(n), {<<n, 1>>, <<n, 2>>} \subseteq T
        PROVE  Follows(cells[<<n, 1>>], cells[<<n, 2>>], cells'[<<n, 1>>], cells'[<<n, 2>>])
    BY <2>1, <2>2, <2>3, SharedWhole
  <2>4. \A d \in DOMAIN cells : d \notin T => cells'[d] = cells[d]
    BY <2>1
  <2> QED BY <2>3, <2>4, TargetsApply DEF T
<1>2. CASE PropertyAdds(cmd)
  <2> DEFINE T == Targets(cmd)
             After(c) == PropertyAdd(cells[c], cmd.key, cmd.type, cmd.slop)
  <2>1. cells' = [c \in DOMAIN cells |-> IF c \in T THEN After(c) ELSE cells[c]]
    BY <1>2 DEF PropertyAdds
  <2>2. ASSUME NEW n, SharedPins(n)
        PROVE  Follows(cells[<<n, 1>>], cells[<<n, 2>>], After(<<n, 1>>), After(<<n, 2>>))
    BY <2>2, SharedWhole, DefinitionsFollow
  <2> HIDE DEF T, After
  <2>3. ASSUME NEW n, SharedPins(n), {<<n, 1>>, <<n, 2>>} \subseteq T
        PROVE  Follows(cells[<<n, 1>>], cells[<<n, 2>>], cells'[<<n, 1>>], cells'[<<n, 2>>])
    BY <2>1, <2>2, <2>3, SharedWhole
  <2>4. \A d \in DOMAIN cells : d \notin T => cells'[d] = cells[d]
    BY <2>1
  <2> QED BY <2>3, <2>4, TargetsApply DEF T
<1>3. CASE PropertyAssociates(cmd)
  <2> DEFINE T == Targets(cmd)
             After(c) == PropertyAssociatePin(cells[c], cmd.key, cmd.pin)
  <2>1. cells' = [c \in DOMAIN cells |-> IF c \in T THEN After(c) ELSE cells[c]]
    BY <1>3 DEF PropertyAssociates
  <2>2. ASSUME NEW n, SharedPins(n)
        PROVE  Follows(cells[<<n, 1>>], cells[<<n, 2>>], After(<<n, 1>>), After(<<n, 2>>))
    BY <2>2, SharedWhole, DefinitionsFollow
  <2> HIDE DEF T, After
  <2>3. ASSUME NEW n, SharedPins(n), {<<n, 1>>, <<n, 2>>} \subseteq T
        PROVE  Follows(cells[<<n, 1>>], cells[<<n, 2>>], cells'[<<n, 1>>], cells'[<<n, 2>>])
    BY <2>1, <2>2, <2>3, SharedWhole
  <2>4. \A d \in DOMAIN cells : d \notin T => cells'[d] = cells[d]
    BY <2>1
  <2> QED BY <2>3, <2>4, TargetsApply DEF T
<1>4. CASE PropertyTolerances(cmd)
  <2> DEFINE T == Targets(cmd)
             After(c) == PropertyTolerance(cells[c], cmd.key,
                      IF cmd.kind = "double" THEN Unset ELSE cmd.slop,
                      IF cmd.kind = "integer" THEN Unset ELSE cmd.slop)
  <2>1. cells' = [c \in DOMAIN cells |-> IF c \in T THEN After(c) ELSE cells[c]]
    BY <1>4 DEF PropertyTolerances
  <2>2. ASSUME NEW n, SharedPins(n)
        PROVE  Follows(cells[<<n, 1>>], cells[<<n, 2>>], After(<<n, 1>>), After(<<n, 2>>))
    BY <2>2, SharedWhole, DefinitionsFollow
  <2> HIDE DEF T, After
  <2>3. ASSUME NEW n, SharedPins(n), {<<n, 1>>, <<n, 2>>} \subseteq T
        PROVE  Follows(cells[<<n, 1>>], cells[<<n, 2>>], cells'[<<n, 1>>], cells'[<<n, 2>>])
    BY <2>1, <2>2, <2>3, SharedWhole
  <2>4. \A d \in DOMAIN cells : d \notin T => cells'[d] = cells[d]
    BY <2>1
  <2> QED BY <2>3, <2>4, TargetsApply DEF T
<1>5. CASE PermutePins(cmd)
  <2> DEFINE T == PermuteTargets(cmd)
             After(c) == PermuteSetup(cells[c], cmd.pins[1], cmd.pins[2])
  <2>1. cells' = [c \in DOMAIN cells |-> IF c \in T THEN After(c) ELSE cells[c]]
    BY <1>5 DEF PermutePins
  <2>2. ASSUME NEW n, SharedPins(n)
        PROVE  Follows(cells[<<n, 1>>], cells[<<n, 2>>], After(<<n, 1>>), After(<<n, 2>>))
    BY <2>2, SharedWhole, PermutesFollow
  <2> HIDE DEF T, After
  <2>3. ASSUME NEW n, SharedPins(n), {<<n, 1>>, <<n, 2>>} \subseteq T
        PROVE  Follows(cells[<<n, 1>>], cells[<<n, 2>>], cells'[<<n, 1>>], cells'[<<n, 2>>])
    BY <2>1, <2>2, <2>3, SharedWhole
  <2>4. \A d \in DOMAIN cells : d \notin T => cells'[d] = cells[d]
    BY <2>1
  <2> QED BY <2>3, <2>4, TargetsApply DEF T
<1>6. CASE PermuteForgets(cmd)
  <2> DEFINE T == PermuteTargets(cmd)
             After(c) == IF cmd.pins = << >> THEN PermuteForgetAll(cells[c])
                    ELSE PermuteForget(cells[c], cmd.pins[1], cmd.pins[2])
  <2>1. cells' = [c \in DOMAIN cells |-> IF c \in T THEN After(c) ELSE cells[c]]
    BY <1>6 DEF PermuteForgets
  <2>2. ASSUME NEW n, SharedPins(n)
        PROVE  Follows(cells[<<n, 1>>], cells[<<n, 2>>], After(<<n, 1>>), After(<<n, 2>>))
    BY <2>2, SharedWhole, PermutesFollow
  <2> HIDE DEF T, After
  <2>3. ASSUME NEW n, SharedPins(n), {<<n, 1>>, <<n, 2>>} \subseteq T
        PROVE  Follows(cells[<<n, 1>>], cells[<<n, 2>>], cells'[<<n, 1>>], cells'[<<n, 2>>])
    BY <2>1, <2>2, <2>3, SharedWhole
  <2>4. \A d \in DOMAIN cells : d \notin T => cells'[d] = cells[d]
    BY <2>1
  <2> QED BY <2>3, <2>4, TargetsApply DEF T
<1> QED BY <1>1, <1>2, <1>3, <1>4, <1>5, <1>6

LEMMA RemovesApply ==
  ASSUME FilesInv, TwoFiles, NEW cmd, Pointed(cmd), PropertyRemoves(cmd),
         cmd.keys = {} => FilesMeant(cmd.cell) # {1, 2}
  PROVE  Applies(cmd)
<1> DEFINE T == IF cmd.keys = {} THEN Found(cmd) ELSE Targets(cmd)
           After(c) == IF cmd.keys = {} THEN PropertyDelete(cells[c], DOMAIN cells[c].defs)
                       ELSE PropertyDelete(cells[c], cmd.keys)
<1>1. cells' = [c \in DOMAIN cells |-> IF c \in T THEN After(c) ELSE cells[c]]
  <2>1. cells' = [c \in DOMAIN cells |->
                    IF cmd.keys = {} /\ c \in Found(cmd)
                    THEN PropertyDelete(cells[c], DOMAIN cells[c].defs)
                    ELSE IF cmd.keys # {} /\ c \in Targets(cmd)
                    THEN PropertyDelete(cells[c], cmd.keys)
                    ELSE cells[c]]
    BY DEF PropertyRemoves
  <2>2. CASE cmd.keys = {}
    BY <2>1, <2>2
  <2>3. CASE cmd.keys # {}
    BY <2>1, <2>3
  <2> QED BY <2>2, <2>3
<1>2. ASSUME NEW n, SharedPins(n), cmd.keys # {}
      PROVE  Follows(cells[<<n, 1>>], cells[<<n, 2>>], After(<<n, 1>>), After(<<n, 2>>))
  BY <1>2, SharedWhole, DefinitionsFollow
<1>3. Found(cmd) \subseteq Targets(cmd)
  <2>1. ASSUME NEW c \in DOMAIN cells
        PROVE  c \in Both(c[1])
    BY Tops DEF Both
  <2> QED BY <2>1, TargetsAsNamed DEF Pointed
<1>4. T \subseteq Targets(cmd) /\ (cmd.keys # {} => T = Targets(cmd))
  BY <1>3
<1> HIDE DEF T, After
<1>5. ASSUME NEW n, SharedPins(n), {<<n, 1>>, <<n, 2>>} \subseteq Targets(cmd), cmd.keys # {}
      PROVE  Follows(cells[<<n, 1>>], cells[<<n, 2>>], cells'[<<n, 1>>], cells'[<<n, 2>>])
  BY <1>1, <1>2, <1>4, <1>5, SharedWhole
<1>6. \A d \in DOMAIN cells : d \notin Targets(cmd) => cells'[d] = cells[d]
  BY <1>1, <1>4
<1> QED BY <1>5, <1>6, TargetsApply

LEMMA CombineApplies ==
  ASSUME FilesInv, TwoFiles, NEW cmd, Pointed(cmd), PropertyCombine(cmd)
  PROVE  Applies(cmd)
<1> DEFINE mask == IF cmd.how = "series" THEN SMask ELSE PMask
           allow == cmd.what \notin {"disable", "none"}
           Allowed(c) == IF c \in Found(cmd) THEN Combine(cells[c], cmd.how, allow) ELSE cells[c]
           Merged(c) == IF c \in Targets(cmd) /\ cmd.what \notin {"enable", "disable"}
                        THEN PropertyMerge(Allowed(c), cmd.key, CombineBits(cmd.how, cmd.what), mask)
                        ELSE Allowed(c)
           T == Targets(cmd)
<1>1. cells' = [c \in DOMAIN cells |-> Merged(c)]
  BY DEF PropertyCombine
<1>2. ASSUME NEW c \in DOMAIN cells
      PROVE  /\ Whole(Allowed(c)) /\ PinNames(Allowed(c)) = PinNames(cells[c])
             /\ Untouched(Allowed(c), cells[c])
  <2>1. Whole(cells[c])
    BY <1>2, AllWhole
  <2>2. ASSUME NEW z, Whole(z)
        PROVE  LET y == Combine(z, cmd.how, allow)
               IN  Whole(y) /\ PinNames(y) = PinNames(z) /\ Untouched(y, z)
    BY <2>2 DEF Combine, Whole, CellFields, PinNames, Untouched
  <2> QED BY <2>1, <2>2 DEF Untouched
<1>3. Found(cmd) \subseteq T
  <2>1. ASSUME NEW c \in DOMAIN cells
        PROVE  c \in Both(c[1])
    BY Tops DEF Both
  <2> QED BY <2>1, TargetsAsNamed DEF Pointed
<1>4. \A d \in DOMAIN cells : d \notin T => cells'[d] = cells[d]
  BY <1>1, <1>3
<1>5. ASSUME NEW n, SharedPins(n), {<<n, 1>>, <<n, 2>>} \subseteq T
      PROVE  Follows(cells[<<n, 1>>], cells[<<n, 2>>], cells'[<<n, 1>>], cells'[<<n, 2>>])
  <2> DEFINE x == cells[<<n, 1>>]
             y == cells[<<n, 2>>]
             x1 == Allowed(<<n, 1>>)
             y1 == Allowed(<<n, 2>>)
  <2>1. /\ <<n, 1>> \in DOMAIN cells /\ <<n, 2>> \in DOMAIN cells
        /\ Whole(x1) /\ Whole(y1) /\ PinNames(x1) = PinNames(y1)
        /\ Untouched(x1, x) /\ Untouched(y1, y)
    <3>1. <<n, 1>> \in DOMAIN cells /\ <<n, 2>> \in DOMAIN cells /\ PinNames(x) = PinNames(y)
      BY <1>5, SharedWhole
    <3> HIDE DEF Allowed
    <3> QED BY <1>2, <3>1
  <2>2. cells'[<<n, 1>>] = Merged(<<n, 1>>) /\ cells'[<<n, 2>>] = Merged(<<n, 2>>)
    BY <1>1, <2>1
  <2>3. CASE cmd.what \in {"enable", "disable"}
    <3>1. Merged(<<n, 1>>) = x1 /\ Merged(<<n, 2>>) = y1
      BY <2>3
    <3> HIDE DEF Merged, x, y, x1, y1
    <3>2. Follows(x, y, x1, y1)
      BY <2>1, UntouchedFollow
    <3> QED BY <2>2, <3>1, <3>2 DEF x, y
  <2>4. CASE cmd.what \notin {"enable", "disable"}
    <3> DEFINE x2 == PropertyMerge(x1, cmd.key, CombineBits(cmd.how, cmd.what), mask)
               y2 == PropertyMerge(y1, cmd.key, CombineBits(cmd.how, cmd.what), mask)
    <3>1. Merged(<<n, 1>>) = x2 /\ Merged(<<n, 2>>) = y2
      <4> HIDE DEF Allowed, mask
      <4> QED BY <1>5, <2>4
    <3> HIDE DEF Merged, x, y, x1, y1, mask
    <3>2. Follows(x, y, x1, y1)
      BY <2>1, UntouchedFollow
    <3>3. Follows(x1, y1, x2, y2)
      BY <2>1, DefinitionsFollow
    <3> HIDE DEF x2, y2
    <3>4. Follows(x, y, x2, y2)
      BY <3>2, <3>3, FollowsTwice
    <3> QED BY <2>2, <3>1, <3>4 DEF x, y
  <2> QED BY <2>3, <2>4
<1> HIDE DEF T
<1> QED BY <1>4, <1>5, TargetsApply DEF T

LEMMA IgnoreApplies ==
  ASSUME FilesInv, TwoFiles, NEW cmd, Pointed(cmd), IgnoreClass(cmd)
  PROVE  Applies(cmd)
<1> DEFINE files == IF CommonParseCell(cmd.cell).file # AnyFile THEN {CommonParseCell(cmd.cell).file}
                    ELSE IF circuits # << >> THEN ToSet(circuits) ELSE {c[2] : c \in DOMAIN cells}
           name == (CHOOSE n \in Found(cmd) : TRUE)[1]
           Without(c, n) == IF cmd.what = "class" THEN ClassDelete(cells[c], n)
                            ELSE RemoveShorted(cells[c], n)
           Changed(c) == IF c[2] \in files /\ \E n \in Found(cmd) : <<n[1], c[2]>> \in DOMAIN cells
                         THEN Without(c, name) ELSE cells[c]
<1>1. cells' = [c \in DOMAIN cells |-> Changed(c)]
  BY DEF IgnoreClass
<1>2. \A d \in DOMAIN cells : cells'[d] = Changed(d)
  BY <1>1
<1>3. ASSUME NEW d \in DOMAIN cells
      PROVE  Untouched(cells'[d], cells[d])
  <2>1. Whole(cells[d])
    BY <1>3, AllWhole
  <2>2. Untouched(Without(d, name), cells[d])
    <3> HIDE DEF name
    <3> QED BY <2>1, InstancesUntouched
  <2>3. Untouched(cells[d], cells[d])
    BY DEF Untouched
  <2> HIDE DEF Without
  <2> QED BY <1>2, <2>2, <2>3
<1> HIDE DEF name
<1>4. ASSUME NEW d \in DOMAIN cells, d[2] \notin FilesMeant(cmd.cell)
      PROVE  cells'[d] = cells[d]
  <2>1. CASE Found(cmd) = {}
    BY <1>2, <2>1
  <2>2. ASSUME NEW c \in DOMAIN cells, FilesMeant(cmd.cell) = {c[2]},
               CommonParseCell(cmd.cell).file = c[2]
        PROVE  cells'[d] = cells[d]
    <3>1. c[2] \in {1, 2}
      <4> HIDE DEF files, Changed
      <4> QED BY <2>2, Tops
    <3>2. c[2] # AnyFile
      BY <3>1 DEF AnyFile
    <3>3. files = {c[2]}
      BY <2>2, <3>2
    <3> HIDE DEF files
    <3>4. d[2] \notin files
      BY <1>4, <2>2, <3>3
    <3> QED BY <1>2, <3>4
  <2>3. CASE FilesMeant(cmd.cell) = {1, 2}
    BY <1>4, <2>3, Tops
  <2> QED BY <2>1, <2>2, <2>3, TargetsAsNamed DEF Pointed
<1>5. ASSUME NEW n, SharedPins(n)
      PROVE  Follows(cells[<<n, 1>>], cells[<<n, 2>>], cells'[<<n, 1>>], cells'[<<n, 2>>])
  BY <1>3, <1>5, SharedWhole, UntouchedFollow
<1> QED BY <1>4, <1>5 DEF Applies

LEMMA DerivesApply ==
  ASSUME FilesInv, TwoFiles, NEW cmd, Pointed(cmd), PropertyDerives(cmd)
  PROVE  Applies(cmd)
<1> DEFINE Added(c) == IF c \in Targets(cmd) THEN PropertyAdd(cells[c], cmd.what, "double", "default")
                       ELSE cells[c]
           added == [c \in DOMAIN cells |-> Added(c)]
<1>1. ASSUME NEW c \in DOMAIN cells
      PROVE  Whole(added[c]) /\ added[c] = Added(c)
  <2>1. Whole(cells[c])
    BY <1>1, AllWhole
  <2>2. Whole(PropertyAdd(cells[c], cmd.what, "double", "default"))
    BY <2>1, DefinitionsSteady DEF Steady, Keeps, Whole
  <2> QED BY <2>1, <2>2
<1> HIDE DEF added
<1>2. CASE cells' = cells
  BY <1>2, SelfFollows DEF Applies
<1>3. ASSUME NEW tc \in Found(cmd), NEW reached,
             \A c \in reached : c[2] = tc[2],
             cells' = [c \in DOMAIN cells |->
               IF c \in reached
               THEN Derived(added[c], tc[1], added[tc].defs, cmd.what, cmd.width, cmd.length)
               ELSE added[c]]
      PROVE  Applies(cmd)
  <2> DEFINE Changed(c) == IF c \in reached
               THEN Derived(added[c], tc[1], added[tc].defs, cmd.what, cmd.width, cmd.length)
               ELSE added[c]
  <2>1. \A d \in DOMAIN cells : cells'[d] = Changed(d)
    BY <1>3
  <2>2. ASSUME NEW d \in DOMAIN cells
        PROVE  Untouched(cells'[d], added[d])
    <3>1. Whole(added[d])
      BY <1>1, <2>2
    <3>2. Untouched(added[d], added[d])
      BY DEF Untouched
    <3>3. Untouched(Changed(d), added[d])
      BY <3>1, <3>2, InstancesUntouched
    <3> QED BY <2>1, <3>3
  <2>3. \A d \in DOMAIN cells : d \notin reached => cells'[d] = added[d]
    BY <2>1
  <2> HIDE DEF Changed
  <2>4. ASSUME NEW d \in DOMAIN cells, d[2] \notin FilesMeant(cmd.cell)
        PROVE  cells'[d] = cells[d]
    <3>1. CASE FilesMeant(cmd.cell) = {1, 2}
      BY <2>4, <3>1, Tops
    <3>2. ASSUME NEW c \in DOMAIN cells, Found(cmd) = {c}, FilesMeant(cmd.cell) = {c[2]},
                 Targets(cmd) = {c}
          PROVE  cells'[d] = cells[d]
      <4>1. d # c /\ tc = c
        BY <1>3, <2>4, <3>2
      <4>2. d \notin reached
        BY <1>3, <2>4, <3>2, <4>1
      <4>3. added[d] = cells[d]
        BY <1>1, <3>2, <4>1
      <4> QED BY <2>3, <4>2, <4>3
    <3> QED BY <1>3, <3>1, <3>2, TargetsAsNamed DEF Pointed
  <2>5. ASSUME NEW n, SharedPins(n), FilesMeant(cmd.cell) = {1, 2}
        PROVE  Follows(cells[<<n, 1>>], cells[<<n, 2>>], cells'[<<n, 1>>], cells'[<<n, 2>>])
    <3> DEFINE x == cells[<<n, 1>>]
               y == cells[<<n, 2>>]
               x1 == added[<<n, 1>>]
               y1 == added[<<n, 2>>]
    <3>1. /\ <<n, 1>> \in DOMAIN cells /\ <<n, 2>> \in DOMAIN cells
          /\ Whole(x) /\ Whole(y) /\ PinNames(x) = PinNames(y)
      BY <2>5, SharedWhole
    <3>2. <<n, 1>> \in Targets(cmd) <=> <<n, 2>> \in Targets(cmd)
      <4>1. ASSUME NEW c \in DOMAIN cells, Targets(cmd) = {c}, FilesMeant(cmd.cell) = {c[2]}
            PROVE  FALSE
        BY <2>5, <4>1
      <4>2. ASSUME NEW c \in DOMAIN cells, Targets(cmd) = Both(c[1])
            PROVE  <<n, 1>> \in Targets(cmd) <=> <<n, 2>> \in Targets(cmd)
        BY <3>1, <4>2 DEF Both
      <4> QED BY <4>1, <4>2, TargetsAsNamed DEF Pointed
    <3>3. Follows(x, y, x1, y1)
      <4>1. x1 = Added(<<n, 1>>) /\ y1 = Added(<<n, 2>>)
        BY <1>1, <3>1
      <4> HIDE DEF x1, y1
      <4>2. CASE <<n, 1>> \in Targets(cmd)
        <5>1. /\ x1 = PropertyAdd(x, cmd.what, "double", "default")
              /\ y1 = PropertyAdd(y, cmd.what, "double", "default")
          BY <3>2, <4>1, <4>2
        <5> HIDE DEF x, y
        <5> QED BY <3>1, <5>1, DefinitionsFollow
      <4>3. CASE <<n, 1>> \notin Targets(cmd)
        <5>1. x1 = x /\ y1 = y
          BY <3>2, <4>1, <4>3
        <5> QED BY <5>1, SelfFollows
      <4> QED BY <4>2, <4>3
    <3>4. Untouched(cells'[<<n, 1>>], x1) /\ Untouched(cells'[<<n, 2>>], y1)
      BY <2>2, <3>1
    <3> HIDE DEF x, y, x1, y1
    <3>5. Follows(x1, y1, cells'[<<n, 1>>], cells'[<<n, 2>>])
      BY <3>4, UntouchedFollow
    <3>6. Follows(x, y, cells'[<<n, 1>>], cells'[<<n, 2>>])
      BY <3>3, <3>5, FollowsTwice
    <3> QED BY <3>6 DEF x, y
  <2> QED BY <2>4, <2>5 DEF Applies
<1>4. CASE cells' # cells
  <2>1. PICK tc \in Found(cmd), reached \in (SUBSET DOMAIN cells) \ {{}} :
          /\ \A c \in reached : c[2] = tc[2]
          /\ cells' = [c \in DOMAIN cells |->
               IF c \in reached
               THEN Derived(added[c], tc[1], added[tc].defs, cmd.what, cmd.width, cmd.length)
               ELSE added[c]]
    BY <1>4 DEF PropertyDerives, added
  <2> QED BY <1>3, <2>1
<1> QED BY <1>2, <1>4

\* Commands that are not for a cell have no argument for one; an argument is of
\* the form that CommonParseCell knows; and definitions are removed without a
\* key only from the cell of one file, for then the code changes one cell alone.
CommandsNamed ==
  \A cmd \in Commands :
    /\ "cell" \in DOMAIN cmd =>
         cmd.op \notin {"default", "parallel", "series", "topology", "permute_class"}
    /\ "cell" \in DOMAIN cmd /\ cmd.cell # << >> => Argument(cmd.cell)
    /\ cmd.op = "remove" /\ cmd.keys = {} => FilesMeant(cmd.cell) # {1, 2}

\* CommonParseCell: whatever the two files and the commands, a command with a
\* file, an option or a top cell changes cells of that file only, and one with
\* only a name does the same to the cells of that name in both files.
THEOREM CommandsApplyAsNamed ==
  ASSUME TwoFiles, ParallelNamesOne, CommandsNamed
  PROVE  Spec => AppliesAsNamed
<1>1. ASSUME FlagsInv, [Next]_vars
      PROVE  IsCommand /\ circuits # << >> /\ "cell" \in DOMAIN New /\ New.cell # << >> =>
               LET files == FilesMeant(New.cell)
               IN  /\ \A c \in DOMAIN cells : c[2] \notin files => cells'[c] = cells[c]
                   /\ files = {1, 2} => \A n \in {c[1] : c \in DOMAIN cells} : SharedPins(n) =>
                        /\ \A k \in DOMAIN cells[<<n, 1>>].defs \cup {"l"} :
                             SameDefs(cells, n, k) => SameDefs(cells', n, k)
                        /\ SamePins(cells, n) => SamePins(cells', n)
  <2> SUFFICES ASSUME IsCommand, circuits # << >>, "cell" \in DOMAIN New, New.cell # << >>
               PROVE  LET files == FilesMeant(New.cell)
                      IN  /\ \A c \in DOMAIN cells : c[2] \notin files => cells'[c] = cells[c]
                          /\ files = {1, 2} => \A n \in {c[1] : c \in DOMAIN cells} : SharedPins(n) =>
                               /\ \A k \in DOMAIN cells[<<n, 1>>].defs \cup {"l"} :
                                    SameDefs(cells, n, k) => SameDefs(cells', n, k)
                               /\ SamePins(cells, n) => SamePins(cells', n)
    OBVIOUS
  <2>1. FilesInv /\ history \in Seq(Events)
    BY <1>1 DEF FlagsInv, FilesInv
  <2>2. Next
    BY <1>1 DEF IsCommand, vars
  <2>3. ASSUME NEW e, history' = Append(history, e)
        PROVE  New = e
    <3>1. /\ Len(history) \in Nat /\ Len(Append(history, e)) = Len(history) + 1
          /\ Append(history, e)[Len(history) + 1] = e
      BY <2>1, Appended
    <3> QED BY <2>3, <3>1 DEF New, Last
  <2>4. ASSUME NEW cmd \in Commands, NEW op, Command(op, cmd)
        PROVE  New = cmd /\ cmd.op = op
    BY <2>3, <2>4 DEF Command, Done
  <2>5. ~(\E f \in DOMAIN Netlists : Read(f)) /\ ~Assign
    <3>1. ASSUME NEW f \in DOMAIN Netlists, Read(f)
          PROVE  FALSE
      <4>1. New = ReadOf(f)
        BY <2>3, <3>1 DEF Read, Done, ReadOf
      <4> QED BY <4>1 DEF IsCommand, ReadOf
    <3>2. ASSUME Assign
          PROVE  FALSE
      <4>1. New = [op |-> "assign"]
        BY <2>3, <3>2 DEF Assign, Done
      <4> QED BY <4>1 DEF IsCommand
    <3> QED BY <3>1, <3>2
  <2>6. PICK cmd \in Commands :
          \/ PropertyDefaults(cmd) \/ PropertyParallel(cmd) \/ PropertySeries(cmd)
          \/ PropertyTopology(cmd) \/ PropertyCombine(cmd) \/ PropertyMerges(cmd)
          \/ PropertyAdds(cmd) \/ PropertyRemoves(cmd) \/ PropertyAssociates(cmd)
          \/ PropertyTolerances(cmd) \/ PropertyDerives(cmd)
          \/ PermuteClasses(cmd) \/ PermutePins(cmd) \/ PermuteForgets(cmd)
          \/ IgnoreClass(cmd)
    BY <2>2, <2>5 DEF Next
  <2>7. New = cmd
    BY <2>4, <2>6 DEF PropertyDefaults, PropertyParallel, PropertySeries, PropertyTopology,
         PropertyCombine, PropertyMerges, PropertyAdds, PropertyRemoves, PropertyAssociates,
         PropertyTolerances, PropertyDerives, PermuteClasses, PermutePins, PermuteForgets, IgnoreClass
  <2>8. Argument(cmd.cell) /\ cmd.cell # << >>
        /\ cmd.op \notin {"default", "parallel", "series", "topology", "permute_class"}
    BY <2>7 DEF CommandsNamed
  <2>9. Pointed(cmd)
    BY <2>1, <2>8, ArgumentFinds DEF Pointed
  <2>10. ~(\/ PropertyDefaults(cmd) \/ PropertyParallel(cmd) \/ PropertySeries(cmd)
           \/ PropertyTopology(cmd) \/ PermuteClasses(cmd))
    BY <2>8 DEF PropertyDefaults, PropertyParallel, PropertySeries, PropertyTopology,
         PermuteClasses, Command
  <2>11. PropertyRemoves(cmd) => (cmd.keys = {} => FilesMeant(cmd.cell) # {1, 2})
    BY DEF CommandsNamed, PropertyRemoves, Command
  <2>12. Applies(cmd)
    BY <2>1, <2>6, <2>8, <2>9, <2>10, <2>11, OneApplies, RemovesApply, CombineApplies,
       IgnoreApplies, DerivesApply
  <2>13. \A n : SharedPins(n) /\ FilesMeant(cmd.cell) = {1, 2} =>
           /\ \A k : SameDefs(cells, n, k) => SameDefs(cells', n, k)
           /\ SamePins(cells, n) => SamePins(cells', n)
    BY <2>12, SameAtDefs DEF Applies, Follows, SameDefs, SamePins
  <2> QED BY <2>7, <2>12, <2>13 DEF Applies
<1> QED BY <1>1, FlagsInvariant, PTL DEF Spec, AppliesAsNamed
=============================================================================
