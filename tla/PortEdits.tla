------------------------------ MODULE PortEdits ------------------------------
(***************************************************************************)
(* The operations that change the ports of a cell, and with them the pins   *)
(* of all its instances (base/flatten.c): ConvertGlobals makes a port of    *)
(* each global net, UniquePins removes duplicate ports, and CleanupPins     *)
(* removes the ports that pin matching has marked.                          *)
(***************************************************************************)
EXTENDS NetDatabase

Without(s, gone) ==
  LET kept == SelectSeq([k \in DOMAIN s |-> k], LAMBDA k : k \notin gone)
  IN  [k \in DOMAIN kept |-> s[kept[k]]]

\* The node of the first object named g that is connected at all.
NodeNamed(cell, g) == NamedNodes(cell.ports \o cell.globals, g)

(***************************************************************************)
(* ConvertGlobals                                                           *)
(***************************************************************************)
\* One more pin for instance i, joined to the net named g.
NewPin(cell, i, g) ==
  LET node == NodeNamed(cell, g)
      maxnode == FreeNode(cell)
      pinned(c, n) == [c EXCEPT !.insts[i].pins = Append(@, n)]
      revived(objects) ==
        LET k == Min({j \in DOMAIN objects : objects[j][1] = g})
        IN  [objects EXCEPT ![k] = <<g, maxnode>>]
  IN  IF node = << >>
      THEN pinned([cell EXCEPT !.globals = <<<<g, maxnode>>>> \o @], maxnode)
      ELSE IF node[1] # None THEN pinned(cell, node[1])
      ELSE IF \E k \in DOMAIN cell.ports : cell.ports[k][1] = g
      THEN pinned([cell EXCEPT !.ports = revived(@)], maxnode)
      ELSE pinned([cell EXCEPT !.globals = revived(@)], maxnode)

\* Called for each cell that instantiates the model that g was a global of.
convertGlobalsOf(cell, model, g) ==
  FoldLeft(LAMBDA c, i : IF c.insts[i].model = model THEN NewPin(c, i, g) ELSE c,
           cell, [i \in DOMAIN cell.insts |-> i])

\* Make the global <<g, node>> of a cell a port, unless a port has its node.
ConvertGlobal(cs, c, global) ==
  IF global[2] \in NodesOf(cs[c].ports) THEN cs
  ELSE [p \in DOMAIN cs |->
          IF p = c THEN [cs[p] EXCEPT !.ports = Append(@, global)]
          ELSE convertGlobalsOf(cs[p], c, global[1])]

\* A cell that does not start with a port is a top-level cell.
ConvertGlobals(c) ==
  /\ cells[c].ports # << >>
  /\ cells' = [FoldLeft(LAMBDA cs, global : ConvertGlobal(cs, c, global),
                        cells, cells[c].globals) EXCEPT ![c].globals = << >>]
  /\ UNCHANGED design

(***************************************************************************)
(* UniquePins                                                               *)
(***************************************************************************)
\* Find the ports to remove: those on the net of an earlier port.  Ports of
\* different names on one net are shorted, not duplicate; they are kept, and
\* do not count for the number that is remembered for the ports after them.
DuplicateScan(ports) ==
  FoldLeft(LAMBDA r, k :
    LET n == ports[k][2]
        count == r.count[n] + 1
        shorted == count = 2 /\ ports[r.first[n]][1] # ports[k][1]
    IN  IF n <= 0 THEN [r EXCEPT !.portcount = @ + 1]
        ELSE IF shorted THEN r
        ELSE IF count > 1
        THEN [r EXCEPT !.count[n] = count, !.portcount = @ + 1,
                       !.duplicate = @ \cup {k}]
        ELSE [r EXCEPT !.count[n] = count, !.portcount = @ + 1,
                       !.first[n] = k, !.firstpin[n] = r.portcount],
    [count |-> [n \in NodesOf(ports) |-> 0], first |-> [n \in NodesOf(ports) |-> 0],
     firstpin |-> [n \in NodesOf(ports) |-> 0], portcount |-> 1, duplicate |-> {}],
    [k \in DOMAIN ports |-> k])

\* Merge the net of pin k of instance i with that of the pin that is kept.
\* The loop over the list compares with the node of the pin itself, which
\* is one of the objects it changes: the objects after it keep their node.
MergeNets(cell, i, k, ref) ==
  LET old == cell.insts[i].pins[k]
      new == cell.insts[i].pins[ref]
      earlier == [cell EXCEPT !.insts = SubSeq(@, 1, i)]
      renamed == UpdateNodeNumbers(earlier, old, new)
      own == [p \in DOMAIN cell.insts[i].pins |->
                IF p <= k THEN renamed.insts[i].pins[p] ELSE cell.insts[i].pins[p]]
  IN  IF old = new THEN cell
      ELSE IF new = None THEN [cell EXCEPT !.insts[i].pins[ref] = old]
      ELSE IF old = None THEN cell
      ELSE [ports |-> renamed.ports, globals |-> renamed.globals,
            insts |-> [renamed.insts EXCEPT ![i].pins = own]
                        \o SubSeq(cell.insts, i + 1, Len(cell.insts))]

\* Resolve node numbers in the pin list, then remove the pins.
uniquepins(cell, model, ports, scan) ==
  LET marked == SelectSeq([k \in DOMAIN ports |-> k],
                          LAMBDA k : k \in scan.duplicate)
      mergeAt(c, i) == FoldLeft(LAMBDA d, k :
                                  MergeNets(d, i, k, scan.firstpin[ports[k][2]]),
                                c, marked)
      removed(c, i) == [c EXCEPT !.insts[i].pins = Without(@, scan.duplicate)]
  IN  FoldLeft(LAMBDA c, i : IF c.insts[i].model = model
                             THEN removed(mergeAt(c, i), i) ELSE c,
               cell, [i \in DOMAIN cell.insts |-> i])

UniquePorts(cs, c) ==
  LET ports == cs[c].ports
      scan == DuplicateScan(ports)
  IN  IF scan.duplicate = {} THEN cs
      ELSE [p \in DOMAIN cs |->
              IF p = c THEN [cs[p] EXCEPT !.ports = Without(@, scan.duplicate)]
              ELSE uniquepins(cs[p], c, ports, scan)]

UniquePins(c) ==
  /\ DuplicateScan(cells[c].ports).duplicate # {}
  /\ cells' = UniquePorts(cells, c)
  /\ UNCHANGED design

(***************************************************************************)
(* CleanupPins                                                              *)
(***************************************************************************)
\* The pins of all instances go; a port whose node nothing else has is then
\* disconnected.
cleanuppins(cell, model, gone) ==
  LET removedNodes ==
        UNION {{x.pins[k] : k \in gone \cap DOMAIN x.pins} :
                 x \in {y \in ToSet(cell.insts) : y.model = model}}
      insts == [i \in DOMAIN cell.insts |->
                  IF cell.insts[i].model = model
                  THEN [cell.insts[i] EXCEPT !.pins = Without(@, gone)]
                  ELSE cell.insts[i]]
      rest == PinNodes(insts) \cup NodesOf(cell.globals)
      only(k) == \A j \in DOMAIN cell.ports \ {k} :
                   cell.ports[j][2] # cell.ports[k][2]
      ports == [k \in DOMAIN cell.ports |->
                  IF cell.ports[k][2] \in removedNodes \ rest /\ only(k)
                  THEN <<cell.ports[k][1], None>> ELSE cell.ports[k]]
  IN  [cell EXCEPT !.insts = insts, !.ports = ports]

OrphanPorts(cell) == {k \in DOMAIN cell.ports : cell.ports[k][2] = Orphaned}

\* A proxy that pin matching has made, and that instances do not have yet, is
\* no port.
RealPort(o) == Len(o) = 2 \/ o[4] = "PORT"

\* The search for such a port stops at the first object that is none; and a
\* port that no other follows is left.
NotCleaned(ports) ==
  ~RealPort(ports[1]) \/ (ports[1][2] = Orphaned /\ (Len(ports) = 1 \/ ~RealPort(ports[2])))

\* Remove the ports that pin matching has marked.
CleanedUp(cs, c) ==
  LET gone == OrphanPorts(cs[c])
  IN  IF gone = {} \/ NotCleaned(cs[c].ports) THEN cs
      ELSE [p \in DOMAIN cs |->
              IF p = c THEN [cs[p] EXCEPT !.ports = Without(@, gone)]
              ELSE cleanuppins(cs[p], c, gone)]
=============================================================================
