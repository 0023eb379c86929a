------------------------------- MODULE Circuits -------------------------------
(***************************************************************************)
(* What a cell of a netlist file stands for, whatever its hierarchy: the    *)
(* devices under it, and which of their pins are on one net.  This is the   *)
(* reference for all operations that edit the database; the program has no  *)
(* such function.                                                           *)
(*                                                                          *)
(* A net is a set of terminals: pins of devices, ports of the cell, and     *)
(* names of global nets.  A global net of a cell is the net that the cell   *)
(* around it has under that name as a port, else as a global net.  Within a *)
(* cell only the node number says what is one net.                          *)
(***************************************************************************)
EXTENDS NetDatabase

\* Unite the sets that overlap.
Components(sets) ==
  FoldSet(LAMBDA s, part : LET met == {t \in part : t \cap s # {}}
                           IN  (part \ met) \cup {s \cup UNION met},
          {}, sets)

\* The terminals that objects of a cell put on its nets.
OnNet(terminal, node) ==
  IF node < 0 THEN {terminal} ELSE {terminal, <<"net", node>>}

OwnNets(cs, c) ==
  {OnNet(<<"port", k>>, cs[c].ports[k][2]) : k \in DOMAIN cs[c].ports} \cup
  {OnNet(<<"global", g>>, cs[c].globals[g][2]) : g \in DOMAIN cs[c].globals} \cup
  UNION {{OnNet(<<"pin", x.name, k>>, x.pins[k]) : k \in DOMAIN x.pins} :
           x \in {y \in ToSet(cs[c].insts) : ~IsSubckt(cs, y.model)}}

Multiplicity(x) == FoldLeft(LAMBDA n, m : n + Max({m, 1}),
                            IF x.props = << >> THEN 1 ELSE 0, x.props)

\* The net that a cell has under the name of a global.
GlobalNet(cell, g) ==
  LET nodes == FirstConnected(NamedNodes(cell.ports \o cell.globals, g))
  IN  IF nodes = << >> THEN <<"name", g>> ELSE <<"net", nodes[1]>>

\* A terminal of a part, as seen from the cell that copy i of x is in.
Lifted(cs, cell, x, i, t) ==
  CASE t[1] = "pin" -> {<<"pin", Path(x.name, i) \o t[2], t[3]>>}
    [] t[1] = "port" -> IF x.pins[t[2]] < 0 THEN {} ELSE {<<"net", x.pins[t[2]]>>}
    [] t[1] = "global" -> {GlobalNet(cell, cs[x.model].globals[t[2]][1])}
    [] t[1] = "name" -> {GlobalNet(cell, t[2])}

\* The nets of every cell of the database.
NetsOf(cs) ==
  LET nets[c \in DOMAIN cs] ==
        LET parts == {x \in ToSet(cs[c].insts) : IsSubckt(cs, x.model)}
            lifted(x, i) == {UNION {Lifted(cs, cs[c], x, i, t) : t \in s} :
                               s \in nets[x.model]}
            all == OwnNets(cs, c) \cup
                   UNION {UNION {lifted(x, i) : i \in 1..Multiplicity(x)} : x \in parts}
        IN  {{t \in s : t[1] # "net"} : s \in Components(all)} \ {{}}
  IN  nets

\* The devices under every cell, with their model and properties.
DevicesOf(cs) ==
  LET devices[c \in DOMAIN cs] ==
        UNION {IF IsSubckt(cs, x.model)
               THEN {[d EXCEPT !.name = Path(x.name, i) \o @] :
                       d \in devices[x.model], i \in 1..Multiplicity(x)}
               ELSE {[name |-> x.name, model |-> x.model, props |-> x.props]} :
               x \in ToSet(cs[c].insts)}
  IN  devices

\* Ports and globals go by their names; a net without a device does not matter.
Named(cell, t) ==
  CASE t[1] = "port" -> <<"name", cell.ports[t[2]][1]>>
    [] t[1] = "global" -> <<"name", cell.globals[t[2]][1]>>
    [] OTHER -> t

Circuits(cs) ==
  LET nets == NetsOf(cs)
      devices == DevicesOf(cs)
  IN  [c \in DOMAIN cs |->
         [devices |-> devices[c],
          nets |-> {{Named(cs[c], t) : t \in s} :
                      s \in {n \in nets[c] : \E t \in n : t[1] = "pin"}}]]

\* The same with all devices of value zero left out: of the models in shorts
\* their two pins are on one net, of the models in opens they are not.
WithoutZeros(circuit, shorts, opens) ==
  LET zeros(models) == {d.name : d \in {e \in circuit.devices :
                                          e.model \in models /\ 0 \in ToSet(e.props)}}
      gone == zeros(shorts) \cup zeros(opens)
      joined == FoldSet(LAMBDA x, nets :
                          LET ends == {n \in nets : \E k \in {1, 2} : <<"pin", x, k>> \in n}
                          IN  (nets \ ends) \cup {UNION ends},
                        circuit.nets, zeros(shorts))
      isKept(t) == t[1] # "pin" \/ t[2] \notin gone
      rest == {{t \in s : isKept(t)} : s \in joined}
  IN  [devices |-> {d \in circuit.devices : d.name \notin gone},
       nets |-> {s \in rest : \E t \in s : t[1] = "pin"}]
=============================================================================
