-------------------------------- MODULE MCLvs --------------------------------
(***************************************************************************)
(* Small designs for Lvs, and the properties of the procedure.              *)
(***************************************************************************)
EXTENDS Lvs

Files(one, two) ==
  [contents |-> <<one, two>>, modules |-> {}, top |-> <<"T", "T">>,
   noflat |-> {}, equated |-> {}, agree |-> FALSE, calls |-> 1]

Pairs ==
  [ same |->      \* two levels, the same in both files
      Files([T |-> <<"A", "A", "n">>, A |-> <<"n", "p">>],
            [T |-> <<"n", "A", "A">>, A |-> <<"p", "n">>]),
    regrouped |-> \* an extra level in one file, found at different depths
      Files([T |-> <<"A", "B">>, A |-> <<"B", "n">>, B |-> <<"p", "p">>],
            [T |-> <<"A", "p", "p">>, A |-> <<"n", "p", "p">>]),
    uneven |->    \* one of two instances is flattened in the other file
      Files([T |-> <<"A", "A">>, A |-> <<"n", "p">>],
            [T |-> <<"A", "n", "p">>, A |-> <<"n", "p">>]),
    moved |->     \* a device moved across a cell boundary
      Files([T |-> <<"A", "p">>, A |-> <<"n">>],
            [T |-> <<"A", "n">>, A |-> <<"p">>]),
    renamed |->   \* the same cell under two names
      Files([T |-> <<"X", "B">>, X |-> <<"n", "p">>, B |-> <<"p">>],
            [T |-> <<"Y", "B">>, Y |-> <<"p", "n">>, B |-> <<"p">>]),
    equated |->   \* ... which the setup equates, and which clash with others
      [Files([T |-> <<"X", "Y">>, X |-> <<"n", "p">>, Y |-> <<"p">>],
             [T |-> <<"Y", "X">>, Y |-> <<"p", "n">>, X |-> <<"p">>])
         EXCEPT !.equated = {<<"X", "Y">>}],
    nested |->    \* each file has one cell, and it holds the other's
      Files([T |-> <<"A">>, A |-> <<"B", "B">>, B |-> <<"n">>],
            [T |-> <<"B", "B">>, A |-> <<"B", "B">>, B |-> <<"n">>]),
    swapped |->   \* cells of two levels, of which the counts disagree
      Files([T |-> <<"A", "B", "B">>, A |-> <<"B">>, B |-> <<"C", "p">>, C |-> <<"n">>],
            [T |-> <<"A", "A", "C", "p">>, A |-> <<"B">>, B |-> <<"C", "p">>, C |-> <<"n">>]),
    different |-> \* one device more
      Files([T |-> <<"A", "A">>, A |-> <<"n", "p">>],
            [T |-> <<"A", "A", "p">>, A |-> <<"n", "p">>]),
    deepdiff |->  \* one device less, two levels down
      Files([T |-> <<"A", "n">>, A |-> <<"B", "B">>, B |-> <<"n", "p">>],
            [T |-> <<"A", "n">>, A |-> <<"B", "B">>, B |-> <<"p">>]),
    noflat |->    \* a mismatch in a cell that must not be flattened
      [Files([T |-> <<"A", "B">>, A |-> <<"n", "p">>, B |-> <<"A">>],
             [T |-> <<"A", "B">>, A |-> <<"p">>, B |-> <<"A">>])
         EXCEPT !.noflat = {"A"}],
    kept |->      \* counts that only flattening such a cell would even out
      [Files([T |-> <<"A", "A">>, A |-> <<"n", "p">>],
             [T |-> <<"A", "n", "p">>, A |-> <<"n", "p">>])
         EXCEPT !.noflat = {"A"}],
    boxes |->     \* black boxes, one of them in both files
      [Files([T |-> <<"M", "A", "n">>, A |-> <<"M", "p">>],
             [T |-> <<"M", "M", "p", "n">>])
         EXCEPT !.modules = {"M"}],
    halfbox |->   \* a cell of one file that is a black box in the other
      [Files([T |-> <<"A", "n", "B">>, B |-> <<"A", "A", "p">>, A |-> <<"p">>],
             [T |-> <<"p", "n", "B">>, B |-> <<"A", "p", "p">>])
         EXCEPT !.modules = {"A"}],
    halfbad |->   \* ... and that has one more instance there
      [Files([T |-> <<"A", "A", "n">>, A |-> <<"p">>],
             [T |-> <<"A", "n", "n">>])
         EXCEPT !.modules = {"A"}],
    empty |->     \* a cell that is empty in one file
      Files([T |-> <<"A", "n">>, A |-> <<"p">>],
            [T |-> <<"A", "n">>, A |-> << >>]) ]

\* Every pair with any nets, and, called twice unless a cell is not to be
\* flattened, with nets that agree.
MCDesigns ==
  [d \in (DOMAIN Pairs) \X {"any", "agree"} |->
     IF d[2] = "any" THEN Pairs[d[1]]
     ELSE [Pairs[d[1]] EXCEPT !.agree = TRUE,
                                !.calls = IF Pairs[d[1]].noflat = {} THEN 2 ELSE 1]]

(***************************************************************************)
(* Class hashes tell the cells of a file apart, devices from what is looked *)
(* into, devices by their names, and the cells to compare from others.  It  *)
(* is not so when a name is a device in one file and a subcircuit in the    *)
(* other, or when equated names clash with others.                          *)
(***************************************************************************)
ClassesApart(d) ==
  LET device(c) == KindIn(d, c) = "device"
      tops == {<<d.top[f], f>> : f \in File}
  IN  \A c, e \in Cells(d) : InitialHash(d)[c] = InitialHash(d)[e] =>
        /\ c[2] = e[2] => c = e
        /\ device(c) <=> device(e)
        /\ device(c) => c[1] = e[1]
        /\ c \in tops => e \in tops

ASSUME PairsApart == \A n \in DOMAIN Pairs \ {"equated"} : ClassesApart(Pairs[n])

SomePinResults == {1, 0, -1, -2}

\* Cells without contents in one file, which have contents in the other.
BlackBoxes(d) ==
  \E c \in Cells(d) :
    /\ Instances(AsRead(d), c) = << >> /\ KindIn(d, c) # "device"
    /\ <<c[1], Other(c[2])>> \in DOMAIN AsRead(d)

SameDevices(d) ==
  Primitives(AsRead(d), <<d.top[1], 1>>) = Primitives(AsRead(d), <<d.top[2], 2>>)

(***************************************************************************)
(* Flattening, whoever asks for it and however often, changes no circuit:   *)
(* every cell always comes down to the devices it had when it was read      *)
(* (flattenInstancesOf, FlattenUnmatched, PrematchLists).                   *)
(***************************************************************************)
PrimitivesKept ==
  \A c \in DOMAIN contents : Primitives(contents, c) = Primitives(AsRead(D), c)

(***************************************************************************)
(* No false match, at any level: whenever two cells are found to match, by  *)
(* instances of classes that were found to match before them, flattened     *)
(* into them or renamed to be alike, they come down to the same devices;    *)
(* unless black boxes were declared on the way.                             *)
(***************************************************************************)
MatchIsSame ==
  /\ pc = "decide" /\ verdict \notin {"mismatch", "blackbox"}
  /\ forced = {} /\ ~BlackBoxes(D)
  => Primitives(contents, pair[1]) = Primitives(contents, pair[2])

(***************************************************************************)
(* A cell that must not be flattened stays where it is: whichever command   *)
(* flattens, no instance of it disappears.                                  *)
(***************************************************************************)
NumInstances(ct, p, c) == Cardinality({i \in DOMAIN ct[p] : ct[p][i] = c})

BoxesStay ==
  [][\A c \in placeholder, p \in DOMAIN contents :
       NumInstances(contents', p, c) >= NumInstances(contents, p, c)]_vars

(***************************************************************************)
(* No pair of cells is compared twice: descending the two hierarchies finds *)
(* every pair from both sides, and at several levels (DescendCompareQueue). *)
(***************************************************************************)
EachPairOnce == \A i, j \in DOMAIN queue : queue[i] = queue[j] => i = j

(***************************************************************************)
(* Bottom up: when two cells are taken from the queue, no pair that is      *)
(* still queued is a part of both of them, as the comment at                *)
(* CreateCompareQueue has it.                                               *)
(***************************************************************************)
QueueSound ==
  [][/\ EachPairOnce'
     /\ \A p \in ToSet(queue') :
          pair' # pair =>
            ~(/\ p[1] \in ToSet(Instances(contents, pair'[1]))
              /\ p[2] \in ToSet(Instances(contents, pair'[2])))]_vars

(***************************************************************************)
(* The promise.                                                             *)
(***************************************************************************)
SameDesigns ==
  {d \in DOMAIN Designs : SameDevices(Designs[d]) \/ BlackBoxes(Designs[d])}

Promise == INSTANCE LvsPromise WITH Same <- SameDesigns, Design <- DOMAIN Designs

KeepsPromise == Promise!Spec

(***************************************************************************)
(* Flattening what does not match never makes a mismatch: circuits that     *)
(* come down to the same devices match, when their nets and pins do         *)
(* ("in the worst case ... a comparison on two completely flattened         *)
(* netlists", CreateCompareQueue).                                          *)
(***************************************************************************)
FlatMatchFound ==
  pc = "done" /\ answer = "fail" /\ D.agree /\ D.noflat = {} => ~SameDevices(D)

=============================================================================
