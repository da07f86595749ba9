------------------------------ MODULE ProcVeg -------------------------------
(***************************************************************************)
(* GenerateProcVeg: where the engine will let procedural vegetation grow,  *)
(* node by node of its terrain.  The engine draws positions, sizes and     *)
(* angles of all groups of a node from one sequence of random numbers; the *)
(* generator draws the same sequence and keeps the instances of the groups *)
(* that are baked, leaving out work as soon as none of them can follow.    *)
(* What the engine generates is external: it is every group of every node. *)
(* Names differ from MapPicture's, so that a module may extend both.       *)
(* Src: src/Core/Bakers/Vegetation/ProcVegGenerator.cpp.                   *)
(***************************************************************************)
EXTENDS Integers, Sequences, FiniteSets, SequencesExt

CONSTANTS
  Terrains,    (* the nodes of a terrain, in the order they are visited     *)
  Generators,  (* the random number generators tried                        *)
  LayersOf,    (* what idxToLayer may be, by the layers that are on         *)
  Jitter,      (* values of a random number                                 *)
  Fine,        (* fine steps of a terrain unit                              *)
  Units,       (* units of a side of the terrain                            *)
  MaxObjects,  (* nMaxObjectsPerSector                                      *)
  MaxLevels,   (* nProcVegMaxCacheLevels                                    *)
  Draw(_, _),  (* CMTRand_int32: the nth number of a seeded generator       *)
  Types(_, _), (* the surface type of the terrain at a unit's corner        *)
  Creates(_, _), (* TryCreate: a group grows in nodes of a level            *)
  Rows(_),     (* how many rows of cells a group has in a node              *)
  Suits(_, _, _) (* elevation, slope and size suit a group's instance       *)

VARIABLES
  terrain, generator, noRandomSeed, layerOf, sse2, (* what is given         *)
  phase, nNode, (* the loop over the nodes                                  *)
  nPos,     (* a group of a surface, over all surfaces of the node          *)
  nCell,    (* of the group                                                 *)
  nDrawn,   (* numbers drawn since the node's generator was seeded          *)
  counter,  (* nInstancesCounter                                            *)
  result

given       == <<terrain, generator, noRandomSeed, layerOf, sse2>>
procVegVars == <<given, phase, nNode, nPos, nCell, nDrawn, counter, result>>

-----------------------------------------------------------------------------
(* A node has a level, an origin and a side in units, and the surfaces on   *)
(* it; a surface its type and the groups that grow on it, or is unknown.    *)
Surfaces == [known : BOOLEAN, type : Int, groups : Seq(Int)]
Nodes == [there : BOOLEAN, level : Nat, x : Nat, y : Nat, side : Nat, surfaces : Seq(Surfaces)]

RndGen(node) == <<generator, IF noRandomSeed THEN 0 ELSE node.x + node.y>>

(* The groups of a node with their surfaces, as nPos counts them.           *)
Places(node) ==
  FlattenSeq([s \in DOMAIN node.surfaces |->
    IF ~node.surfaces[s].known THEN <<>>
    ELSE [g \in DOMAIN node.surfaces[s].groups |->
            [surface |-> node.surfaces[s].type, group |-> node.surfaces[s].groups[g]]]])

(* Groups have as many rows of cells as columns.                            *)
CellCount(spot) == Rows(spot.group) * Rows(spot.group)

TerrainsAreMade ==
  /\ Terrains \subseteq Seq(Nodes)
  /\ \A t \in Terrains : \A i \in DOMAIN t : \A p \in DOMAIN Places(t[i]) :
       Rows(Places(t[i])[p].group) \in Nat

SizesArePositive == {Jitter, Fine, Units, MaxObjects, MaxLevels} \subseteq Nat \ {0}

ASSUME ProcVegAssumption == TerrainsAreMade /\ SizesArePositive

IsBakedGroup(g, idxToLayer) == g \in DOMAIN idxToLayer /\ idxToLayer[g] # "Unknown"

LastBakedPos(node, idxToLayer) ==
  LET baked == {p \in DOMAIN Places(node) : IsBakedGroup(Places(node)[p].group, idxToLayer)}
  IN  IF baked = {} THEN 0 ELSE CHOOSE p \in baked : \A q \in baked : q <= p

(* A cell's corner, moved by the two numbers drawn for it.  The first one   *)
(* drawn moves it along y (kJitterYDrawnBeforeX).                           *)
Position(node, g, c, first, second) ==
  LET row == node.side * Fine
      at(i, d) == (i * row * Jitter + d * row) \div (Rows(g) * Jitter)
  IN  [x |-> node.x * Fine + at((c - 1) \div Rows(g), second),
       y |-> node.y * Fine + at((c - 1) % Rows(g), first)]

(* GetSurfaceTypeAmountScalar and ...SSE2, in parts of Q * Q: how much of   *)
(* the corners around a position has a type.                                *)
Weight(type, x, y) == IF Types(x, y) = type THEN 1 ELSE 0

Scalar(type, x, y, dx, dy) ==
  LET s0 == Weight(type, x, y) * (Fine - dy) + Weight(type, x, y + 1) * dy
      s1 == Weight(type, x + 1, y) * (Fine - dy) + Weight(type, x + 1, y + 1) * dy
  IN  s0 * (Fine - dx) + s1 * dx

(* Four lanes, shuffled so that one multiplication serves both columns.     *)
Lanes(type, x, y) ==
  LET v == <<Weight(type, x, y), Weight(type, x, y + 1),
             Weight(type, x + 1, y), Weight(type, x + 1, y + 1)>>
  IN  [near |-> <<v[1], v[3]>>, far |-> <<v[2], v[4]>>]

Vector(type, x, y, dx, dy) ==
  LET lanes == Lanes(type, x, y)
      s == [i \in 1..2 |-> lanes.near[i] * (Fine - dy) + lanes.far[i] * dy]
  IN  s[1] * (Fine - dx) + s[2] * dx

(* More than half of the surface, and inside the terrain.                   *)
OnSurface(type, p, vector) ==
  /\ p.x < Units * Fine /\ p.y < Units * Fine
  /\ LET amount ==
           IF vector THEN Vector(type, p.x \div Fine, p.y \div Fine, p.x % Fine, p.y % Fine)
           ELSE Scalar(type, p.x \div Fine, p.y \div Fine, p.x % Fine, p.y % Fine)
     IN  2 * amount > Fine * Fine

Instance(g, p, size, angle) == [group |-> g, at |-> p, size |-> size, angle |-> angle]

-----------------------------------------------------------------------------
(* What the engine generates.                                               *)

(* One cell: two numbers for the position, one for the size if the surface  *)
(* is right, one for the angle if all suits.                                *)
EngineCell(node, rndGen, spot, c, state) ==
  IF state.full THEN state
  ELSE LET d(i) == Draw(rndGen, state.drawn + i)
           p    == Position(node, spot.group, c, d(1), d(2))
           born == Suits(spot.group, p, d(3))
       IN  IF ~OnSurface(spot.surface, p, FALSE) THEN [state EXCEPT !.drawn = @ + 2]
           ELSE IF ~born THEN [state EXCEPT !.drawn = @ + 3]
           ELSE [drawn |-> state.drawn + 4,
                 out   |-> Append(state.out, Instance(spot.group, p, d(3), d(4))),
                 full  |-> Len(state.out) + 1 >= MaxObjects]

(* What there is after some of a group's cells.                             *)
AfterCells(node, rndGen, spot, state) ==
  LET after[c \in 0..CellCount(spot)] ==
        IF c = 0 THEN state ELSE EngineCell(node, rndGen, spot, c, after[c - 1])
  IN  after

MayGrow(node, spot) == spot.group >= 0 /\ Creates(spot.group, node.level)

EngineGroup(node, rndGen, spot, state) ==
  IF MayGrow(node, spot) THEN AfterCells(node, rndGen, spot, state)[CellCount(spot)] ELSE state

(* What there is after some of a node's groups.                             *)
AfterPlaces(node, rndGen) ==
  LET after[p \in 0..Len(Places(node))] ==
        IF p = 0 THEN [drawn |-> 0, out |-> <<>>, full |-> FALSE]
        ELSE EngineGroup(node, rndGen, Places(node)[p], after[p - 1])
  IN  after

IsVisited(node) == node.level < MaxLevels /\ node.there

EngineNode(node, rndGen) ==
  IF IsVisited(node) THEN AfterPlaces(node, rndGen)[Len(Places(node))].out ELSE <<>>

EngineVegetation ==
  FlattenSeq([i \in DOMAIN terrain |-> EngineNode(terrain[i], RndGen(terrain[i]))])

-----------------------------------------------------------------------------
Node == terrain[nNode]
Spot == Places(Node)[nPos]
Number(i) == Draw(RndGen(Node), nDrawn + i)

ProcVegInit ==
  /\ terrain \in Terrains /\ generator \in Generators /\ noRandomSeed \in BOOLEAN
  /\ layerOf \in LayersOf /\ sse2 \in BOOLEAN
  /\ phase = "nodes" /\ nNode = 1 /\ nPos = 1 /\ nCell = 1
  /\ nDrawn = 0 /\ counter = 0 /\ result = <<>>

(* GenerateProcVeg: nodes of the levels that are processed, if they exist;  *)
(* ProcessTerrainNode returns at once where nothing is baked.               *)
EnterNode ==
  /\ phase = "nodes" /\ nNode <= Len(terrain)
  /\ IF IsVisited(Node) /\ LastBakedPos(Node, layerOf) > 0
     THEN phase' = "groups" /\ nPos' = 1 /\ nDrawn' = 0 /\ counter' = 0 /\ UNCHANGED nNode
     ELSE nNode' = nNode + 1 /\ UNCHANGED <<phase, nPos, nDrawn, counter>>
  /\ UNCHANGED <<given, nCell, result>>

LeaveNode == phase' = "nodes" /\ nNode' = nNode + 1

(* ProcessTerrainNode's loop over the groups.                               *)
EnterGroup ==
  /\ phase = "groups"
  /\ IF nPos > LastBakedPos(Node, layerOf) THEN LeaveNode /\ UNCHANGED <<nPos, nCell>>
     ELSE IF ~MayGrow(Node, Spot)
     THEN nPos' = nPos + 1 /\ UNCHANGED <<phase, nNode, nCell>>
     ELSE phase' = "cells" /\ nCell' = 1 /\ UNCHANGED <<nNode, nPos>>
  /\ UNCHANGED <<given, nDrawn, counter, result>>

LeaveGroup ==
  /\ phase = "cells" /\ nCell > CellCount(Spot)
  /\ phase' = "groups" /\ nPos' = nPos + 1
  /\ UNCHANGED <<given, nNode, nCell, nDrawn, counter, result>>

MutantCounted(emit) == IF emit THEN 1 ELSE 0  (* counts what it keeps *)

(* Instances of other groups count for the limit of the sector, too.        *)
Counted(emit) == 1

(* GenerateGroupInstances: one cell.                                        *)
GrowCell ==
  /\ phase = "cells" /\ nCell <= CellCount(Spot)
  /\ LET p    == Position(Node, Spot.group, nCell, Number(1), Number(2))
         on   == OnSurface(Spot.surface, p, sse2)
         born == on /\ Suits(Spot.group, p, Number(3))
         emit == born /\ IsBakedGroup(Spot.group, layerOf)
     IN  /\ nDrawn' = nDrawn + (IF ~on THEN 2 ELSE IF ~born THEN 3 ELSE 4)
         /\ result' = IF emit THEN Append(result, Instance(Spot.group, p, Number(3), Number(4)))
                      ELSE result
         /\ counter' = IF born THEN counter + Counted(emit) ELSE counter
         /\ IF born /\ counter' >= MaxObjects
            THEN LeaveNode /\ UNCHANGED nCell
            ELSE nCell' = nCell + 1 /\ UNCHANGED <<phase, nNode>>
  /\ UNCHANGED <<given, nPos>>

(* The mocked structures do not fit the engine's: reading a node faults,    *)
(* and what was found so far is kept.                                       *)
AccessViolation ==
  /\ phase \in {"groups", "cells"}
  /\ phase' = "faulted"
  /\ UNCHANGED <<given, nNode, nPos, nCell, nDrawn, counter, result>>

Finish ==
  /\ phase = "nodes" /\ nNode > Len(terrain)
  /\ phase' = "done"
  /\ UNCHANGED <<given, nNode, nPos, nCell, nDrawn, counter, result>>

ProcVegNext ==
  \/ EnterNode \/ EnterGroup \/ LeaveGroup \/ GrowCell \/ AccessViolation \/ Finish

ProcVegSpec == ProcVegInit /\ [][ProcVegNext]_procVegVars

-----------------------------------------------------------------------------
(* The instances of the baked groups, in their order.                       *)
BakedOf(instances, idxToLayer) ==
  FlattenSeq([i \in DOMAIN instances |->
    IF IsBakedGroup(instances[i].group, idxToLayer) THEN <<instances[i]>> ELSE <<>>])

(* The instances kept are those the engine will generate for the baked      *)
(* groups, at the same places, sizes and angles and in the same order,      *)
(* whatever groups are baked and whatever is skipped because of it, on      *)
(* either processor; a fault only cuts them short (ProcVegGenerator.cpp:478 *)
(* "Keep the RNG sequence in sync with the original engine                  *)
(* implementation").                                                        *)
InSyncWithEngine ==
  LET baked == BakedOf(EngineVegetation, layerOf)
  IN  IF phase = "done" THEN result = baked ELSE IsPrefix(result, baked)
=============================================================================
