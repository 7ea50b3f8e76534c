----------------------------- MODULE DisplayList -----------------------------
(***************************************************************************)
(* The femtovg guest's scene: load_scene walks the tree usvg parsed and    *)
(* flattens it into a list of draws, clips and restores, a node per step   *)
(* (femtovg-guest/src/lib.rs). A tree is the sequence of its nodes in      *)
(* document order, the root first; a group has its children up to `last`.  *)
(* A path is a name, its geometry and its transform; an opacity is the     *)
(* sequence of the factors multiplied into it, outermost first.            *)
(*                                                                         *)
(* A definition Name_Fault is Name with one plausible mistake in it; no    *)
(* behaviour of the model uses it.                                         *)
(***************************************************************************)
EXTENDS Lists, FiniteSets

CONSTANTS
    SCENES,  \* the parsed trees
    None

\* The nodes usvg gives: groups, paths, and texts and images, which are skipped.
\* paint is "color", "gradient" or "pattern"; fill and stroke may be None.
Group(opacity, clip, last) ==
    [node |-> "group", opacity |-> opacity, clip |-> clip, last |-> last]
Path(p, visible, fill, stroke) ==
    [node |-> "path", path |-> p, visible |-> visible, fill |-> fill, stroke |-> stroke]
Text == [node |-> "text"]

IsGroup(doc, g) == doc[g].node = "group"

\* The root is a group around everything, and groups nest.
IsTree(doc) ==
    /\ doc \in Seq({doc[i] : i \in DOMAIN doc})
    /\ doc # <<>> /\ IsGroup(doc, 1) /\ doc[1].last = Len(doc)
    /\ \A i \in DOMAIN doc : doc[i].node \in {"group", "path", "text"}
    /\ \A g \in DOMAIN doc : IsGroup(doc, g) =>
          /\ doc[g].last \in g..Len(doc)
          /\ \A h \in g..doc[g].last : IsGroup(doc, h) => doc[h].last <= doc[g].last

ASSUME ScenesAssumption == \A s \in DOMAIN SCENES : IsTree(SCENES[s])

VARIABLES
    scene,    \* the scene being walked
    node,     \* the next node
    walking,  \* the calls of walk under way, outermost first: group and opacity
    items     \* scene.items
walk == <<scene, node, walking, items>>

-----------------------------------------------------------------------------
\* Only a clip path's own paths count, and one of them with the even-odd rule
\* gives it to all.
clip_geometry(clip) ==
    LET own == SelectSeq(clip, LAMBDA n : n.node = "path")
    IN  [item |-> "clip", paths |-> [i \in DOMAIN own |-> own[i].path],
         rule |-> IF \E i \in DOMAIN own :
                        own[i].fill # None /\ own[i].fill.rule = "evenodd"
                  THEN "evenodd" ELSE "nonzero"]

Restore == [item |-> "restore"]

\* The opacity it is painted with, if it is: a pattern is not.
paint(p, opacity) ==
    IF p = None \/ p.paint = "pattern" THEN <<>> ELSE <<Append(opacity, p.opacity)>>

Drawn(n, opacity) ==
    LET fill == paint(n.fill, opacity)
        stroke == paint(n.stroke, opacity)
    IN  IF n.visible /\ (fill # <<>> \/ stroke # <<>>)
        THEN <<[item |-> "draw", path |-> n.path, fill |-> fill, stroke |-> stroke]>>
        ELSE <<>>

Node(i) == SCENES[scene][i]
Within == walking[Len(walking)]
Opacity == IF walking = <<>> THEN <<>> ELSE Within.opacity

\* load_scene, up to the call of walk.
StartWalk(s) ==
    /\ scene' = s
    /\ node' = 1 /\ walking' = <<>> /\ items' = <<>>

\* The next child of the group being walked, or the root.
NextNode ==
    /\ IF walking = <<>> THEN node = 1 ELSE node <= Node(Within.group).last
    /\ node' = node + 1
    /\ UNCHANGED scene

\* walk calls itself.
WalkGroup ==
    /\ NextNode
    /\ IsGroup(SCENES[scene], node)
    /\ walking' = Append(walking, [group |-> node, opacity |-> Append(Opacity, Node(node).opacity)])
    /\ items' = IF Node(node).clip = None THEN items
                ELSE Append(items, clip_geometry(Node(node).clip))

WalkPath ==
    /\ NextNode
    /\ Node(node).node = "path"
    /\ items' = items \o Drawn(Node(node), Opacity)
    /\ UNCHANGED walking

WalkText ==
    /\ NextNode
    /\ Node(node).node = "text"
    /\ UNCHANGED <<walking, items>>

\* The end of walk.
Closed_NoRestore(clip) == items
Closed(clip) == IF clip = None THEN items ELSE Append(items, Restore)
WalkReturn ==
    /\ walking # <<>> /\ node > Node(Within.group).last
    /\ walking' = SubSeq(walking, 1, Len(walking) - 1)
    /\ items' = Closed(Node(Within.group).clip)
    /\ UNCHANGED <<scene, node>>

Walk == WalkGroup \/ WalkPath \/ WalkText \/ WalkReturn
Walked == walking = <<>> /\ node > 1

paths(list) == Cardinality({k \in DOMAIN list : list[k].item = "draw"})

-----------------------------------------------------------------------------
(* What a frame of a scene is: every visible path in document order, each  *)
(* under the opacities and inside the clips of the groups it is in.        *)

Around(doc, i, groups) ==
    Among([g \in 1..(i - 1) |-> g], {g \in groups : IsGroup(doc, g) /\ i <= doc[g].last})
Clipped(doc) == {g \in DOMAIN doc : IsGroup(doc, g) /\ doc[g].clip # None}

Opacities(doc, i) == LET around == Around(doc, i, DOMAIN doc)
                     IN  [k \in 1..Len(around) |-> doc[around[k]].opacity]
Shape(geometry) == [paths |-> geometry.paths, rule |-> geometry.rule]
Clips(doc, i) == LET around == Around(doc, i, Clipped(doc))
                 IN  [k \in 1..Len(around) |-> Shape(clip_geometry(doc[around[k]].clip))]

Painted(doc, i, op, p, zoom) ==
    IF p = None \/ p.paint = "pattern" THEN <<>>
    ELSE <<[op |-> op, path |-> doc[i].path, alpha |-> Append(Opacities(doc, i), p.opacity),
            clips |-> Clips(doc, i), zoom |-> zoom]>>

Picture(doc, i, zoom) ==
    IF doc[i].node = "path" /\ doc[i].visible
    THEN Painted(doc, i, "fill", doc[i].fill, zoom) \o Painted(doc, i, "stroke", doc[i].stroke, zoom)
    ELSE <<>>

Clear == [op |-> "clear"]
PictureUpto(doc, zoom) ==
    LET upto[i \in 0..Len(doc)] ==
            IF i = 0 THEN <<Clear>> ELSE upto[i - 1] \o Picture(doc, i, zoom)
    IN  upto
PictureOf(doc, zoom) == PictureUpto(doc, zoom)[Len(doc)]

\* The paths of which there is something to see.
InPicture(doc) == {i \in DOMAIN doc : Picture(doc, i, 0) # <<>>}
=============================================================================
