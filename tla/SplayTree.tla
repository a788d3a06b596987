----------------------------- MODULE SplayTree ------------------------------
(***************************************************************************)
(* The splay tree of the allocator's driver (stree.c), pointer by pointer. *)
(* A node is named by its key and holds its three pointers; malloc and     *)
(* free add to and take from the domain of "node".  The loops of the code  *)
(* are recursive functions over the number of turns, which no loop here    *)
(* takes more often than there are nodes.  comparison_count is left out.   *)
(***************************************************************************)
EXTENDS Naturals, FiniteSets, FiniteSetsExt, Functions

NULL == 0

tree_new == [root |-> NULL, node_count |-> 0, node |-> <<>>]

Nodes(t) == DOMAIN t.node
Turns(t) == 0 .. Cardinality(Nodes(t))

\* The pointer that leads to u, from its parent or from the root, leads to v.
Hook(t, u, v) ==
    LET p == t.node[u].parent
    IN  IF p = NULL THEN [t EXCEPT !.root = v]
        ELSE [t EXCEPT !.node[p][IF t.node[p].left = u THEN "left" ELSE "right"] = v]

SetParent(t, x, p) == IF x = NULL THEN t ELSE [t EXCEPT !.node[x].parent = p]

replace(t, u, v) == SetParent(Hook(t, u, v), v, t.node[u].parent)

\* A mutant: the subtree that changes sides keeps its old parent.
RotateHalf(t, x, up, down) ==
    LET y == t.node[x][up]
        given == [t EXCEPT !.node[x][up] = t.node[y][down]]
        raised == Hook(SetParent(given, y, t.node[x].parent), x, y)
    IN  SetParent([raised EXCEPT !.node[y][down] = x], x, y)

\* A rotation at x: its child y on the side "up" takes its place and gives its
\* subtree on the side "down" to x.  splay never rotates where y is NULL.
Rotate(t, x, up, down) ==
    LET y == t.node[x][up]
        b == t.node[y][down]
        given == SetParent([t EXCEPT !.node[x][up] = b], b, x)
        raised == Hook(SetParent(given, y, t.node[x].parent), x, y)
    IN  SetParent([raised EXCEPT !.node[y][down] = x], x, y)

left_rotate(t, x) == Rotate(t, x, "right", "left")
right_rotate(t, x) == Rotate(t, x, "left", "right")

\* The side of its parent on which x hangs, and the rotation that raises x.
Side(t, x) == IF t.node[t.node[x].parent].left = x THEN "left" ELSE "right"
RaiseOver(t, x, side) == IF side = "left" THEN right_rotate(t, x) ELSE left_rotate(t, x)

\* One turn of the loop: zig, zig-zig or zig-zag.
SplayTurn(t, x) ==
    LET p == t.node[x].parent
        g == t.node[p].parent
    IN  CASE p = NULL -> t
          [] p # NULL /\ g = NULL -> RaiseOver(t, p, Side(t, x))
          [] OTHER ->
               LET first == IF Side(t, x) = Side(t, p) THEN g ELSE p
                   once == RaiseOver(t, first, Side(t, x))
               IN  RaiseOver(once, once.node[x].parent, Side(once, x))

splay(t, x) ==
    LET s[n \in Turns(t)] == IF n = 0 THEN t ELSE SplayTurn(s[n - 1], x)
    IN  s[Cardinality(Nodes(t))]

\* The nodes that a search for the key comes to.
Path(t, key) ==
    LET z[n \in Turns(t)] ==
          IF n = 0 THEN t.root
          ELSE CASE z[n - 1] \in {NULL, key} -> z[n - 1]
                 [] OTHER -> t.node[z[n - 1]][IF key > z[n - 1] THEN "right" ELSE "left"]
    IN  Range(z) \ {NULL}

tree_find_nearest(t, key) ==
    LET below == {z \in Path(t, key) : z <= key}
    IN  IF below = {} THEN NULL ELSE Max(below)

tree_insert(t, key) ==
    LET path == Path(t, key)
        side(z) == IF z < key THEN "right" ELSE "left"
        p == IF path = {} THEN NULL
             ELSE CHOOSE z \in path : t.node[z][side(z)] = NULL
        leaf == [parent |-> p, left |-> NULL, right |-> NULL]
        grown == [t EXCEPT !.node = [z \in DOMAIN @ \cup {key} |-> IF z = key THEN leaf ELSE @[z]]]
        hung == IF p = NULL THEN [grown EXCEPT !.root = key]
                ELSE [grown EXCEPT !.node[p][side(p)] = key]
    IN  IF key \in path THEN t
        ELSE [splay(hung, key) EXCEPT !.node_count = @ + 1]

subtree_minimum(t, u) ==
    LET m[n \in Turns(t)] ==
          IF n = 0 THEN u
          ELSE IF t.node[m[n - 1]].left = NULL THEN m[n - 1] ELSE t.node[m[n - 1]].left
    IN  m[Cardinality(Nodes(t))]

\* y, with the subtree that z had on one side.
Adopt(t, z, y, side) ==
    SetParent([t EXCEPT !.node[y][side] = t.node[z][side]], t.node[z][side], y)

\* The tree without the node that was splayed to its root.
Unlinked(t, z) ==
    LET y == subtree_minimum(t, t.node[z].right)
        free == IF t.node[y].parent = z THEN t
                ELSE Adopt(replace(t, y, t.node[y].right), z, y, "right")
    IN  CASE t.node[z].left = NULL -> replace(t, z, t.node[z].right)
          [] t.node[z].left # NULL /\ t.node[z].right = NULL -> replace(t, z, t.node[z].left)
          [] OTHER -> Adopt(replace(free, z, y), z, y, "left")

tree_remove(t, key) ==
    IF key \notin Path(t, key) THEN t
    ELSE LET rest == Unlinked(splay(t, key), key)
         IN  [rest EXCEPT !.node_count = @ - 1,
                          !.node = Restrict(@, DOMAIN @ \ {key})]

\* What the pointers of a search tree must be: the root has no parent, every
\* child knows its parent, every node is under the root on the side that its
\* key calls for, so that a search finds it.
WellFormed(t) ==
    /\ t.node_count = Cardinality(Nodes(t))
    /\ t.root = NULL <=> Nodes(t) = {}
    /\ \A x \in Nodes(t) :
         /\ t.node[x].parent = NULL <=> x = t.root
         /\ \A side \in {"left", "right"} :
              LET c == t.node[x][side]
              IN  c # NULL => c \in Nodes(t) /\ t.node[c].parent = x
         /\ x \in Path(t, x)
=============================================================================
