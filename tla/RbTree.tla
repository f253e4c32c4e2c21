------------------------------- MODULE RbTree -------------------------------
(***************************************************************************)
(* The red-black trees of kern-ucore/libs/rb_tree.c, which hold the        *)
(* virtual memory areas of an address space (mm/vmm.c).  The tree is the   *)
(* heap of its nodes: t[x] is the struct rb_node of x, with the two        *)
(* sentinels Nil (tree->nil) and Root (tree->root, whose left child is     *)
(* the top of the tree).  A node outside the tree is not in DOMAIN t: what *)
(* its links still hold is overwritten by rb_insert_binary.  Nil's parent, *)
(* which rb_delete sets and only its own fixup reads, is reset at the end  *)
(* of a call.                                                              *)
(***************************************************************************)
EXTENDS Integers, Sequences, FiniteSets

CONSTANTS
    Node,                 \* a set of positive numbers: the nodes that exist
    KeyOf(_)              \* what the compare function looks at

VARIABLE t

Nil == 0                                                      \* tree->nil
Root == -1                                                    \* tree->root
Members == DOMAIN t \ {Nil, Root}

(* COMPARE(tree, x, y) > 0                                                 *)
Above(x, y) == KeyOf(x) > KeyOf(y)
Other(side) == IF side = "left" THEN "right" ELSE "left"

(* FUNC_ROTATE: the child y of x on the other side takes the place of x.   *)
Rotate_KeepParent(h, x, side) ==
    LET y == h[x][Other(side)]
        p == h[x].parent
        at == IF x = h[p][side] THEN side ELSE Other(side)
    IN [h EXCEPT ![x][Other(side)] = h[y][side], ![p][at] = y,
                 ![y].parent = p, ![y][side] = x, ![x].parent = y]
Rotate(h, x, side) ==
    LET y == h[x][Other(side)]
        moved == h[y][side]
        p == h[x].parent
        at == IF x = h[p][side] THEN side ELSE Other(side)
        up == IF moved = Nil THEN h ELSE [h EXCEPT ![moved].parent = x]
    IN [up EXCEPT ![x][Other(side)] = moved, ![p][at] = y,
                  ![y].parent = p, ![y][side] = x, ![x].parent = y]

Paint(h, x, red) == [h EXCEPT ![x].red = red]

(* rb_tree_create                                                          *)
Empty == [x \in {Nil, Root} |->
            [left |-> Nil, right |-> Nil, parent |-> Nil, red |-> FALSE]]

(* The loop of rb_insert_binary: the place where a search for n ends.      *)
RECURSIVE Descend(_, _, _, _)
Descend(h, n, x, y) ==
    IF x = Nil THEN y
    ELSE Descend(h, n, IF Above(x, n) THEN h[x].left ELSE h[x].right, x)

InsertBinary(h, n) ==
    LET y == Descend(h, n, h[Root].left, Root)
        at == IF y = Root \/ Above(y, n) THEN "left" ELSE "right"
        new == [left |-> Nil, right |-> Nil, parent |-> y, red |-> TRUE]
    IN [[x \in DOMAIN h \cup {n} |-> IF x = n THEN new ELSE h[x]] EXCEPT ![y][at] = n]

(* The loop of rb_insert with RB_INSERT_SUB: x is red, and so may be its   *)
(* parent.                                                                 *)
RECURSIVE InsertFix(_, _)
InsertFix(h, x) ==
    LET p == h[x].parent
        g == h[p].parent
        side == IF p = h[g].left THEN "left" ELSE "right"
        uncle == h[g][Other(side)]
    IN IF ~h[p].red THEN h
       ELSE IF h[uncle].red
       THEN InsertFix(Paint(Paint(Paint(h, p, FALSE), uncle, FALSE), g, TRUE), g)
       ELSE LET inner == x = h[p][Other(side)]
                r == IF inner THEN Rotate(h, p, side) ELSE h
                top == IF inner THEN x ELSE p
                low == IF inner THEN p ELSE x
            IN InsertFix(Rotate(Paint(Paint(r, top, FALSE), g, TRUE), g, Other(side)), low)

RbInsert(h, n) ==
    LET r == InsertFix(InsertBinary(h, n), n) IN Paint(r, r[Root].left, FALSE)

(* rb_tree_successor and rb_tree_predecessor                               *)
RECURSIVE Last(_, _, _)
Last(h, x, side) == IF h[x][side] = Nil THEN x ELSE Last(h, h[x][side], side)

RECURSIVE Climb(_, _)
Climb(h, x) ==
    LET y == h[x].parent
    IN IF x = h[y].right THEN Climb(h, y) ELSE IF y = Root THEN Nil ELSE y
Successor(h, x) ==
    IF h[x].right # Nil THEN Last(h, h[x].right, "left") ELSE Climb(h, x)

RECURSIVE ClimbLeft(_, _)
ClimbLeft(h, x) ==
    LET y == h[x].parent
    IN IF x # h[y].left THEN y ELSE IF y = Root THEN Nil ELSE ClimbLeft(h, y)
Predecessor(h, x) ==
    IF h[x].left # Nil THEN Last(h, h[x].left, "right") ELSE ClimbLeft(h, x)

(* rb_search with a compare function that looks for the key k              *)
RECURSIVE SearchFrom(_, _, _)
SearchFrom(h, x, k) ==
    IF x = Nil \/ KeyOf(x) = k THEN x
    ELSE SearchFrom(h, IF KeyOf(x) > k THEN h[x].left ELSE h[x].right, k)
Search(h, k) == SearchFrom(h, h[Root].left, k)

(* rb_delete_fixup with RB_DELETE_FIXUP_SUB.  top is the local root, which *)
(* is read before the first rotation and not again.                        *)
RECURSIVE FixUp(_, _, _)
FixUp(h, x, top) ==
    IF x = top \/ h[x].red THEN Paint(h, x, FALSE)
    ELSE LET p == h[x].parent
             side == IF x = h[p].left THEN "left" ELSE "right"
             far == Other(side)
             w0 == h[p][far]
             h1 == IF h[w0].red
                   THEN Rotate(Paint(Paint(h, w0, FALSE), p, TRUE), p, side) ELSE h
             w == h1[p][far]
         IN IF ~h1[h1[w].left].red /\ ~h1[h1[w].right].red
            THEN FixUp(Paint(h1, w, TRUE), p, top)
            ELSE LET turn == ~h1[h1[w][far]].red
                     h2 == IF turn
                           THEN Rotate(Paint(Paint(h1, h1[w][side], FALSE), w, TRUE), w, far)
                           ELSE h1
                     v == h2[p][far]
                     h3 == Paint(Paint(Paint(h2, v, h2[p].red), p, FALSE), h2[v][far], FALSE)
                 IN FixUp(Rotate(h3, p, side), top, top)

Drop(h, n) == [x \in DOMAIN h \ {n} |-> IF x = Nil THEN [h[x] EXCEPT !.parent = Nil] ELSE h[x]]

(* rb_delete: y is cut out, x takes its place, and y the place of z.       *)
RbDelete(h, z) ==
    LET y == IF h[z].left = Nil \/ h[z].right = Nil THEN z ELSE Successor(h, z)
        x == IF h[y].left # Nil THEN h[y].left ELSE h[y].right
        py == h[y].parent
        cut == [h EXCEPT ![x].parent = py, ![py][IF y = h[py].left THEN "left" ELSE "right"] = x]
        pz == cut[z].parent
        moved == IF y = z THEN cut
                 ELSE [[cut EXCEPT ![pz][IF z = cut[pz].left THEN "left" ELSE "right"] = y,
                                   ![cut[z].left].parent = y, ![cut[z].right].parent = y]
                       EXCEPT ![y] = cut[z]]
    IN Drop(IF h[y].red THEN moved ELSE FixUp(moved, x, moved[Root].left), z)

Init == t = Empty
Insert(n) == n \notin Members /\ t' = RbInsert(t, n)
Delete(n) == n \in Members /\ t' = RbDelete(t, n)
Next == \E n \in Node : Insert(n) \/ Delete(n)
Spec == Init /\ [][Next]_t
-----------------------------------------------------------------------------
RECURSIVE InOrder(_)
InOrder(x) == IF x = Nil THEN << >> ELSE InOrder(t[x].left) \o <<x>> \o InOrder(t[x].right)

(* The black nodes of every path below x, or -1 when the paths differ.     *)
RECURSIVE BlackHeight(_)
BlackHeight(x) ==
    IF x = Nil THEN 1
    ELSE LET l == BlackHeight(t[x].left)
             r == BlackHeight(t[x].right)
         IN IF l # r \/ l = -1 THEN -1 ELSE IF t[x].red THEN l ELSE l + 1

(* After any sequence of inserts and deletes the tree is what check_tree   *)
(* asserts: links and back links agree, no red node has a red child, the   *)
(* black heights agree and the sentinels are black.  Beyond check_tree:    *)
(* the walk meets every member once and in order, rb_node_next and         *)
(* rb_node_prev are the neighbours in it, and rb_search finds every key.   *)
RbSound ==
    LET s == InOrder(t[Root].left) IN
    /\ {s[i] : i \in DOMAIN s} = Members /\ Len(s) = Cardinality(Members)
    /\ \A i \in 1..(Len(s) - 1) : KeyOf(s[i]) <= KeyOf(s[i + 1])
    /\ \A i \in DOMAIN s :
          /\ Successor(t, s[i]) = IF i = Len(s) THEN Nil ELSE s[i + 1]
          /\ Predecessor(t, s[i]) = IF i = 1 THEN Nil ELSE s[i - 1]
          /\ KeyOf(Search(t, KeyOf(s[i]))) = KeyOf(s[i])
    /\ \A x \in Members :
          /\ \A side \in {"left", "right"} : t[x][side] # Nil => t[t[x][side]].parent = x
          /\ t[x].red => ~t[t[x].left].red /\ ~t[t[x].right].red
    /\ BlackHeight(t[Root].left) # -1
    /\ ~t[Nil].red /\ ~t[Root].red /\ ~t[t[Root].left].red
=============================================================================
