------------------------------- MODULE RunQueue -------------------------------
(***************************************************************************)
(* The scheduler's run queue of linux_kernel_internals.cpp: a red-black    *)
(* tree of intrusive nodes with a cached pointer to the leftmost one.      *)
(*                                                                         *)
(* The code writes every case twice, mirrored; here a side s is "L" or     *)
(* "R", a child pointer is child[s][n] and the mirrored case is the same   *)
(* text with Other(s).                                                     *)
(***************************************************************************)
EXTENDS Integers, FiniteSets

CONSTANTS Vruntime   \* Vruntime[e] of the entities e = 1, 2, ...


VARIABLES rep,       \* RbTreeCached and the nodes embedded in the entities
          content    \* the entities inserted and not erased since

rqVars == <<rep, content>>

Entity == DOMAIN Vruntime
NIL == 0             \* nullptr
Other(s) == IF s = "L" THEN "R" ELSE "L"

RQInit ==
    /\ rep = [root |-> NIL, leftmost |-> NIL,
              child |-> [s \in {"L", "R"} |-> [e \in Entity |-> NIL]],
              parent |-> [e \in Entity |-> NIL],
              red |-> [e \in Entity |-> FALSE]]
    /\ content = {}

Red(T, n) == n # NIL /\ T.red[n]
SetRed(T, n, b) == IF n = NIL THEN T ELSE [T EXCEPT !.red[n] = b]
SetParent(T, n, p) == IF n = NIL THEN T ELSE [T EXCEPT !.parent[n] = p]

\* Whatever pointed to u, its parent's child or root_, points to v.
Relink(T, u, v) ==
    LET p == T.parent[u]
    IN  IF p = NIL THEN [T EXCEPT !.root = v]
        ELSE IF T.child["L"][p] = u THEN [T EXCEPT !.child["L"][p] = v]
        ELSE [T EXCEPT !.child["R"][p] = v]

\* Mutant: the subtree between the two nodes keeps its old parent.
RotateOrphans(T, n, s) ==
    LET r == T.child[Other(s)][n]
        m == T.child[s][r]
    IN  [Relink(T, n, r) EXCEPT !.child[Other(s)][n] = m, !.child[s][r] = n,
                                !.parent[r] = T.parent[n], !.parent[n] = r]

\* rotate_left(n) for s = "L", rotate_right(n) for s = "R".
Rotate(T, n, s) ==
    LET r == T.child[Other(s)][n]
        m == T.child[s][r]
        T1 == Relink(T, n, r)
        T2 == [T1 EXCEPT !.child[Other(s)][n] = m, !.child[s][r] = n,
                         !.parent[r] = T.parent[n], !.parent[n] = r]
    IN  SetParent(T2, m, n)

-----------------------------------------------------------------------------
(* insert()                                                                 *)

\* z is the outer child of a red node: that one turns black, its parent g red
\* and comes below it.
Uplifted(T, z, g, s) ==
    LET p == T.parent[z]
    IN  Rotate([T EXCEPT !.red[p] = FALSE, !.red[g] = TRUE], g, Other(s))

RECURSIVE InsertFixup(_, _)
InsertFixup(T, z) ==
    LET p == T.parent[z]
    IN  IF ~Red(T, p) THEN SetRed(T, T.root, FALSE)
        ELSE LET g == T.parent[p]
                 s == IF T.child["L"][g] = p THEN "L" ELSE "R"
                 y == T.child[Other(s)][g]
             IN  IF Red(T, y)
                 THEN InsertFixup([T EXCEPT !.red[p] = FALSE, !.red[y] = FALSE,
                                            !.red[g] = TRUE], g)
                 ELSE LET inner == z = T.child[Other(s)][p]
                          z1 == IF inner THEN p ELSE z
                      IN  InsertFixup(
                              Uplifted(IF inner THEN Rotate(T, p, s) ELSE T, z1, g, s), z1)

SideOf(e, n) == IF Vruntime[e] < Vruntime[n] THEN "L" ELSE "R"

\* The descent: where e goes, and whether it never went right.
RECURSIVE Descend(_, _, _, _)
Descend(T, e, n, leftmost) ==
    LET s == SideOf(e, n)
        left == leftmost /\ s = "L"
    IN  IF T.child[s][n] = NIL THEN [parent |-> n, side |-> s, leftmost |-> left]
        ELSE Descend(T, e, T.child[s][n], left)

Inserted(T, e) ==
    LET fresh == [T EXCEPT !.child["L"][e] = NIL, !.child["R"][e] = NIL,
                           !.red[e] = TRUE, !.parent[e] = NIL]
    IN  IF T.root = NIL
        THEN InsertFixup([fresh EXCEPT !.root = e, !.leftmost = e], e)
        ELSE LET d == Descend(T, e, T.root, TRUE)
             IN  InsertFixup([fresh EXCEPT
                     !.parent[e] = d.parent, !.child[d.side][d.parent] = e,
                     !.leftmost = IF d.leftmost THEN e ELSE @], e)

Insert(e) ==
    /\ e \notin content
    /\ rep' = Inserted(rep, e)
    /\ content' = content \union {e}

-----------------------------------------------------------------------------
(* erase()                                                                  *)

RECURSIVE TreeMinimum(_, _)
TreeMinimum(T, n) ==
    IF T.child["L"][n] = NIL THEN n ELSE TreeMinimum(T, T.child["L"][n])

Transplant(T, u, v) == SetParent(Relink(T, u, v), v, T.parent[u])

\* The outer child of xp's child on the other side is red: xp comes below it.
Replenished(T, xp, s) ==
    LET v == T.child[Other(s)][xp]
        T1 == [T EXCEPT !.red[v] = T.red[xp], !.red[xp] = FALSE]
    IN  Rotate(SetRed(T1, T.child[Other(s)][v], FALSE), xp, s)

\* Its inner child, red, is brought outside.
Outside(T, w, s) ==
    Rotate(SetRed([T EXCEPT !.red[w] = TRUE], T.child[s][w], FALSE), w, Other(s))

BlackRoot(T) == SetRed(T, T.root, FALSE)

RECURSIVE EraseFixup(_, _, _), Short(_, _, _)

\* Side s of xp is one black node short, the child on the other side is black.
Short(T, xp, s) ==
    LET o == Other(s)
        w == T.child[o][xp]
    IN  IF w = NIL THEN EraseFixup(T, xp, T.parent[xp])
        ELSE IF ~Red(T, T.child["L"][w]) /\ ~Red(T, T.child["R"][w])
        THEN EraseFixup([T EXCEPT !.red[w] = TRUE], xp, T.parent[xp])
        ELSE BlackRoot(Replenished(IF Red(T, T.child[o][w]) THEN T ELSE Outside(T, w, s),
                                   xp, s))

\* x, perhaps null, stands one black node short below xp.
EraseFixup(T, x, xp) ==
    IF x = T.root \/ Red(T, x) THEN SetRed(T, x, FALSE)
    ELSE LET s == IF T.child["L"][xp] = x THEN "L" ELSE "R"
             w == T.child[Other(s)][xp]
         IN  Short(IF Red(T, w)
                   THEN Rotate([T EXCEPT !.red[w] = FALSE, !.red[xp] = TRUE], xp, s)
                   ELSE T, xp, s)

\* The cached pointer moves to the successor before the tree is changed.
NextLeftmost(T, z) ==
    IF z # T.leftmost THEN T.leftmost
    ELSE IF T.child["R"][z] # NIL THEN TreeMinimum(T, T.child["R"][z])
    ELSE T.parent[z]

\* y, the successor of z, takes its place.
Succeeded(T, z, y) ==
    LET left == T.child["L"][z]
        right == T.child["R"][z]
        T1 == IF T.parent[y] = z THEN T
              ELSE [Transplant(T, y, T.child["R"][y]) EXCEPT !.child["R"][y] = right,
                                                            !.parent[right] = y]
        T2 == [Transplant(T1, z, y) EXCEPT !.child["L"][y] = left,
                                           !.parent[left] = y,
                                           !.red[y] = T.red[z]]
    IN  IF T.red[y] THEN T2
        ELSE EraseFixup(T2, T.child["R"][y], IF T.parent[y] = z THEN y ELSE T.parent[y])

Unlinked(T, z) ==
    LET left == T.child["L"][z]
        right == T.child["R"][z]
        x == IF left = NIL THEN right ELSE left
    IN  IF left # NIL /\ right # NIL THEN Succeeded(T, z, TreeMinimum(T, right))
        ELSE IF T.red[z] THEN Transplant(T, z, x)
        ELSE EraseFixup(Transplant(T, z, x), x, T.parent[z])

Erased(T, z) == Unlinked([T EXCEPT !.leftmost = NextLeftmost(T, z)], z)

\* What an erased node still holds is never read: insert() sets all of it.
Forget(T, e) ==
    [T EXCEPT !.child["L"][e] = NIL, !.child["R"][e] = NIL,
              !.parent[e] = NIL, !.red[e] = FALSE]

Erase(e) ==
    /\ e \in content
    /\ LET T == Forget(Erased(rep, e), e)
       IN  rep' = IF content = {e} THEN [T EXCEPT !.root = NIL, !.leftmost = NIL]
                  ELSE T
    /\ content' = content \ {e}

RQNext == \E e \in Entity : Insert(e) \/ Erase(e)

RQSpec == RQInit /\ [][RQNext]_rqVars

-----------------------------------------------------------------------------
(* Properties                                                               *)

RECURSIVE Members(_), BlackHeight(_)
Members(n) ==
    IF n = NIL THEN {}
    ELSE {n} \union Members(rep.child["L"][n]) \union Members(rep.child["R"][n])

\* The number of black nodes on every way down, or -1 if the ways differ.
BlackHeight(n) ==
    IF n = NIL THEN 0
    ELSE LET l == BlackHeight(rep.child["L"][n])
             r == BlackHeight(rep.child["R"][n])
         IN  IF l = -1 \/ l # r THEN -1 ELSE l + (IF rep.red[n] THEN 0 ELSE 1)

\* The tree holds the entities in the queue, ordered by vruntime, with parent
\* pointers that match; no red node has a red child and all ways down have as
\* many black nodes, so that no operation takes more than logarithmic time.
RedBlackSound ==
    /\ Members(rep.root) = content
    /\ rep.root # NIL => rep.parent[rep.root] = NIL
    /\ BlackHeight(rep.root) # -1
    /\ ~Red(rep, rep.root)
    /\ \A n \in content :
        /\ \A s \in {"L", "R"} :
            LET c == rep.child[s][n]
            IN  c # NIL => rep.parent[c] = n /\ ~(rep.red[n] /\ rep.red[c])
        /\ \A m \in Members(rep.child["L"][n]) : Vruntime[m] <= Vruntime[n]
        /\ \A m \in Members(rep.child["R"][n]) : Vruntime[m] >= Vruntime[n]

\* pick_next_task() answers with an entity of least vruntime, from the cached
\* pointer, after any insertions, rotations and erasures.
PicksLeast ==
    IF content = {} THEN rep.leftmost = NIL
    ELSE /\ rep.leftmost \in content
         /\ rep.child["L"][rep.leftmost] = NIL
         /\ \A e \in content : Vruntime[rep.leftmost] <= Vruntime[e]
=============================================================================
