----------------------------- MODULE AddrColors -----------------------------
(***************************************************************************)
(* IPAddrColors, a binary tree of the addresses that were seen with their  *)
(* colors, and InferIPAddrColors, which gives the two ends of every packet *)
(* colors of one pair (2k, 2k+1) and joins pairs that packets connect.     *)
(*                                                                         *)
(* A node is a record; a leaf has no children.  A node with `sub' gives    *)
(* its color to all addresses below that have none.  Addresses have Bits   *)
(* bits, the first is the highest.                                         *)
(***************************************************************************)
EXTENDS Integers, Sequences, FiniteSets, SequencesExt

CONSTANTS Bits,         \* of an address (32)
          MinDistance,  \* where compress_colors() stops (8)
          Addr,         \* the addresses of packets
          MaxUpdates,   \* packets
          MaxLines      \* lines of a color file

ASSUME AddrAssumption == Bits \in Nat \ {0} /\ Addr \subseteq 0 .. 2 ^ Bits - 1

VARIABLES tree,         \* _root
          palette,      \* _next_color, _color_mapping, _compacted, _n_fixed_colors, InferIPAddrColors::_active
          told          \* the packets since the last clear or the lines of files, how many; did compress_colors() guess

colorVars == <<tree, palette, told>>

NULLCOLOR == -1
MIXEDCOLOR == -2
BADCOLOR == -3
IsColor(c) == c >= 0
Other(c) == IF c % 2 = 0 THEN c + 1 ELSE c - 1   \* c ^ 1

Bit(a, i) == (a \div 2 ^ (Bits - i)) % 2
Upper(a, i) == (a \div 2 ^ (Bits + 1 - i)) * 2 ^ (Bits + 1 - i)
\* ffs_msb(a ^ b): the first bit in which a and b differ, 0 when they do not
ffs_msb == [a, b \in 0 .. 2 ^ Bits - 1 |->
              IF a = b THEN 0 ELSE CHOOSE i \in 1 .. Bits : Bit(a, i) # Bit(b, i) /\ Upper(a, i) = Upper(b, i)]
Swivel(a, b) == ffs_msb[a, b]

Leaf(a, c) == [agg |-> a, color |-> c, sub |-> FALSE, child |-> <<>>]
IsLeaf(n) == n.child = <<>>
Split(n) == Swivel(n.child[1].agg, n.child[2].agg)

\* clear()
Cleared(active) == [next |-> 0, map |-> <<>>, compacted |-> TRUE, fixed |-> 0, active |-> active]
ColorsInit ==
    /\ tree = Leaf(0, NULLCOLOR)
    /\ palette = Cleared(TRUE)
    /\ told = [pairs |-> {}, lines |-> {}, guessed |-> FALSE, n |-> 0]

-----------------------------------------------------------------------------
\* make_peer(): n becomes the parent of what it was and of a leaf for a, which
\* find_node() then gives color c.  The leaf of a subtree that has just its first
\* address makes room for that address.
make_peer(a, n, c) ==
    LET s == Swivel(a, n.agg)
        whole == n.sub /\ Bit(a, s) = 1
        old == IF whole THEN [n EXCEPT !.color = NULLCOLOR, !.sub = FALSE] ELSE n
    IN  IF s = 0
        THEN [n EXCEPT !.child = <<Leaf(a, c), Leaf(a + 1, NULLCOLOR)>>]
        ELSE [agg |-> Upper(n.agg, s), color |-> IF whole THEN n.color ELSE NULLCOLOR, sub |-> whole,
              child |-> IF Bit(a, s) = 1 THEN <<old, Leaf(a, c)>> ELSE <<Leaf(a, c), n>>]

\* find_node(): the tree with a leaf for a; a leaf without a color takes the one
\* of the nearest subtree that has one
RECURSIVE find_node(_, _, _)
find_node(n, a, above) ==
    LET c == IF n.sub THEN n.color ELSE above
        i == Bit(a, Split(n)) + 1
    IN  IF ~n.sub /\ n.agg = a /\ IsLeaf(n) THEN [n EXCEPT !.color = IF @ = NULLCOLOR THEN c ELSE @]
        ELSE IF IsLeaf(n) \/ (~IsLeaf(n) /\ Swivel(a, n.agg) \in 1 .. Split(n) - 1) THEN make_peer(a, n, c)
        ELSE [n EXCEPT !.child[i] = find_node(@, a, c)]
Find(n, a) == find_node(n, a, NULLCOLOR)

\* the color of a leaf that find_node() found, and the tree in which it is c
RECURSIVE LeafColor(_, _)
LeafColor(n, a) == IF IsLeaf(n) THEN n.color ELSE LeafColor(n.child[Bit(a, Split(n)) + 1], a)
RECURSIVE Paint(_, _, _)
Paint(n, a, c) ==
    IF IsLeaf(n) THEN [n EXCEPT !.color = c]
    ELSE [n EXCEPT !.child[Bit(a, Split(n)) + 1] = Paint(@, a, c)]

\* color(): one step of the mapping
color(n, m, a) == LET c == LeafColor(Find(n, a), a) IN IF IsColor(c) THEN m[c + 1] ELSE c

\* ensure_color(), hard_ensure_color()
ensure_color(k, c) ==
    IF c < k.next \/ ~IsColor(c) THEN k
    ELSE LET top == IF c % 2 = 1 THEN c ELSE c + 1
         IN  [k EXCEPT !.next = top + 1, !.map = @ \o [i \in 1 .. top + 1 - k.next |-> k.next + i - 1]]

\* set_color(), set_color_subtree()
set_color(n, a, c) == Paint(Find(n, a), a, c)
RECURSIVE PaintSubtree(_, _, _, _)
PaintSubtree(n, a, prefix, c) ==
    IF ~IsLeaf(n) /\ (~IsLeaf(n) => Split(n) <= prefix)
    THEN [n EXCEPT !.child[Bit(a, Split(n)) + 1] = PaintSubtree(@, a, prefix, c)]
    ELSE [n EXCEPT !.color = c, !.sub = TRUE]
Flip(a, i) == IF Bit(a, i) = 1 THEN a - 2 ^ (Bits - i) ELSE a + 2 ^ (Bits - i)
set_color_subtree(n, a, prefix, c) ==
    IF prefix = Bits THEN set_color(n, a, c)
    ELSE PaintSubtree(IF prefix = 0 THEN n ELSE Find(Find(n, a), Flip(a, prefix)), a, prefix, c)

-----------------------------------------------------------------------------
\* the end of a chain of colors; node_compact_colors(), compact_colors()
RECURSIVE Resolve(_, _)
Resolve(m, c) == IF ~IsColor(c) \/ (IsColor(c) /\ m[c + 1] = c) THEN c ELSE Resolve(m, m[c + 1])
RECURSIVE node_compact_colors(_, _)
node_compact_colors(n, new) ==
    [n EXCEPT !.color = IF IsColor(@) THEN new[@ + 1] ELSE @,
              !.child = [i \in DOMAIN @ |-> node_compact_colors(@[i], new)]]
Kept(m) == {c \in 0 .. Len(m) - 1 : m[c + 1] = c}
NewNumbers(m) == [i \in DOMAIN m |-> Cardinality({r \in Kept(m) : r < Resolve(m, i - 1)})]
compact_colors(w) ==
    LET k == Cardinality(Kept(w.palette.map))
    IN  IF w.palette.compacted THEN w
        ELSE [tree |-> node_compact_colors(w.tree, NewNumbers(w.palette.map)),
              palette |-> [w.palette EXCEPT !.next = k, !.map = [i \in 1 .. k |-> i - 1], !.compacted = TRUE]]

\* node_mark_subcolors(): inner nodes get the one of colors 0 and 1 that is below
Subcolor(n) == IF IsLeaf(n) /\ n.color \notin {0, 1} THEN NULLCOLOR ELSE n.color
RECURSIVE node_mark_subcolors(_)
node_mark_subcolors(n) ==
    IF IsLeaf(n) THEN n
    ELSE LET ch == <<node_mark_subcolors(n.child[1]), node_mark_subcolors(n.child[2])>>
             below == {Subcolor(ch[1]), Subcolor(ch[2])} \ {NULLCOLOR}
         IN  [n EXCEPT !.child = ch,
                       !.color = IF below = {} THEN NULLCOLOR
                                 ELSE IF Cardinality(below) = 1 THEN CHOOSE c \in below : TRUE ELSE MIXEDCOLOR]

\* node_nearest_colored_ancestors(): of every color the inner node next to a leaf
\* with it that has one of the two colors
RECURSIVE node_nearest_colored_ancestors(_, _, _, _)
node_nearest_colored_ancestors(n, c, distance, v) ==
    LET marked == n.color # NULLCOLOR
        c1 == IF marked THEN n.color ELSE c
        d1 == IF marked THEN Split(n) ELSE distance
        i == n.color + 1
    IN  IF ~IsLeaf(n)
        THEN node_nearest_colored_ancestors(n.child[2], c1, d1,
                 node_nearest_colored_ancestors(n.child[1], c1, d1, v))
        ELSE IF IsColor(n.color) /\ IsColor(c) /\ (IsColor(n.color) => distance >= v[i].distance)
        THEN [v EXCEPT ![i] = [color |-> IF @.distance = distance /\ @.color # c THEN MIXEDCOLOR ELSE c,
                               distance |-> distance]]
        ELSE v

\* compress_cycle()
compress_cycle(w) ==
    LET k == compact_colors(w)
        t == node_mark_subcolors(k.tree)
    IN  [tree |-> t, palette |-> [k.palette EXCEPT !.fixed = 2],
         near |-> node_nearest_colored_ancestors(t, NULLCOLOR, 0,
                      [i \in 1 .. k.palette.next |-> [color |-> NULLCOLOR, distance |-> -1]])]

\* compress_colors(): colors join the primary color they are near to, their
\* complements the other one
Joins(near, c, d) ==
    /\ near[c + 1].distance = d /\ near[c + 1].color \in {0, 1}
    /\ ~(near[Other(c) + 1].distance = d /\ near[Other(c) + 1].color = near[c + 1].color)
JoinPrimary(k, near, d) ==
    FoldLeft(LAMBDA x, c : IF c = x.skip \/ ~Joins(near, c, d) THEN x
                           ELSE [skip |-> Other(c),
                                 k |-> [x.k EXCEPT !.map[c + 1] = near[c + 1].color,
                                                   !.map[Other(c) + 1] = Other(near[c + 1].color),
                                                   !.compacted = FALSE]],
             [skip |-> -1, k |-> k], [i \in 1 .. k.next - 2 |-> i + 1]).k
RECURSIVE Compress(_, _)
Compress(w, d) ==
    LET k == JoinPrimary(w.palette, w.near, d)
    IN  IF w.palette.next <= 2 \/ d < MinDistance THEN w
        ELSE IF k.compacted THEN Compress(w, d - 1)
        ELSE Compress(compress_cycle([tree |-> w.tree, palette |-> k]), Bits)
compress_colors(w) == Compress(compress_cycle(w), Bits)

-----------------------------------------------------------------------------
\* write_nodes(): the lines of a color file.  read_file() of one, see below.
RECURSIVE write_nodes(_, _)
write_nodes(n, prefix) ==
    (IF n.sub THEN <<[a |-> n.agg, prefix |-> prefix, c |-> n.color]>>
     ELSE IF IsLeaf(n) /\ (IsColor(n.color) \/ n.color = BADCOLOR)
     THEN <<[a |-> n.agg, prefix |-> Bits, c |-> n.color]>> ELSE <<>>)
    \o IF IsLeaf(n) THEN <<>> ELSE write_nodes(n.child[1], Split(n)) \o write_nodes(n.child[2], Split(n))
\* read_file(), read_packed_file()
Line(w, l) == [tree |-> set_color_subtree(w.tree, l.a, l.prefix, l.c), palette |-> ensure_color(w.palette, l.c)]
read_file(lines) == FoldLeft(Line, [tree |-> Leaf(0, NULLCOLOR), palette |-> Cleared(TRUE)], lines)

-----------------------------------------------------------------------------
World == [tree |-> tree, palette |-> palette]
Becomes(w) == tree' = w.tree /\ palette' = [x \in DOMAIN palette |-> w.palette[x]]

\* InferIPAddrColors::update(), which push() and pull() call
InferUpdate == \E s, d \in Addr :
    LET t == Find(Find(tree, s), d)
        sc == Resolve(palette.map, LeafColor(t, s))
        dc == Resolve(palette.map, LeafColor(t, d))
        resolved == Paint(Paint(t, s, sc), d, dc)
        k == palette
        \* the higher pair becomes the lower one
        join(hi, lo) == [k EXCEPT !.map[hi + 1] = Other(lo), !.map[Other(hi) + 1] = lo, !.compacted = FALSE]
    IN  /\ told.n < MaxUpdates
        /\ IF ~k.active THEN UNCHANGED <<tree, palette>>
           ELSE IF BADCOLOR \in {sc, dc} THEN tree' = resolved /\ UNCHANGED palette
           ELSE IF sc = NULLCOLOR /\ dc = NULLCOLOR
           THEN /\ tree' = Paint(Paint(t, s, k.next), d, k.next + 1)
                /\ palette' = [k EXCEPT !.next = @ + 2, !.map = @ \o <<k.next, k.next + 1>>]
           ELSE IF sc = NULLCOLOR THEN tree' = Paint(resolved, s, Other(dc)) /\ UNCHANGED palette
           ELSE IF dc = NULLCOLOR THEN tree' = Paint(resolved, d, Other(sc)) /\ UNCHANGED palette
           ELSE IF sc \div 2 < dc \div 2 THEN tree' = Paint(resolved, d, Other(sc)) /\ palette' = join(dc, sc)
           ELSE IF dc \div 2 < sc \div 2 THEN tree' = Paint(resolved, s, Other(dc)) /\ palette' = join(sc, dc)
           ELSE tree' = (IF sc = dc THEN Paint(resolved, s, BADCOLOR) ELSE resolved) /\ UNCHANGED palette
        /\ told' = [told EXCEPT !.n = @ + 1, !.pairs = IF k.active THEN @ \cup {{s, d}} ELSE @]

\* the handlers: ncolors, write_file, clear, active
NColors == ~palette.compacted /\ Becomes(compact_colors(World)) /\ UNCHANGED told
WriteFile == Becomes(compress_colors(World)) /\ told' = [told EXCEPT !.guessed = TRUE]
ClearColors == tree' = Leaf(0, NULLCOLOR) /\ palette' = Cleared(palette.active) /\ told' = [told EXCEPT !.pairs = {}, !.guessed = FALSE]
SetActive == palette' = [palette EXCEPT !.active = ~@] /\ UNCHANGED <<tree, told>>
InferNext == InferUpdate \/ NColors \/ WriteFile \/ ClearColors \/ SetActive

\* a color file is read line by line, addresses are looked up
ReadLine == \E a \in Addr, prefix \in 1 .. Bits, c \in {0, 1, 2} :
    /\ told.n < MaxLines /\ a % 2 ^ (Bits - prefix) = 0
    /\ Becomes(Line(World, [a |-> a, prefix |-> prefix, c |-> c]))
    /\ told' = [told EXCEPT !.n = @ + 1, !.lines = @ \cup {[a |-> a, prefix |-> prefix, c |-> c]}]
\* IPAddrColorPaint::push() and pull(), TestIPAddrColors::test(): they look at the
\* colors, and find_node() enters what it does not find
PaintPacket == \E d \in Addr : tree' = Find(tree, d) /\ UNCHANGED <<palette, told>>
TestPacket == \E s, d \in Addr : tree' = Find(Find(tree, s), d) /\ UNCHANGED <<palette, told>>
FileNext == ReadLine \/ PaintPacket \/ TestPacket

-----------------------------------------------------------------------------
ColorsTypeOK ==
    /\ palette.next = Len(palette.map) /\ palette.next % 2 = 0
    /\ \A i \in DOMAIN palette.map : palette.map[i] \in 0 .. i - 1
    /\ palette.compacted => \A i \in DOMAIN palette.map : palette.map[i] = i - 1

\* node_ok(): below a node both children, they agree with it before the bit in
\* which they differ, that bit of the node and what follows is zero
RECURSIVE node_ok(_, _)
node_ok(n, last) ==
    IsLeaf(n) \/ (/\ Split(n) > last
                  /\ \A i \in {1, 2} : /\ Upper(n.child[i].agg, Split(n)) = n.agg
                                       /\ Bit(n.child[i].agg, Split(n)) = i - 1
                                       /\ node_ok(n.child[i], Split(n)))

\* The two ends of a packet have complementary colors, unless one was found bad.
ColorAt(a) == Resolve(palette.map, LeafColor(Find(tree, a), a))
EndsDiffer ==
    LET at == [a \in Addr |-> ColorAt(a)]
    IN  \A p \in told.pairs : \A s, d \in p :
            s < d /\ IsColor(at[s]) /\ IsColor(at[d]) => at[s] = Other(at[d])

\* Until compress_colors() guesses, only what packets connect has colors of one pair.
RECURSIVE Reach(_)
Reach(S) == LET T == S \cup UNION {p \in told.pairs : p \cap S # {}} IN IF T = S THEN S ELSE Reach(T)
PairsConnected ==
    LET at == [a \in Addr |-> ColorAt(a)]
    IN  ~told.guessed /\ told.lines = {} => \A s, d \in Addr :
            s < d /\ IsColor(at[s]) /\ IsColor(at[d]) /\ at[s] \div 2 = at[d] \div 2 => d \in Reach({s})

\* The color file of InferIPAddrColors, which has no prefixes, gives every address
\* the color it had.
RoundTrip ==
    LET w == compact_colors(World)
        r == read_file(write_nodes(w.tree, 0))
    IN  told.lines = {} => \A a \in Addr : color(r.tree, r.palette.map, a) = color(w.tree, w.palette.map, a)

\* An address has a color when a line of the file is about it or its prefix, and
\* the color is of such a line.
Covers(l, a) == Upper(a, l.prefix + 1) = l.a
ColorsCovered ==
    told.pairs = {} => \A a \in 0 .. 2 ^ Bits - 1 :
        LET own == {l \in told.lines : Covers(l, a)}
        IN  IF own = {} THEN ~IsColor(ColorAt(a)) ELSE ColorAt(a) \in {l.c : l \in own}

\* The tree is well formed; the colors are those of the packets or of the file.
ColorsSound == node_ok(tree, 0) /\ EndsDiffer /\ PairsConnected /\ RoundTrip /\ ColorsCovered

=============================================================================
