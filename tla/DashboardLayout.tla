--------------------------- MODULE DashboardLayout ---------------------------
(***************************************************************************)
(* The layout of a dashboard in edit mode: a map from component ids to     *)
(* components, each with the ids of its children, kept by the reducer      *)
(* dashboard/reducers/dashboardLayout.js and changed by drag and drop,     *)
(* deletion, resizing and the top-level tabs.                              *)
(*                                                                         *)
(* A component is [type, children, width]; width 0 stands for an undefined *)
(* meta.width, other meta data and the list of parents are left out.       *)
(* Component 0 is ROOT_ID and component 1 GRID_ID; the ids nanoid() makes  *)
(* are the smallest numbers that are free.                                 *)
(***************************************************************************)
EXTENDS Integers, FiniteSets, SequencesExt

CONSTANTS
    MaxId,             \* bound: ids are 0..MaxId
    NewTypes,          \* the palette: types of new components that are dropped
    Columns,           \* GRID_COLUMN_COUNT
    ChartWidth,        \* GRID_DEFAULT_CHART_WIDTH
    SelfDrops,         \* a component may be dropped inside its own subtree, which
                       \* the code does not prevent and which detaches it
    NestedTabsToRoot   \* tabs that are not a child of the grid may be dropped on
                       \* the root; they then stay in the list of their parent too

ASSUME LayoutAssumption ==
    /\ MaxId \in Nat /\ MaxId > 1
    /\ NewTypes \subseteq {"ROW", "COLUMN", "CHART", "HEADER", "DIVIDER",
                           "DYNAMIC", "MARKDOWN", "TABS"}
    /\ Columns \in Nat /\ ChartWidth \in 1..Columns
    /\ SelfDrops \in BOOLEAN /\ NestedTabsToRoot \in BOOLEAN

VARIABLE layout   \* dashboardLayout.present

vars == layout

Root == 0
Grid == 1
Ids  == 0..MaxId

Component(type, width, children) == [type |-> type, children |-> children, width |-> width]

\* isResizable, with the widths of the factory.
Resizable == {"COLUMN", "CHART", "MARKDOWN", "DYNAMIC"}
DefaultWidth(type) == CASE type \in {"CHART", "COLUMN", "MARKDOWN"} -> ChartWidth
                        [] type = "DYNAMIC" -> Columns
                        [] OTHER -> 0

\* parentMaxDepthLookup: the greatest depth of a parent of the first type that
\* still takes a child of the second, -1 when it never does.
MaxParentDepth(parentType, childType) ==
    LET leaf == {"CHART", "DYNAMIC", "MARKDOWN"} IN
    CASE parentType = "ROOT" /\ childType \in {"TABS", "GRID"} -> 0
      [] parentType = "GRID"
         /\ childType \in leaf \cup {"COLUMN", "DIVIDER", "HEADER", "ROW", "TABS"} -> 1
      [] parentType = "ROW" /\ childType \in leaf \cup {"COLUMN"} -> 4
      [] parentType = "TABS" /\ childType = "TAB" -> 3
      [] parentType = "TAB" /\ childType \in leaf \cup {"DIVIDER", "HEADER"} -> 5
      [] parentType = "TAB" /\ childType \in {"COLUMN", "ROW", "TABS"} -> 3
      [] parentType = "COLUMN" /\ childType \in {"CHART", "HEADER", "MARKDOWN"} -> 5
      [] parentType = "COLUMN" /\ childType \in {"ROW", "DIVIDER", "TABS"} -> 3
      [] OTHER -> -1

shouldWrapChildInRow(parentType, childType) ==
    parentType \in {"GRID", "TAB"} /\ childType \in {"CHART", "COLUMN", "MARKDOWN"}

------------------------------------------------------------------------------
(* Reading the tree.                                                       *)

Children(l, id) == ToSet(l[id].children)

\* The parents of a component: findParentId returns one of them, or null.
ParentsOf(l, id) == {p \in DOMAIN l : p # id /\ id \in Children(l, p)}
findParentId(l, id) == CHOOSE p \in ParentsOf(l, id) : TRUE

RECURSIVE Closure(_, _)
Closure(l, S) ==
    LET T == S \cup UNION {Children(l, id) : id \in S \cap DOMAIN l}
    IN IF T = S THEN S ELSE Closure(l, T)

Subtree(l, id) == Closure(l, {id})

TopLevel(l) == Head(l[Root].children)

\* The depth property the components pass on when they render their children:
\* tabs and tab do not count, the contents of a top-level tab are a grid.
RECURSIVE Depth(_, _)
Depth(l, id) ==
    IF id = Root THEN 0
    ELSE LET p == findParentId(l, id) IN
         IF \/ l[p].type = "TABS"
            \/ l[p].type = "TAB" /\ p \notin Children(l, TopLevel(l))
         THEN Depth(l, p)
         ELSE Depth(l, p) + 1

isValidChild(l, parent, childType) ==
    Depth(l, parent) <= MaxParentDepth(l[parent].type, childType)

\* getTotalChildWidth.
TotalChildWidth(l, id) ==
    FoldLeft(LAMBDA w, c : w + l[c].width, 0, l[id].children)

\* getDetailedComponentWidth: width, occupiedWidth and minimumWidth; Undefined
\* where JavaScript has undefined.
Undefined == -1
Known(w) == IF w = 0 THEN Undefined ELSE w
RowWidth(l, id) ==
    LET p == findParentId(l, id) IN
    IF ParentsOf(l, id) # {} /\ l[p].type \in Resizable /\ l[p].width # 0
    THEN l[p].width
    ELSE Columns
DetailedWidth(l, id) ==
    CASE l[id].type = "ROW" ->
           LET total == TotalChildWidth(l, id) IN
           [width |-> RowWidth(l, id), occupied |-> total,
            minimum |-> Max({1, total})]
      [] l[id].type = "COLUMN" ->
           LET rows == {c \in Children(l, id) : l[c].type = "ROW"} IN
           [width |-> Known(l[id].width), occupied |-> 0,
            minimum |-> Max({1} \cup {TotalChildWidth(l, c) : c \in rows})]
      [] l[id].type \in {"CHART", "MARKDOWN", "DYNAMIC"} ->
           [width |-> Known(l[id].width), occupied |-> Known(l[id].width), minimum |-> 1]
      [] OTHER -> [width |-> Undefined, occupied |-> Undefined, minimum |-> Undefined]

\* The room a container has for one more component, none when it has no width;
\* tabs and a tab ask their parent.
Room(l, id) ==
    {d.width - d.occupied :
        d \in {x \in {DetailedWidth(l, id)} : Undefined \notin {x.width, x.occupied}}}
Capacity(l, id) ==
    IF ParentsOf(l, id) # {} /\ Room(l, id) = {} THEN Room(l, findParentId(l, id))
    ELSE Room(l, id)

\* getComponentWidthFromDrop for a component whose width and minimumWidth are
\* w and min: the width it gets in the container, Overflow when there is no room.
Overflow == -2
WidthFromDrop(l, w, min, dest) ==
    LET given == {IF c >= w THEN w ELSE IF c >= min THEN c ELSE Overflow : c \in Capacity(l, dest)}
    IN IF given = {} \/ w = Undefined THEN w ELSE CHOOSE x \in given : TRUE

MoveWidth(l, id, source, dest) ==
    LET d == DetailedWidth(l, id) IN
    IF source = dest THEN Known(l[id].width)
    ELSE WidthFromDrop(l, d.width, d.minimum, dest)

\* A new row asks for the whole grid and a width of at least one column.
NewWidth(l, type, dest) ==
    WidthFromDrop(l, IF type = "ROW" THEN Columns ELSE Known(DefaultWidth(type)), 1, dest)

\* The availableColumnCount that a row is rendered with: columns set it for what
\* is below them, tabs pass it on.
RECURSIVE Available(_, _)
Available(l, id) ==
    LET p == findParentId(l, id) IN
    CASE l[p].type = "COLUMN" -> l[p].width
      [] l[p].type = "TABS" -> Available(l, p)
      [] l[p].type = "TAB" /\ p \notin Children(l, TopLevel(l)) -> Available(l, p)
      [] OTHER -> Columns

------------------------------------------------------------------------------
(* The operations of the reducer.                                          *)

\* splice(i, 0, x) of a JavaScript array; i counts from 0.
Splice(s, i, x) == InsertAt(s, Min({i, Len(s)}) + 1, x)
IndexOf(s, x) == SelectInSeq(s, LAMBDA y : y = x) - 1

SetChildren(l, id, s) == [l EXCEPT ![id].children = s]

Fresh(l, n) == {id \in Ids \ DOMAIN l :
                    Cardinality({x \in Ids \ DOMAIN l : x < id}) < n}
NthFresh(l, n) == CHOOSE id \in Fresh(l, n) : id \notin Fresh(l, n - 1)

Add(l, id, component) == [x \in DOMAIN l \cup {id} |-> IF x = id THEN component ELSE l[x]]

\* newEntitiesFromDrop: the layout with a new component of the type at index i
\* of the container, in a row of its own or with a first tab where it needs one.
newEntitiesFromDrop(l, type, dest, i) ==
    LET new   == NthFresh(l, 1)
        other == NthFresh(l, 2)
        w     == IF type \in Resizable THEN Max({0, NewWidth(l, type, dest)}) ELSE 0
        wrap  == shouldWrapChildInRow(l[dest].type, type)
        child == Component(type, w, IF type = "TABS" THEN <<other>> ELSE <<>>)
        first == IF wrap THEN other ELSE new
        alone == SetChildren(Add(l, new, child), dest, Splice(l[dest].children, i, first))
    IN IF wrap THEN Add(alone, other, Component("ROW", 0, <<new>>))
       ELSE IF type = "TABS" THEN Add(alone, other, Component("TAB", 0, <<>>))
       ELSE alone

NeedsTwo(l, type, dest) == type = "TABS" \/ shouldWrapChildInRow(l[dest].type, type)
EnoughIds(l, type, dest) ==
    Cardinality(Ids \ DOMAIN l) >= (IF NeedsTwo(l, type, dest) THEN 2 ELSE 1)

\* recursivelyDeleteChildren: the component, everything below it, and its place
\* in the list of the parent it was reached through.
recursivelyDeleteChildren(l, id, parent) ==
    LET rest == [x \in DOMAIN l \ Subtree(l, id) |-> l[x]]
    IN IF parent \in DOMAIN rest
       THEN SetChildren(rest, parent, RemoveFirst(rest[parent].children, id))
       ELSE rest

\* DELETE_COMPONENT: a row that is left empty goes too.
Delete(l, id, parent) ==
    LET next == recursivelyDeleteChildren(l, id, parent)
    IN IF /\ parent \in DOMAIN next
          /\ next[parent].type = "ROW" /\ next[parent].children = <<>>
       THEN LET above == ParentsOf(next, parent)
            IN recursivelyDeleteChildren(next, parent,
                   IF above = {} THEN -1 ELSE CHOOSE p \in above : TRUE)
       ELSE next

\* reorderItem: the component at index si of the source goes to index di of the
\* destination; among tabs, to the left or the right of the tab at di.
reorderItem(l, source, si, dest, di, position) ==
    LET current == l[source].children
        target  == current[si + 1]
        tabs    == l[dest].type = "TABS"
        right   == tabs /\ position = "RIGHT"
        same    == IF right THEN di + 1 ELSE di
    IN IF source = dest
       THEN IF tabs /\ \/ position = "RIGHT" /\ si = di + 1
                       \/ position = "LEFT" /\ si = di - 1
            THEN l
            ELSE SetChildren(l, source,
                     Splice(RemoveAt(current, si + 1),
                            IF tabs /\ same > si THEN same - 1 ELSE same, target))
       ELSE SetChildren(
                SetChildren(l, source, RemoveAt(current, si + 1)), dest,
                Splice(l[dest].children,
                       IF right THEN Min({di + 1, Len(current) - 1}) ELSE di, target))

\* Mutant: the width the component had is kept.
MoveKeepsWidth(l, id, source, si, dest, di, position) ==
    LET moved == reorderItem(l, source, si, dest, di, position)
        row   == NthFresh(l, 1)
    IN IF shouldWrapChildInRow(l[dest].type, l[id].type)
       THEN Add(SetChildren(moved, dest, [moved[dest].children EXCEPT ![di + 1] = row]), row,
                Component("ROW", 0, <<moved[dest].children[di + 1]>>))
       ELSE moved

\* Mutant: a chart or a column lands in a grid or a tab without a row.
MoveNeverWraps(l, id, source, si, dest, di, position) ==
    LET moved == reorderItem(l, source, si, dest, di, position)
        w     == MoveWidth(l, id, source, dest)
    IN IF l[id].type \in Resizable
       THEN [moved EXCEPT ![id].width = Max({0, w})]
       ELSE moved

\* MOVE_COMPONENT.
Move(l, id, source, si, dest, di, position) ==
    LET moved == reorderItem(l, source, si, dest, di, position)
        w     == MoveWidth(l, id, source, dest)
        sized == IF l[id].type \in Resizable
                 THEN [moved EXCEPT ![id].width = Max({0, w})]
                 ELSE moved
        row   == NthFresh(l, 1)
    IN IF shouldWrapChildInRow(l[dest].type, l[id].type)
       THEN Add(SetChildren(sized, dest, [sized[dest].children EXCEPT ![di + 1] = row]), row,
                Component("ROW", 0, <<sized[dest].children[di + 1]>>))
       ELSE sized

\* The end of handleComponentDrop: a row or tabs whose only child was moved away
\* is deleted.
DropEmptySource(l, source) ==
    IF /\ source \in DOMAIN l /\ l[source].type \in {"TABS", "ROW"}
       /\ l[source].children = <<>> /\ ParentsOf(l, source) # {}
    THEN Delete(l, source, findParentId(l, source))
    ELSE l

------------------------------------------------------------------------------
Init ==
    layout = (Root :> Component("ROOT", 0, <<Grid>>)) @@ (Grid :> Component("GRID", 0, <<>>))

\* The components on the page: all but the grid that top-level tabs replace.
Rendered == Subtree(layout, Root)

\* A new component of the palette dropped into a container.
CreateComponent(type, dest, i) ==
    /\ dest # Root
    /\ isValidChild(layout, dest, type)
    /\ EnoughIds(layout, type, dest)
    /\ NewWidth(layout, type, dest) # Overflow
    /\ layout' = newEntitiesFromDrop(layout, type, dest, i)

\* The "add" button of tabs.
AddTab(tabs) ==
    /\ layout[tabs].type = "TABS"
    /\ EnoughIds(layout, "TAB", tabs)
    /\ layout' = newEntitiesFromDrop(layout, "TAB", tabs, Len(layout[tabs].children))

\* A component dropped into a container; among tabs it is dropped on another tab
\* and the position says on which half of it.
MoveComponent(id, dest, di, position) ==
    LET source == findParentId(layout, id)
        si     == IndexOf(layout[source].children, id)
        after  == Move(layout, id, source, si, dest, di, position)
    IN
    /\ id \notin {Root, Grid, TopLevel(layout)} /\ dest # Root
    /\ isValidChild(layout, dest, layout[id].type)
    /\ SelfDrops \/ dest \notin Subtree(layout, id)
    /\ IF layout[dest].type = "TABS"
       THEN /\ di < Len(layout[dest].children)
            /\ layout[dest].children[di + 1] # id
            /\ position \in {"LEFT", "RIGHT"}
            /\ ~(source = TopLevel(layout) /\ dest # source)
       ELSE position = "NONE"
    /\ ~(dest = source /\ di = si)
    /\ MoveWidth(layout, id, source, dest) # Overflow
    /\ shouldWrapChildInRow(layout[dest].type, layout[id].type)
           => EnoughIds(layout, "ROW", dest)
    /\ layout' = DropEmptySource(after, source)

\* Mutant: the grid keeps its children.
CreateTopLevelTabsCopies ==
    /\ TopLevel(layout) = Grid
    /\ EnoughIds(layout, "TABS", Root)
    /\ LET made == newEntitiesFromDrop(layout, "TABS", Root, 0)
           tabs == NthFresh(layout, 1)
           tab  == NthFresh(layout, 2)
       IN layout' = [made EXCEPT ![tab].children  = layout[Grid].children,
                                 ![Root].children = <<tabs>>]

\* New tabs dropped on the root: they take the children of the grid.
CreateTopLevelTabs ==
    /\ TopLevel(layout) = Grid
    /\ EnoughIds(layout, "TABS", Root)
    /\ LET made == newEntitiesFromDrop(layout, "TABS", Root, 0)
           tabs == NthFresh(layout, 1)
           tab  == NthFresh(layout, 2)
       IN layout' = [made EXCEPT ![tab].children  = layout[Grid].children,
                                 ![Grid].children = <<>>,
                                 ![Root].children = <<tabs>>]

\* Tabs of the dashboard dropped on the root: their first tab takes the other
\* children of the grid.
MoveToTopLevelTabs(tabs) ==
    LET source == findParentId(layout, tabs)
        tab    == Head(layout[tabs].children)
    IN
    /\ TopLevel(layout) = Grid
    /\ layout[tabs].type = "TABS" /\ layout[tabs].children # <<>>
    /\ NestedTabsToRoot \/ source = Grid
    /\ layout' = DropEmptySource(
           [layout EXCEPT ![Root].children = <<tabs>>,
                          ![Grid].children = <<>>,
                          ![tab].children  = @ \o SelectSeq(layout[Grid].children,
                                                            LAMBDA c : c # tabs)],
           source)

\* Mutant: only the first tab is emptied into the grid.
DeleteTopLevelTabsFirst ==
    LET tabs == TopLevel(layout)
        list == layout[tabs].children
    IN
    /\ layout[tabs].type = "TABS" /\ list # <<>>
    /\ layout' = [x \in DOMAIN layout \ ({tabs} \cup UNION {Subtree(layout, t) : t \in ToSet(Tail(list))}
                                          \cup {Head(list)}) |->
                     IF x = Root THEN [layout[Root] EXCEPT !.children = <<Grid>>]
                     ELSE IF x = Grid
                     THEN [layout[Grid] EXCEPT !.children = layout[Head(list)].children]
                     ELSE layout[x]]

\* The top-level tabs are deleted, their contents go to the grid.
DeleteTopLevelTabs ==
    LET tabs == TopLevel(layout)
        list == layout[tabs].children
    IN
    /\ layout[tabs].type = "TABS"
    /\ layout' = [x \in DOMAIN layout \ ({tabs} \cup ToSet(list)) |->
                     IF x = Root THEN [layout[Root] EXCEPT !.children = <<Grid>>]
                     ELSE IF x = Grid
                     THEN [layout[Grid] EXCEPT !.children =
                              FoldLeft(LAMBDA s, t : s \o layout[t].children, <<>>, list)]
                     ELSE layout[x]]

\* The delete button of a component.
DeleteComponent(id) ==
    /\ id \notin {Root, Grid, TopLevel(layout)}
    /\ layout' = Delete(layout, id, findParentId(layout, id))

\* The handle of a component in a row: it takes at most the room that is left in
\* the row, and a column stays as wide as the rows in it.
ResizeComponent(id, w) ==
    LET row == findParentId(layout, id) IN
    /\ layout[id].type \in Resizable /\ layout[row].type = "ROW"
    /\ w # layout[id].width
    /\ w >= DetailedWidth(layout, id).minimum
    /\ w <= layout[id].width + Available(layout, row) - TotalChildWidth(layout, row)
    /\ layout' = [layout EXCEPT ![id].width = w]

Next ==
    \/ \E type \in NewTypes, dest \in Rendered :
           \E i \in 0..Len(layout[dest].children) : CreateComponent(type, dest, i)
    \/ \E tabs \in DOMAIN layout : AddTab(tabs)
    \/ \E id \in Rendered, dest \in Rendered, position \in {"NONE", "LEFT", "RIGHT"} :
           \E di \in 0..Len(layout[dest].children) : MoveComponent(id, dest, di, position)
    \/ "TABS" \in NewTypes /\ CreateTopLevelTabs
    \/ \E tabs \in DOMAIN layout : MoveToTopLevelTabs(tabs)
    \/ DeleteTopLevelTabs
    \/ \E id \in DOMAIN layout : DeleteComponent(id)
    \/ \E id \in DOMAIN layout, w \in 1..Columns : ResizeComponent(id, w)

Spec == Init /\ [][Next]_vars

\* For TLC: trees that differ only in their ids are one state.  A component that is
\* in two lists, or in none, makes a difference.
RECURSIVE Shape(_, _)
Shape(l, id) ==
    <<l[id].type, l[id].width, [i \in DOMAIN l[id].children |-> Shape(l, l[id].children[i])]>>
ShapeView == <<Shape(layout, Root), Cardinality(DOMAIN layout),
               [id \in DOMAIN layout \ Rendered |-> layout[id]]>>

------------------------------------------------------------------------------
(* Properties.                                                             *)

\* The grid stays in the map while top-level tabs take its place, and is empty.
Hidden(l) == IF TopLevel(l) = Grid THEN {} ELSE {Grid}

\* The map is a tree under the root and nothing else: every id in a list of
\* children is a component, every component but the hidden grid is in exactly
\* one list and in it once, and it is reached from the root; the hidden grid has
\* no children.  Moves, deletions of whole subtrees and of rows left empty, and
\* the switch to and from top-level tabs all edit several lists.  The two drops
\* that SelfDrops and NestedTabsToRoot admit are the exceptions.
LayoutIsTree ==
    /\ \A id \in DOMAIN layout :
           /\ Children(layout, id) \subseteq DOMAIN layout
           /\ Len(layout[id].children) = Cardinality(Children(layout, id))
           /\ Cardinality(ParentsOf(layout, id)) =
                  IF id \in {Root} \cup Hidden(layout) THEN 0 ELSE 1
    /\ Subtree(layout, Root) = DOMAIN layout \ Hidden(layout)
    /\ \A id \in Hidden(layout) : layout[id].children = <<>>

\* Whatever is dropped or moved, and wherever the switch to and from top-level
\* tabs puts it, a component only has children of the types that isValidChild
\* lists for it; charts and columns always sit in a row or a column.
ChildrenHaveValidTypes ==
    \A id \in DOMAIN layout : \A c \in Children(layout, id) :
        /\ MaxParentDepth(layout[id].type, layout[c].type) >= 0
        /\ ~shouldWrapChildInRow(layout[id].type, layout[c].type)

\* A row in a tab of tabs that a column holds.
TabbedInColumn(l, id) ==
    /\ l[findParentId(l, id)].type = "TAB"
    /\ \E c \in DOMAIN l : l[c].type = "COLUMN" /\ id \in Subtree(l, c)

\* Whatever sequence of drops, moves and resizes made a row, its children never
\* take more columns than the row is rendered with: the room that the reducer
\* computes from the stored widths, the width a moved component is given, the
\* minimum of a column and the limits of the handles agree with what the page
\* passes down.  They do not agree for a row in tabs that a column holds: the
\* reducer gives it the whole grid, the page the width of the column; there the
\* children only fit the grid.
RowsFit ==
    \A id \in DOMAIN layout :
        layout[id].type = "ROW" =>
            TotalChildWidth(layout, id)
                <= IF TabbedInColumn(layout, id) THEN Columns ELSE Available(layout, id)

\* What a dashboard shows is only lost by deleting it: moving components and
\* switching to or from top-level tabs keep every chart, text and header.
Content(l) == {id \in DOMAIN l : l[id].type \notin {"ROOT", "GRID", "ROW", "TABS", "TAB"}}
Shown == Content(layout)
ContentOnlyDeleted ==
    [][Shown \subseteq Shown' \/ \E id \in DOMAIN layout : DeleteComponent(id)]_vars
==============================================================================
