----------------------------- MODULE SessionRefs -----------------------------
(***************************************************************************)
(* What computer_use_mcp reads of the screen (the element tree and the     *)
(* document text of drivers/windows.py, the strict tree of gui_metadata.py, *)
(* the regions of region.py, the limits of ocr.py and document_text.py),   *)
(* and the refs that a session of core.py hands out for what it saw.       *)
(* A control can disappear, move, and come back as another object that has *)
(* its runtime id or its name.                                             *)
(*                                                                         *)
(* A control is [uid, native, role, name, words, box, state, secret,       *)
(* patterns, text, value, above]: uid is the object itself and its place   *)
(* in tree order, native its runtime id, words the queries that its name   *)
(* or role contains, above its ancestors. A box is [x, y, w, h]. Values,   *)
(* texts and titles are told apart by whose they are.                      *)
(***************************************************************************)
EXTENDS Integers, Sequences, FiniteSets, SequencesExt

CONSTANTS
    MaxNodes, MaxVisit, MaxBlocks, MaxPixels,
    Universe,       \* every control there can be, by uid
    WindowBox, Titles, Desktop,
    Scopes,         \* "foreground" and window ids
    MaxRefs         \* bound of the instance

Blank == ""     \* no name, no runtime id, no query
Boxes == [x : Int, y : Int, w : Int, h : Int]
Plain ==
    {"none"} \cup {c.value : c \in {d \in ToSet(Universe) : ~d.secret}}
    \cup {c.text : c \in {d \in ToSet(Universe) : ~d.secret /\
                            \A v \in d.above : ~Universe[v].secret}}
Contents == STRING \cup {"none"}
ControlRecords ==
    [uid : Nat, native : STRING, role : STRING, name : STRING, words : SUBSET STRING,
     box : Boxes, state : STRING, secret : BOOLEAN, patterns : SUBSET STRING,
     text : Contents, value : Contents, above : SUBSET Nat]
ASSUME UniverseAssumption ==
    /\ Universe \in Seq(ControlRecords)
    /\ \A u \in DOMAIN Universe : Universe[u].uid = u /\ Universe[u].above \subseteq 1..u - 1
ASSUME LimitAssumption == {MaxNodes, MaxVisit, MaxBlocks} \subseteq Nat
ASSUME DesktopAssumption == \A w \in Desktop : w.box \in Boxes
(* a secret and a title to hide are told from everything that may be shown *)
ASSUME SecretsAssumption ==
    /\ Titles \cap Plain = {}
    /\ \A c \in ToSet(Universe) : c.secret =>
         c.value \notin Plain \cup {w.title : w \in Desktop}

VARIABLES
    present,        \* the uids on the screen
    session,        \* [counter, node, native, owner, scope]
    cache,          \* native id -> uid, of the last walk of the tree
    told,           \* history: ref -> the role and name last shown for it
    shown,          \* history: every value and text shown
    pressed         \* history: the last accessibility action, [as, uid]
refVars == <<present, session, cache, told, shown, pressed>>

-----------------------------------------------------------------------------
(* What is read of the screen.                                             *)
Larger(a, b) == IF a > b THEN a ELSE b
Smaller(a, b) == IF a < b THEN a ELSE b
(* the first n of a set of numbers                                         *)
First(S, n) == {u \in S : Cardinality({v \in S : v <= u}) <= n}
Right(b) == b.x + b.w
Bottom(b) == b.y + b.h
Intersects(a, b) ==
    ~(b.x >= Right(a) \/ Right(b) <= a.x \/ b.y >= Bottom(a) \/ Bottom(b) <= a.y)
Within(a, b) ==
    a.x >= b.x /\ a.y >= b.y /\ Right(a) <= Right(b) /\ Bottom(a) <= Bottom(b)

ControlTypes == {"Button", "Edit", "Document", "Hyperlink"}

(* _maybe_node and the filter of find: shown, of a wanted type, matching    *)
Qualifies(c, window, types, query) ==
    /\ c.role \in types
    /\ c.state # "offscreen" /\ c.box.w > 0 /\ c.box.h > 0 /\ Intersects(window, c.box)
    /\ query = Blank \/ query \in c.words
ValueOf_Shown(c) == c.value
(* _read_value                                                             *)
ValueOf(c) == IF c.secret THEN "none" ELSE c.value
(* one control drawn twice: the wrapper of a named control has its box      *)
Same(c, d) == c.name # Blank /\ c.name = d.name /\ c.box = d.box

(* _get_tree: what one control adds to the tree, and the walk              *)
Merged(nodes, c) ==
    [i \in DOMAIN nodes |-> IF Same(nodes[i], c)
                            THEN [nodes[i] EXCEPT !.patterns = @ \cup c.patterns]
                            ELSE nodes[i]]
Visit(tree, c, window, types, query) ==
    LET wanted == Qualifies(c, window, types, query)
        seen == \E i \in DOMAIN tree.nodes : Same(tree.nodes[i], c)
    IN CASE ~wanted -> tree
         [] wanted /\ seen -> [tree EXCEPT !.nodes = Merged(@, c)]
         [] wanted /\ ~seen /\ Len(tree.nodes) < MaxNodes ->
              [tree EXCEPT !.nodes = Append(@, [c EXCEPT !.value = ValueOf(c)])]
         [] OTHER ->
              IF \E d \in tree.cut : Same(d, c) THEN tree
              ELSE [tree EXCEPT !.truncated = @ + 1, !.cut = @ \cup {c}]
GetTree(on, window, types, query) ==
    LET tree[n \in 0..Len(Universe)] ==
            IF n = 0 THEN [nodes |-> <<>>, truncated |-> 0, cut |-> {}]
            ELSE IF n \in First(on, MaxVisit)
            THEN Visit(tree[n - 1], Universe[n], window, types, query)
            ELSE tree[n - 1]
    IN tree[Len(Universe)]

(* get_document_text: the text of a subtree is read at its top, and nothing *)
(* under a password field is                                               *)
DocumentText(on) ==
    LET reached == {u \in on : \A v \in Universe[u].above :
                                 ~Universe[v].secret /\ Universe[v].text = "none"}
        visited == First(reached, MaxVisit)
        found == {u \in visited : ~Universe[u].secret /\ Universe[u].text \notin {"none", Blank}}
        kept == First(found, MaxBlocks)
    IN [blocks |-> {Universe[u].text : u \in kept},
        omitted |-> Cardinality(found \ kept),
        complete |-> visited = reached]

(* list_windows: what is visible, has a title or is a dialog, and an area   *)
Listed(windows) ==
    {w \in windows : w.visible /\ (w.title # Blank \/ w.dialog) /\ w.box.w > 0 /\ w.box.h > 0}

(* validate_region, redaction_boxes                                        *)
RegionAllowed(r) == r.x >= 0 /\ r.y >= 0 /\ r.w > 0 /\ r.h > 0 /\ r.w * r.h <= MaxPixels
RedactionBoxes(windows, region, titles) ==
    {[x |-> Larger(region.x, w.box.x) - region.x, y |-> Larger(region.y, w.box.y) - region.y,
      w |-> Smaller(Right(region), Right(w.box)) - Larger(region.x, w.box.x),
      h |-> Smaller(Bottom(region), Bottom(w.box)) - Larger(region.y, w.box.y)] :
        w \in {v \in windows : v.title \in titles /\ Intersects(region, v.box)}}
(* screenshot, capture_region: black where a listed title is               *)
Pixels(windows, region, titles) ==
    {p \in (0..region.w - 1) \X (0..region.h - 1) :
        \A b \in RedactionBoxes(windows, region, titles) :
            ~(p[1] >= b.x /\ p[1] < Right(b) /\ p[2] >= b.y /\ p[2] < Bottom(b))}

(* strict_tree: the actionable controls of the foreground window, or none   *)
(* at all when one of them is not certain                                  *)
Structural == {"Pane", "Group", "Window", "Text", "Custom"}
Actionable == {"Button", "Edit", "Document"}
StrictTree(on, window) ==
    LET acts == {u \in on : Universe[u].role \notin Structural}
        sound ==
            /\ Cardinality(on) <= MaxVisit /\ Cardinality(acts) <= MaxNodes
            /\ \A u \in acts :
                 /\ Universe[u].role \in Actionable /\ Universe[u].name # Blank
                 /\ Universe[u].native # Blank /\ Within(Universe[u].box, window)
                 /\ Universe[u].box.w > 0 /\ Universe[u].box.h > 0
                 /\ \A v \in acts : Universe[v].native = Universe[u].native => v = u
    IN [sound |-> sound, controls |-> IF sound THEN {Universe[u] : u \in acts} ELSE {}]
(* SessionGuiMetadata: refs of these controls, one to one                  *)
MetadataValid(state, refs) ==
    LET natives == {c.native : c \in state.controls}
    IN /\ state.sound /\ Cardinality(refs) <= MaxNodes
       /\ \A p, q \in refs : p.ref = q.ref \/ p.native = q.native => p = q
       /\ \A p \in refs : p.native \in natives

-----------------------------------------------------------------------------
(* The session.                                                            *)
Empty == [x \in {} |-> 0]
NoPress == [as |-> <<>>, uid |-> 0]
LabelOf(c) == <<c.role, c.name>>

RefInit ==
    /\ present = {}
    /\ session = [counter |-> 0, node |-> Empty, native |-> Empty,
                  owner |-> Empty, scope |-> Empty]
    /\ cache = Empty /\ told = Empty /\ shown = {} /\ pressed = NoPress

(* the screen changes: runtime ids are unique among what is there, and a    *)
(* control comes under its ancestors and goes with them                    *)
Disappear ==
    /\ \E u \in present : present' = {v \in present : v # u /\ u \notin Universe[v].above}
    /\ UNCHANGED <<session, cache, told, shown, pressed>>
Appear ==
    /\ \E u \in DOMAIN Universe \ present :
         /\ \A v \in present : Universe[v].native # Universe[u].native
         /\ Universe[u].above \subseteq present
         /\ present' = present \cup {u}
    /\ UNCHANGED <<session, cache, told, shown, pressed>>

With(f, x, v) == [y \in DOMAIN f \cup {x} |-> IF y = x THEN v ELSE f[y]]
Without(f, x) == [y \in DOMAIN f \ {x} |-> f[y]]
(* _node_cache, as a walk leaves it                                        *)
CacheOf(tree) ==
    LET named == {c \in ToSet(tree.nodes) : c.native # Blank}
    IN [n \in {c.native : c \in named} |-> (CHOOSE c \in named : c.native = n).uid]

(* _ref_for and _ingest: a known runtime id keeps its ref                  *)
IngestOne(acc, c, scope) ==
    LET known == c.native # Blank /\ c.native \in DOMAIN acc.owner
        ref == IF known THEN acc.owner[c.native] ELSE acc.counter + 1
    IN [counter |-> IF known THEN acc.counter ELSE acc.counter + 1,
        node |-> With(acc.node, ref, c),
        native |-> With(acc.native, ref, c.native),
        owner |-> IF c.native = Blank THEN acc.owner ELSE With(acc.owner, c.native, ref),
        scope |-> IF known THEN acc.scope ELSE With(acc.scope, ref, scope)]
Ingest(s, nodes, scope) ==
    LET after[n \in 0..Len(nodes)] ==
            IF n = 0 THEN s ELSE IngestOne(after[n - 1], nodes[n], scope)
    IN after[Len(nodes)]
(* ui_snapshot and find                                                    *)
Snapshot(scope, query) ==
    LET tree == GetTree(present, WindowBox, ControlTypes, query)
        after == Ingest(session, tree.nodes, scope)
    IN /\ after.counter <= MaxRefs
       /\ session' = after /\ cache' = CacheOf(tree)
       /\ told' = [r \in DOMAIN after.node |->
                     IF after.node[r] \in ToSet(tree.nodes) THEN LabelOf(after.node[r])
                     ELSE told[r]]
       /\ shown' = shown \cup {c.value : c \in ToSet(tree.nodes)}
       /\ UNCHANGED <<present, pressed>>
ReadDocument ==
    /\ shown' = shown \cup DocumentText(present).blocks
    /\ UNCHANGED <<present, session, cache, told, pressed>>
(* capture_region: whatever the titles hide is black                       *)
CaptureRegion(region) ==
    /\ RegionAllowed(region)
    /\ shown' = shown \cup
         {w.title : w \in {v \in Listed(Desktop) :
            \E p \in Pixels(Listed(Desktop), region, Titles) :
                /\ p[1] + region.x >= v.box.x /\ p[1] + region.x < Right(v.box)
                /\ p[2] + region.y >= v.box.y /\ p[2] + region.y < Bottom(v.box)}}
    /\ UNCHANGED <<present, session, cache, told, pressed>>

(* _resolve: the object seen, while it is still there                      *)
Resolves(native, memory) == native \in DOMAIN memory /\ memory[native] \in present
Distance(a, b) ==
    LET Abs(n) == IF n < 0 THEN -n ELSE n
    IN Abs(a.x + a.w \div 2 - b.x - b.w \div 2) + Abs(a.y + a.h \div 2 - b.y - b.h \div 2)
Relocated_AnyName(tree, node) ==
    {c \in ToSet(tree.nodes) : c.role = node.role /\ c.native # Blank}
(* _relocate: the nearest control of the same role and name                *)
Relocated(tree, node) ==
    {c \in ToSet(tree.nodes) :
        /\ LabelOf(c) = LabelOf(node) /\ c.native # Blank
        /\ \A d \in ToSet(tree.nodes) :
             LabelOf(d) = LabelOf(node) /\ d.native # Blank =>
                Distance(c.box, node.box) <= Distance(d.box, node.box)}
Rebind_Keeping(s, ref, c) ==
    [s EXCEPT !.node[ref] = c, !.native[ref] = c.native, !.owner = With(@, c.native, ref)]
(* _rebind                                                                 *)
Rebind(s, ref, c) ==
    LET freed == IF s.native[ref] # c.native /\ s.native[ref] \in DOMAIN s.owner
                    /\ s.owner[s.native[ref]] = ref
                 THEN Without(s.owner, s.native[ref]) ELSE s.owner
    IN [s EXCEPT !.node[ref] = c, !.native[ref] = c.native,
                 !.owner = With(freed, c.native, ref)]

(* _act_on_ref through accessibility: pressed at once, or found again in    *)
(* its window                                                              *)
Press(ref) ==
    LET node == session.node[ref]
        native == session.native[ref]
        tree == GetTree(present, WindowBox, {node.role},
                        IF node.name = Blank THEN node.role ELSE node.name)
    IN /\ ref \in DOMAIN session.node /\ native # Blank
       /\ \/ /\ Resolves(native, cache)
             /\ pressed' = [as |-> told[ref], uid |-> cache[native]]
             /\ UNCHANGED <<session, cache>>
          \/ /\ ~Resolves(native, cache)
             /\ session.scope[ref] \notin {"foreground", "all"}
             /\ cache' = CacheOf(tree)
             /\ \/ /\ Relocated(tree, node) = {}
                   /\ UNCHANGED <<session, pressed>>
                \/ \E c \in Relocated(tree, node) :
                     IF c.native \in DOMAIN session.owner /\ session.owner[c.native] # ref
                     THEN UNCHANGED <<session, pressed>>
                     ELSE /\ session' = Rebind(session, ref, c)
                          /\ pressed' = [as |-> told[ref], uid |-> c.uid]
       /\ UNCHANGED <<present, told, shown>>
(* inspect_gui_observation                                                 *)
MetadataRefs(scope) ==
    LET state == StrictTree(present, WindowBox)
        natives == {c.native : c \in state.controls}
    IN {[ref |-> r, native |-> session.native[r]] :
          r \in {q \in DOMAIN session.native :
                   session.native[q] \in natives /\ session.scope[q] = scope}}

RefNext ==
    \/ Disappear \/ Appear \/ ReadDocument
    \/ \E s \in Scopes, q \in {Blank, "ok"} : Snapshot(s, q)
    \/ \E w \in {2, 4} : CaptureRegion([x |-> 0, y |-> 0, w |-> w, h |-> 2])
    \/ \E ref \in DOMAIN session.node : Press(ref)

SessionSpec == RefInit /\ [][RefNext]_refVars

-----------------------------------------------------------------------------
(* core.py:207-262 and windows.py:830: an accessibility action on a ref     *)
(* presses a control of the role and name the caller was last shown for    *)
(* it, whatever came and went on the screen and whichever ids were reused. *)
PressesTheNamed ==
    pressed # NoPress => LabelOf(Universe[pressed.uid]) = pressed.as

(* core.py:189-197,245-262: no two refs stand for one runtime id, so the    *)
(* metadata of a window names each control once.                           *)
RefsOneToOne ==
    /\ \A n \in DOMAIN session.owner : session.native[session.owner[n]] = n
    /\ \A r \in DOMAIN session.native : session.native[r] # Blank =>
         session.owner[session.native[r]] = r
    /\ \A s \in Scopes : StrictTree(present, WindowBox).sound =>
         MetadataValid(StrictTree(present, WindowBox), MetadataRefs(s))

(* windows.py:690,786 and server.py:608,662: what a password field holds,   *)
(* and a window whose title is redacted, is never shown.                   *)
SecretsHidden ==
    /\ \A u \in DOMAIN Universe : Universe[u].secret => Universe[u].value \notin shown
    /\ shown \cap Titles = {}

(* A ref means one control: the one that its caller was shown.             *)
RefsMeanOneControl == PressesTheNamed /\ RefsOneToOne
=============================================================================
