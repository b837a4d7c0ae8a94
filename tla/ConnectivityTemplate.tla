------------------------ MODULE ConnectivityTemplate ------------------------
(***************************************************************************)
(* Connectivity templates: trees of primitives which the API knows only as *)
(* a flat set of policies that point at each other.  A primitive is a      *)
(* "pipeline" policy, which points at the policy with the attributes and,  *)
(* if the primitive has children, at a "batch" policy that lists the       *)
(* children's pipelines; the template is a visible batch.  The program     *)
(* flattens a tree to write it, and follows the pointers to read it.       *)
(*                                                                         *)
(* The primitives of a tree are numbered from the root down, and siblings  *)
(* stand in the order of their numbers.  What a primitive says is left out *)
(* (module Conversions).                                                   *)
(***************************************************************************)
EXTENDS Integers, Sequences, FiniteSets, Functions, SequencesExt

CONSTANTS
  Template,    (* the connectivity templates                                *)
  Primitive,   (* the primitives, 1..n                                      *)
  Home         (* the template each primitive belongs to                    *)

ASSUME HomeAssumption ==
  /\ IsFiniteSet(Primitive) /\ Primitive = 1..Cardinality(Primitive)
  /\ Template \cap Primitive = {}
  /\ Home \in [Primitive -> Template]

CONSTANTS
  Gone,        (* the parent of a primitive that is in no tree              *)
  NoPolicy,    (* a policy that does not exist                              *)
  Unset,       (* no position                                               *)
  MaxEdits     (* bound: changes of the trees, lost replies, lacking exports*)

ASSUME GoneAssumption == Gone \notin Template \cup Primitive
ASSUME NoPolicyAssumption == NoPolicy \notin BOOLEAN \cup Seq(Primitive)

VARIABLES
  parent,      (* the caller's trees: the template, primitive or Gone       *)
  batchIds,    (* primitives whose BatchId is set                           *)
  positions,   (* UserData: where each primitive is drawn, Unset if nowhere *)
  actuals,     (* server: primitives whose own policy exists                *)
  pipelines,   (* server: their pipelines; is there a SecondSubpolicy?      *)
  batches,     (* server: the batches, sequences of primitives              *)
  visible,     (* server: the templates                                     *)
  written,     (* history: the trees each template may have on the server   *)
  ctResult,    (* what the last read returned: [what, ct, tree, lacked]     *)
  ctEdits      (* how many of these there have been                         *)

serverPolicies == <<actuals, pipelines, batches, visible>>
ctVars == <<parent, batchIds, positions, serverPolicies, written, ctResult, ctEdits>>

-----------------------------------------------------------------------------
(* Trees.                                                                  *)

Sorted(S) == [i \in 1..Cardinality(S) |-> CHOOSE m \in S : Cardinality({k \in S : k <= m}) = i]
Kids(n) == Sorted({m \in Primitive : parent[m] = n})
Drawn(ct) == {n \in Primitive : Home[n] = ct /\ parent[n] # Gone}

\* The pointers of a tree: which primitive is the i-th child of which.
Pointers(n, kids) == {<<n, i, kids[i]>> : i \in DOMAIN kids}
TreeOf(ct) == UNION {Pointers(n, Kids(n)) : n \in {ct} \cup Drawn(ct)}

Trees ==
  {p \in [Primitive -> Template \cup Primitive \cup {Gone}] :
     \A n \in Primitive :
       \/ p[n] \in {Gone, Home[n]}
       \/ p[n] \in Primitive /\ p[n] < n /\ Home[p[n]] = Home[n] /\ p[p[n]] # Gone}

\* The batch ID of a primitive that once had children is sent although it has none left.
SecondSubpolicyAlways(n) == n \in batchIds'

\* rawPipeline: does the pipeline point at a batch?
SecondSubpolicy(n) == Kids(n) # <<>>
-----------------------------------------------------------------------------
(* Positions.                                                              *)

xInitialPosition == 290
yInitialPosition == 80
xSpacing == 200
ySpacing == 70

\* positions: how many columns the tree of a primitive takes, one if it has no children
WidthOf ==
  LET width[n \in Primitive] ==
        LET kids == Kids(n) IN
        IF kids = <<>> THEN 1
        ELSE FoldFunctionOnSet(+, 0, [m \in ToSet(kids) |-> width[m]], ToSet(kids))
  IN  width

\* Every child is drawn in its parent's column.
OffsetNone(kids, m) == 0

\* A child is drawn right of the trees of its elder siblings.
Offset(kids, m) ==
  LET elder == {k \in ToSet(kids) : k < m}
  IN  FoldFunctionOnSet(+, 0, [k \in elder |-> WidthOf[k]], elder)

\* SetUserData: the column of the i-th tree.  The width grows only by a tree that is wider
\* than all before it together.
TopColumn(kids) ==
  LET width[i \in 0..Len(kids)] ==
        IF i = 0 THEN 0
        ELSE LET w == WidthOf[kids[i]] IN width[i-1] + (IF w > width[i-1] THEN w ELSE 0)
  IN  [i \in DOMAIN kids |-> width[i-1]]

PositionsOf(ct) ==
  LET top == Kids(ct)
      at[n \in Drawn(ct)] ==
        IF parent[n] = ct
          THEN [x |-> xInitialPosition + TopColumn(top)[CHOOSE i \in DOMAIN top : top[i] = n] * xSpacing,
                y |-> yInitialPosition]
          ELSE [x |-> at[parent[n]].x + Offset(Kids(parent[n]), n) * xSpacing,
                y |-> at[parent[n]].y + ySpacing]
  IN  at
-----------------------------------------------------------------------------
NoResult == [what |-> "none"]

CtInit ==
  /\ parent = [n \in Primitive |-> Gone]
  /\ batchIds = {}
  /\ positions = [n \in Primitive |-> Unset]
  /\ actuals = {} /\ visible = {}
  /\ pipelines = [n \in Primitive |-> NoPolicy]
  /\ batches = [n \in Template \cup Primitive |-> NoPolicy]
  /\ written = [ct \in Template |-> {}]
  /\ ctResult = NoResult
  /\ ctEdits = 0

\* The caller builds a tree, or adds, moves and removes primitives of one it holds.
EditCt ==
  /\ ctEdits < MaxEdits
  /\ ctEdits' = ctEdits + 1
  /\ \E ct \in Template :
       /\ parent' \in {p \in Trees : \A n \in Primitive : Home[n] # ct => p[n] = parent[n]}
       /\ parent' # parent
       /\ positions' = [n \in Primitive |-> IF Home[n] = ct THEN Unset ELSE positions[n]]
  /\ ctResult' = NoResult
  /\ UNCHANGED <<batchIds, serverPolicies, written>>

\* setIds, for every primitive of the tree: one that has children gets a batch ID.  Its own
\* ID and its pipeline's are always set.
SetIds(ct) == batchIds' = batchIds \cup {n \in Drawn(ct) : Kids(n) # <<>>}

\* SetIds and SetUserData, called by the application.
LayOut ==
  /\ \E ct \in Template :
       /\ Drawn(ct) # {}
       /\ SetIds(ct)
       /\ positions' = [n \in Primitive |-> IF n \in Drawn(ct) THEN PositionsOf(ct)[n] ELSE positions[n]]
  /\ ctResult' = NoResult
  /\ UNCHANGED <<parent, serverPolicies, written, ctEdits>>

\* raw, rawPipeline and rawBatch: the policies of the tree are written; what the server has
\* of the template besides these it keeps or drops.
Import(ct) ==
  LET sent == Drawn(ct)
      withKids == {n \in sent : SecondSubpolicy(n)}
  IN  /\ visible' = visible \cup {ct}
      /\ \E kept \in {{}, {n \in Primitive : Home[n] = ct}} :
           /\ actuals' = (actuals \ ({n \in Primitive : Home[n] = ct} \ kept)) \cup sent
           /\ pipelines' = [n \in Primitive |->
                IF n \in sent THEN n \in withKids
                ELSE IF Home[n] = ct /\ n \notin kept THEN NoPolicy ELSE pipelines[n]]
           /\ batches' = [n \in Template \cup Primitive |->
                IF n = ct \/ (n \in sent /\ Kids(n) # <<>>) THEN Kids(n)
                ELSE IF n \in Primitive /\ Home[n] = ct /\ n \notin kept THEN NoPolicy
                ELSE batches[n]]

\* CreateConnectivityTemplate, UpdateConnectivityTemplate: one PUT, whose reply may be lost.
WriteCt ==
  /\ \E ct \in Template :
       /\ SetIds(ct)
       /\ \/ /\ Import(ct)
             /\ written' = [written EXCEPT ![ct] = {TreeOf(ct)}]
             /\ UNCHANGED ctEdits
          \/ /\ ctEdits < MaxEdits
             /\ ctEdits' = ctEdits + 1
             /\ Import(ct) \/ UNCHANGED serverPolicies
             /\ written' = [written EXCEPT ![ct] = @ \cup {TreeOf(ct)}]
  /\ ctResult' = NoResult
  /\ UNCHANGED <<parent, positions>>

\* DeleteConnectivityTemplate: the server deletes the policies of the tree with it.
DeleteCt ==
  /\ \E ct \in visible :
       /\ visible' = visible \ {ct}
       /\ actuals' = {n \in actuals : Home[n] # ct}
       /\ pipelines' = [n \in Primitive |-> IF Home[n] = ct THEN NoPolicy ELSE pipelines[n]]
       /\ batches' = [n \in Template \cup Primitive |->
            IF n = ct \/ (n \in Primitive /\ Home[n] = ct) THEN NoPolicy ELSE batches[n]]
       /\ written' = [written EXCEPT ![ct] = {}]
  /\ ctResult' = NoResult
  /\ UNCHANGED <<parent, batchIds, positions, ctEdits>>
-----------------------------------------------------------------------------
(* Reading.  An export has every policy of the template, or lacks one.     *)

Lacks(kind, n) == [kind |-> kind, of |-> n]
Whole == Lacks("nothing", Unset)

\* The children that parsePrimitiveTreeByPipelineId finds: those in the batch, if the
\* pipeline names one and the export has it.
Children(n, lacked) ==
  IF n \in Primitive /\ (pipelines[n] = FALSE \/ lacked = Lacks("batch", n)) THEN <<>>
  ELSE IF batches[n] = NoPolicy THEN <<>> ELSE batches[n]

\* parsePrimitiveTreeByPipelineId: the primitives below n, and the ones that are an error
Below(lacked) ==
  LET below[n \in Template \cup Primitive] ==
        LET kids == ToSet(Children(n, lacked))
        IN  kids \cup UNION {below[k] : k \in {m \in kids : pipelines[m] # NoPolicy}}
  IN  below

Unreadable(n, lacked) ==
  \/ pipelines[n] = NoPolicy \/ lacked = Lacks("pipeline", n)
  \/ n \notin actuals \/ lacked = Lacks("actual", n)

\* polish: the tree of the template, or an error
Polish(ct, lacked) ==
  LET found == Below(lacked)[ct]
  IN  IF \E n \in found : Unreadable(n, lacked)
        THEN [what |-> "error"]
        ELSE [what |-> "tree", ct |-> ct, lacked |-> lacked,
              tree |-> UNION {Pointers(n, Children(n, lacked)) : n \in {ct} \cup found}]

\* The caller holds the tree it has read.
Hold(ct, tree) ==
  LET found == {e[3] : e \in tree} IN
  /\ parent' = [n \in Primitive |->
       IF n \in found THEN (CHOOSE e \in tree : e[3] = n)[1]
       ELSE IF Home[n] = ct THEN Gone ELSE parent[n]]
  /\ batchIds' = {n \in batchIds : Home[n] # ct} \cup ({e[1] : e \in tree} \cap Primitive)

\* GetConnectivityTemplate; GetAllConnectivityTemplates does the same for every visible ID.
ReadCt ==
  /\ \E ct \in visible :
       \E lacked \in {Whole} \cup {Lacks(k, n) : k \in {"pipeline", "actual", "batch"},
                                               n \in {m \in Primitive : Home[m] = ct}} :
         /\ IF lacked = Whole THEN UNCHANGED ctEdits
            ELSE ctEdits < MaxEdits /\ ctEdits' = ctEdits + 1
         /\ ctResult' = Polish(ct, lacked)
         /\ IF ctResult'.what = "tree"
              THEN /\ Hold(ct, ctResult'.tree)
                   /\ positions' = [n \in Primitive |-> IF Home[n] = ct THEN Unset ELSE positions[n]]
              ELSE UNCHANGED <<parent, batchIds, positions>>
  /\ UNCHANGED <<serverPolicies, written>>

CtNext == EditCt \/ LayOut \/ WriteCt \/ DeleteCt \/ ReadCt

CtSpec == CtInit /\ [][CtNext]_ctVars
-----------------------------------------------------------------------------
(* Properties.                                                             *)

\* A template that is read is the tree that was last written, however often its primitives
\* were moved, given children or left without any before, and whatever the server keeps of
\* the policies that no longer belong to it.  Only a batch that the export lacks goes
\* unnoticed: the primitive is then read without its children.
ReadsWhatWasWritten ==
  ctResult.what = "tree" =>
    \/ ctResult.tree \in written[ctResult.ct]
    \/ /\ ctResult.lacked.kind = "batch"
       /\ \E tree \in written[ctResult.ct] :
            /\ ctResult.tree \subseteq tree
            /\ \E e \in tree : e[1] = ctResult.lacked.of

\* The trees of a laid-out template do not fold over themselves: two primitives below the
\* same top-level one are drawn in different places.
Above ==
  LET top[n \in Primitive] == IF parent[n] \in Primitive THEN top[parent[n]] ELSE n
  IN  top

TreesUnfold ==
  \A m, n \in Primitive :
    m # n /\ positions[m] # Unset /\ positions[n] # Unset /\ Above[m] = Above[n] => positions[m] # positions[n]
=============================================================================
