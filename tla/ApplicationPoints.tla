-------------------------- MODULE ApplicationPoints --------------------------
(***************************************************************************)
(* Where the connectivity templates of a blueprint are used.  The server   *)
(* lists its application points page by page; the client collects their    *)
(* templates into a map, one request per page, until a page is not full.   *)
(* Between two pages anybody may assign templates, and points may come and *)
(* go.  The tree in which the server sends the points is flattened: the    *)
(* client counts and collects only the nodes that have templates.          *)
(***************************************************************************)
EXTENDS Integers, Sequences, FiniteSets, SequencesExt

CONSTANTS
  Point,       (* the application points                                    *)
  Ct,          (* the connectivity templates                                *)
  NoCt,        (* none of them                                              *)
  PageSize,    (* objPolicyApplicationPageSizeValue                         *)
  MaxChanges   (* bound: changes on the server during a behaviour           *)

ASSUME PageAssumption == PageSize \in Nat \ {0} /\ NoCt \notin Ct

VARIABLES
  points,      (* server: its application points, in its order              *)
  uses,        (* server: what it says of a template at a point, or that it *)
               (* is not valid there                                        *)
  pagePc,      (* "idle" or "page"                                          *)
  asked,       (* the call: [force, ct, interesting]                        *)
  iterationCount,
  filled,      (* the map so far: <<point, template, state>>                *)
  mapped,      (* what the last call returned: [what, map]                  *)
  changes,     (* how often the server's state changed                      *)
  was,         (* history: what was true at some moment of the call         *)
  always,      (* history: what was listed at every moment of it            *)
  shifted      (* history: points came or went during the call              *)

pointVars == <<points, uses, pagePc, asked, iterationCount, filled, mapped, changes, was, always, shifted>>

States == {"used-directly", "unused"}
Listed(ps, u) == {l \in ToSet(ps) \X Ct : u[l[1]][l[2]] # "invalid"}
Facts(ps, u) == {<<l[1], l[2], u[l[1]][l[2]]>> : l \in Listed(ps, u)}
NoAsk == [force |-> FALSE, ct |-> NoCt, interesting |-> {}]
NoMap == [what |-> "none", map |-> {}]

PointInit ==
  /\ \E S \in SUBSET Point : IsFiniteSet(S) /\ points \in SetToSeqs(S)
  /\ uses \in [Point -> [Ct -> States \cup {"invalid"}]]
  /\ pagePc = "idle" /\ asked = NoAsk /\ iterationCount = 0
  /\ filled = {} /\ mapped = NoMap /\ changes = 0
  /\ was = {} /\ always = {} /\ shifted = FALSE

\* GetAllApplicationPointsConnectivityTemplates and the same by template add every point
\* they find; GetConnectivityTemplatesByApplicationPoints fills a map of given points.
AskPoints ==
  /\ pagePc = "idle"
  /\ \/ \E c \in Ct \cup {NoCt} : asked' = [force |-> TRUE, ct |-> c, interesting |-> {}]
     \/ \E S \in (SUBSET Point) \ {{}} : asked' = [force |-> FALSE, ct |-> NoCt, interesting |-> S]
  /\ pagePc' = "page"
  /\ iterationCount' = 0 /\ filled' = {}
  /\ mapped' = NoMap
  /\ was' = Facts(points, uses) /\ always' = Listed(points, uses) /\ shifted' = FALSE
  /\ UNCHANGED <<points, uses, changes>>

PointsReturn(result) ==
  /\ mapped' = result
  /\ pagePc' = "idle" /\ asked' = NoAsk
  /\ iterationCount' = 0 /\ filled' = {}
  /\ was' = {} /\ always' = {} /\ shifted' = FALSE
  /\ UNCHANGED <<points, uses, changes>>

PageFails == pagePc = "page" /\ PointsReturn([what |-> "error", map |-> {}])

\* A page that is not over-full is taken for the last one.
LastPageShort(n) == n <= PageSize

\* n < objPolicyApplicationPageSizeValue
LastPage(n) == n < PageSize

\* Where the server finds the points for the template, if one is asked for; each has its
\* number among them, and a page is a stretch of these numbers.
Found == {i \in DOMAIN points : \E c \in Ct : uses[points[i]][c] # "invalid" /\ asked.ct \in {NoCt, c}}
Number(i) == Cardinality({j \in Found : j <= i})
Page == {i \in Found : Number(i) - iterationCount * PageSize \in 1..PageSize}

\* fillMap, over the points of the page: what the map has of a point is overwritten.
FillMap(page) ==
  LET taken == {p \in {points[i] : i \in page} : asked.force \/ p \in asked.interesting}
      new == {f \in Facts(points, uses) : f[1] \in taken}
  IN  {f \in filled : ~\E g \in new : g[1] = f[1] /\ g[2] = f[2]} \cup new

\* One turn of the pagination loop, and the removal of other templates at its end.
ReadPage ==
  /\ pagePc = "page"
  /\ LET page == Page
         full == FillMap(page)
     IN  IF LastPage(Cardinality(page))
           THEN PointsReturn([what |-> "map", map |-> {f \in full : asked.ct \in {NoCt, f[2]}}])
           ELSE /\ filled' = full
                /\ iterationCount' = iterationCount + 1
                /\ UNCHANGED <<points, uses, pagePc, asked, mapped, changes, was, always, shifted>>

\* What the calls under way see of a change.
Watch ==
  /\ changes < MaxChanges
  /\ changes' = changes + 1
  /\ IF pagePc = "idle" THEN UNCHANGED <<was, always>>
     ELSE /\ was' = was \cup Facts(points', uses')
          /\ always' = always \cap Listed(points', uses')
  /\ UNCHANGED <<pagePc, asked, iterationCount, filled, mapped>>

\* SetApplicationPointConnectivityTemplates, the same for several points, and
\* DelApplicationPointConnectivityTemplates, of this client or another: each template
\* named is used or not from then on; a reply that is lost changes nothing here.
PatchPoints ==
  /\ \E p \in ToSet(points), new \in [Ct -> States \cup {"invalid"}] :
       /\ \A c \in Ct : (new[c] = "invalid") <=> (uses[p][c] = "invalid")
       /\ uses' = [uses EXCEPT ![p] = new]
  /\ uses' # uses
  /\ UNCHANGED <<points, shifted>>
  /\ Watch

\* A template becomes valid at a point, or ceases to be.
Revalidate ==
  /\ \E p \in ToSet(points), c \in Ct :
       uses' = [uses EXCEPT ![p][c] = IF @ = "invalid" THEN "unused" ELSE "invalid"]
  /\ shifted' = (shifted \/ pagePc = "page")
  /\ UNCHANGED points
  /\ Watch

\* An application point comes or goes.
MovePoints ==
  /\ \/ \E p \in Point \ ToSet(points), i \in 1..Len(points)+1 : points' = InsertAt(points, i, p)
     \/ \E i \in DOMAIN points : points' = RemoveAt(points, i)
  /\ shifted' = (shifted \/ pagePc = "page")
  /\ UNCHANGED uses
  /\ Watch

PointNext == AskPoints \/ PageFails \/ ReadPage \/ PatchPoints \/ Revalidate \/ MovePoints

PointSpec == PointInit /\ [][PointNext]_pointVars
-----------------------------------------------------------------------------
(* Properties.                                                             *)

\* A map collected over several pages says nothing that was not so at some moment of the
\* call, and unless the pages shifted under it, it has every point and template asked for
\* that was there all the time.
PagedReadComplete ==
  [][pagePc = "page" /\ mapped'.what = "map" =>
       /\ mapped'.map \subseteq was
       /\ \A l \in always :
            /\ asked.force \/ l[1] \in asked.interesting
            /\ asked.ct \in {NoCt, l[2]}
            => shifted \/ \E f \in mapped'.map : f[1] = l[1] /\ f[2] = l[2]]_pointVars
=============================================================================
