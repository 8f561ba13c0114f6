---------------------------- MODULE TopologyCheck ----------------------------
(* Whether a topology may be stored: validate_energy_topology                *)
(* (energy_platform.py:115-211) and validate_topology of the twin            *)
(* (digital_twin.py:196-240), with the depth-first search of _has_cycle and  *)
(* the worklist of _reachable taken step by step, in every order in which    *)
(* the payload may list its relationships. One payload is put to both; its   *)
(* assets are known, distinct and of legal types and ratings, so that what   *)
(* can go wrong is the containment.                                          *)
EXTENDS Naturals, Sequences

CONSTANTS
    Assets,
    Root            \* the one portfolio, park or site; the key "station"

ASSUME CheckAssumption == Root \in Assets

VARIABLES
    contains,       \* pairs <<source, target>> of contains relationships
    doubled,        \* one of them is listed twice; nothing asks before the end
    phase,          \* search, reach or done
    sources,        \* keys of the graph that the search has still to visit
    stack,          \* calls of visit: [node, children it has still to visit]
    visiting, visited,
    cyclic,         \* what _has_cycle returns
    frontier, reached,
    valid           \* the validators, "energy" and "twin", that accept

searchVars == <<sources, stack, visiting, visited, cyclic>>
checkVars == <<contains, doubled, phase, searchVars, frontier, reached, valid>>

Children(a) == {b \in Assets : <<a, b>> \in contains}
Containers(b) == {a \in Assets : <<a, b>> \in contains}
Uncontained == {a \in Assets \ {Root} : Containers(a) = {}}

CheckTypeOK ==
    /\ contains \subseteq Assets \X Assets
    /\ doubled \in BOOLEAN /\ cyclic \in BOOLEAN
    /\ phase \in {"search", "reach", "done"}
    /\ sources \subseteq Assets
    /\ stack \in Seq([node: Assets, left: SUBSET Assets])
    /\ visiting \subseteq Assets /\ visited \subseteq Assets
    /\ frontier \subseteq Assets /\ reached \subseteq Assets
    /\ valid \subseteq {"energy", "twin"}

CheckInit ==
    /\ contains \in SUBSET (Assets \X Assets)
    /\ doubled = FALSE
    /\ phase = "search"
    /\ sources = {a \in Assets : Children(a) # {}}
    /\ stack = <<>>
    /\ visiting = {} /\ visited = {}
    /\ cyclic = FALSE
    /\ frontier = {} /\ reached = {}
    /\ valid = {}

(* The call visit(n) from a caller that leaves calls on the stack.          *)
Visit(n, calls_) ==
    /\ cyclic' = (n \in visiting)
    /\ IF n \in visiting \cup visited
       THEN stack' = calls_ /\ UNCHANGED visiting
       ELSE /\ stack' = <<[node |-> n, left |-> Children(n)]>> \o calls_
            /\ visiting' = visiting \cup {n}
    /\ UNCHANGED <<visited, contains, doubled, phase, frontier, reached, valid>>

VisitSource(n) ==
    /\ phase = "search" /\ ~cyclic
    /\ stack = <<>> /\ n \in sources
    /\ sources' = sources \ {n}
    /\ Visit(n, stack)

VisitChild(n) ==
    /\ phase = "search" /\ ~cyclic
    /\ stack # <<>> /\ n \in Head(stack).left
    /\ UNCHANGED sources
    /\ Visit(n, <<[Head(stack) EXCEPT !.left = @ \ {n}]>> \o Tail(stack))

(* A search that forgets to take the node off the path.                     *)
LeaveNodeVisiting ==
    /\ phase = "search" /\ ~cyclic
    /\ stack # <<>> /\ Head(stack).left = {}
    /\ visited' = visited \cup {Head(stack).node}
    /\ stack' = Tail(stack)
    /\ UNCHANGED <<visiting, sources, cyclic, contains, doubled, phase, frontier, reached, valid>>

LeaveNode ==
    /\ phase = "search" /\ ~cyclic
    /\ stack # <<>> /\ Head(stack).left = {}
    /\ visiting' = visiting \ {Head(stack).node}
    /\ visited' = visited \cup {Head(stack).node}
    /\ stack' = Tail(stack)
    /\ UNCHANGED <<sources, cyclic, contains, doubled, phase, frontier, reached, valid>>

SearchEnds ==
    /\ phase = "search"
    /\ cyclic \/ (stack = <<>> /\ sources = {})
    /\ phase' = "reach"
    /\ frontier' = Children(Root)
    /\ UNCHANGED <<searchVars, contains, doubled, reached, valid>>

ReachNode(n) ==
    /\ phase = "reach" /\ n \in frontier
    /\ frontier' = (frontier \ {n}) \cup (IF n \in reached THEN {} ELSE Children(n))
    /\ reached' = reached \cup {n}
    /\ UNCHANGED <<searchVars, contains, doubled, phase, valid>>

(* The twin accepts several containers, and only warns of orphaned assets.  *)
TwinAccepts == ~cyclic /\ \A a \in Assets : a \notin Children(a)
EnergyAccepts(doubled_) ==
    /\ TwinAccepts
    /\ Assets \ (reached \cup {Root}) = {}
    /\ ~doubled_ /\ \A a, b, c \in Assets : {a, b} \subseteq Containers(c) => a = b

Conclude ==
    /\ phase = "reach" /\ frontier = {}
    /\ phase' = "done"
    /\ doubled' \in {FALSE, contains # {}}
    /\ valid' = (IF TwinAccepts THEN {"twin"} ELSE {})
                \cup (IF EnergyAccepts(doubled') THEN {"energy"} ELSE {})
    /\ UNCHANGED <<searchVars, contains, frontier, reached>>

CheckNext ==
    \/ \E n \in Assets : VisitSource(n) \/ VisitChild(n) \/ ReachNode(n)
    \/ LeaveNode \/ SearchEnds \/ Conclude

CheckSpec == CheckInit /\ [][CheckNext]_checkVars

-----------------------------------------------------------------------------
(* The reference: in an acyclic containment every group of assets has one   *)
(* that contains none of the group; what the root reaches is in every group *)
(* that has the root and all that its members contain.                      *)
Acyclic == \A S \in (SUBSET Assets) \ {{}} : \E a \in S : Children(a) \cap S = {}
RootReachesAll ==
    \A S \in SUBSET Assets :
        Root \in S /\ (\A a \in S : Children(a) \subseteq S) => S = Assets

(* In whatever order the search goes, an energy topology is valid exactly   *)
(* when its containment is a tree under the root, each relationship listed  *)
(* once; a twin topology exactly when it is acyclic, and without a warning  *)
(* of orphans the station reaches all of it (energy_platform.py:166-175,    *)
(* 854-882; digital_twin.py:226-231, 1078-1096).                            *)
VerdictIsRight ==
    phase = "done" =>
        /\ "energy" \in valid <=>
                /\ Acyclic /\ RootReachesAll /\ ~doubled
                /\ Containers(Root) = {}
                /\ \A a, b, c \in Assets : {a, b} \subseteq Containers(c) => a = b
        /\ "twin" \in valid <=> Acyclic
        /\ "twin" \in valid /\ Uncontained = {} => RootReachesAll
=============================================================================
