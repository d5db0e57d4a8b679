------------------------------ MODULE ChildMap -------------------------------
(***************************************************************************)
(* What an inner node promises, whatever its type: a header (compressed    *)
(* prefix and terminal leaf) and a finite map from edge bytes to children. *)
(* The innerNode interface of types.go is this module; InnerNode gives the *)
(* four array layouts and is shown to implement it.                        *)
(*                                                                         *)
(* The specification follows one slot of a parent node: the inner node the *)
(* slot refers to is created, filled, emptied, and at last replaced by an  *)
(* heir (its terminal leaf, its only child, or nil).                       *)
(***************************************************************************)
EXTENDS NodeKinds

CONSTANTS
  Nodes,      \* the nodes a child slot or a terminal slot may refer to
  Prefixes,   \* the compressed prefixes a header may hold
  nil         \* the nil node interface value

VARIABLES
  kind,       \* the type of the node, "none" while the slot holds none
  prefix,
  terminal,
  children,   \* edge byte |-> child, a partial function on Byte
  heir        \* what the last node left in the parent's slot

cmVars == <<kind, prefix, terminal, children, heir>>

CMInit ==
  /\ kind = "none" /\ children = Empty
  /\ prefix \in Prefixes /\ terminal = nil /\ heir = nil

(***************************************************************************)
(* newNode4With and splitPrefixedInner: the new node4 has either a         *)
(* terminal and one child, or two children and no terminal.                *)
(***************************************************************************)
CMNewBranch(p, t, b, c) ==
  /\ kind = "none" /\ kind' = "node4"
  /\ prefix' = p /\ terminal' = t /\ heir' = nil
  /\ children' = [x \in {b} |-> c]

CMNewFork(p, b1, c1, b2, c2) ==
  /\ kind = "none" /\ kind' = "node4"
  /\ prefix' = p /\ terminal' = nil /\ heir' = nil
  /\ b1 # b2
  /\ children' = [x \in {b1, b2} |-> IF x = b1 THEN c1 ELSE c2]

CMSetPrefix(p) ==
  /\ kind # "none"
  /\ prefix' = p
  /\ UNCHANGED <<kind, terminal, children, heir>>

CMSetTerminal(t) ==
  /\ kind # "none" /\ terminal = nil
  /\ terminal' = t
  /\ UNCHANGED <<kind, prefix, children, heir>>

CMAddOrGrow(b, c) ==
  /\ kind # "none" /\ b \notin DOMAIN children
  /\ kind' = GrownKind(kind, Count(children))
  /\ children' = With(children, b, c)
  /\ UNCHANGED <<prefix, terminal, heir>>

CMReplaceChild(b, c) ==
  /\ kind # "none" /\ b \in DOMAIN children
  /\ children' = With(children, b, c)
  /\ UNCHANGED <<kind, prefix, terminal, heir>>

(***************************************************************************)
(* A node holding terminal t and children m is reshaped: it is dropped in  *)
(* favour of its terminal when no child is left, in favour of its only     *)
(* child when it is a node4 without terminal, and changes type otherwise.  *)
(***************************************************************************)
CMReshape(t, m) ==
  \/ /\ DOMAIN m = {}
     /\ heir' = t
     /\ kind' = "none" /\ children' = Empty /\ terminal' = nil
     /\ UNCHANGED prefix
  \/ /\ \E b \in Byte : DOMAIN m = {b} /\ heir' = m[b]
     /\ kind = "node4" /\ t = nil
     /\ kind' = "none" /\ children' = Empty /\ terminal' = nil
     /\ UNCHANGED prefix
  \/ /\ DOMAIN m # {}
     /\ ~ (kind = "node4" /\ t = nil /\ \E b \in Byte : DOMAIN m = {b})
     /\ kind' = ReshapedKind(kind, Count(m))
     /\ children' = m /\ terminal' = t
     /\ UNCHANGED <<prefix, heir>>

CMRemoveChild(b) ==
  /\ kind # "none" /\ b \in DOMAIN children
  /\ CMReshape(terminal, Without(children, b))

CMClearTerminal ==
  /\ kind # "none" /\ terminal # nil
  /\ CMReshape(nil, children)

CMNext ==
  \/ \E p \in Prefixes :
       \/ \E t, c \in Nodes, b \in Byte : CMNewBranch(p, t, b, c)
       \/ \E c1, c2 \in Nodes, b1, b2 \in Byte : CMNewFork(p, b1, c1, b2, c2)
       \/ CMSetPrefix(p)
  \/ \E t \in Nodes : CMSetTerminal(t)
  \/ \E b \in Byte, c \in Nodes : CMAddOrGrow(b, c) \/ CMReplaceChild(b, c)
  \/ \E b \in Byte : CMRemoveChild(b)
  \/ CMClearTerminal

CMSpec == CMInit /\ [][CMNext]_cmVars
=============================================================================
