--------------------------- MODULE DecisionLedger ---------------------------
(***************************************************************************)
(* What the decision workflow promises, with every proposal, handler and   *)
(* table left out: a business has a version number; a human may approve an *)
(* item against the version the business has at that moment; and the       *)
(* version advances only by committing an item that was approved against   *)
(* exactly the version it replaces.  Each step is recorded, once, under    *)
(* the version it produced.                                                *)
(***************************************************************************)
EXTENDS Naturals

CONSTANTS
  Businesses,   \* the businesses of one organization
  Items         \* what can be approved and committed

VARIABLES
  version,      \* version[b]: the current version of business b
  approved,     \* the approvals given: [business, item, version]
  entries       \* the decisions recorded: [business, item, version]

vars == <<version, approved, entries>>

Entry == [business : Businesses, item : Items, version : Nat \ {0}]

Init ==
  /\ version = [b \in Businesses |-> 1]
  /\ approved = {}
  /\ entries = {}

(* A human approves item i for the version business b has now. *)
Approve(b, i) ==
  /\ approved' = approved \cup {[business |-> b, item |-> i, version |-> version[b]]}
  /\ UNCHANGED <<version, entries>>

(* Item i becomes the decision that takes b from its version to the next. *)
Append(b, i) ==
  /\ [business |-> b, item |-> i, version |-> version[b]] \in approved
  /\ \A e \in entries : e.item # i
  /\ version' = [version EXCEPT ![b] = @ + 1]
  /\ entries' = entries \cup {[business |-> b, item |-> i, version |-> version[b] + 1]}
  /\ UNCHANGED approved

Next == \E b \in Businesses, i \in Items : Approve(b, i) \/ Append(b, i)

Spec == Init /\ [][Next]_vars

=============================================================================
