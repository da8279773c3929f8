---------------------------- MODULE PortIdentity ----------------------------
(***************************************************************************)
(* How a serial port is recognised (src/profiles.rs) and which profile the *)
(* listing of the ports announces for it (src/tools/port_ops.rs).          *)
(*                                                                         *)
(* A port is a record of its path and the fields of its identity, "none"   *)
(* where the system reports nothing; rest stands for manufacturer, product *)
(* and hardware id, family for what a glob pattern can tell of its path    *)
(* and description.  A selector has the same fields, "any" where it does   *)
(* not ask.                                                                *)
(***************************************************************************)
EXTENDS FiniteSets, Naturals

IdentityFields == {"transport", "vid", "pid", "serial", "interface"}
SelectorFields == IdentityFields \cup {"rest", "family"}
AnySelector == [f \in SelectorFields |-> "any"]

is_empty(selector) == selector = AnySelector
matches(selector, port) == \A f \in SelectorFields : selector[f] \in {"any", port[f]}

HighConfidence(port) ==
  /\ port.transport = "usb" /\ port.vid # "none" /\ port.pid # "none"
  /\ port.serial \notin {"none", "empty"}

identity_confidence(port) ==
  CASE HighConfidence(port) -> "high"
    [] ~HighConfidence(port) /\ port.transport = "usb" /\ port.vid # "none" /\ port.pid # "none" -> "medium"
    [] ~HighConfidence(port) /\ (port.transport # "usb" \/ "none" \in {port.vid, port.pid})
         /\ (\/ \E f \in {"vid", "pid", "interface", "rest"} : port[f] # "none"
             \/ port.serial \notin {"none", "empty"}) -> "low"
    [] OTHER -> "none"

(* Only meaningful for two ports of high confidence.                       *)
high_identity(port) == [f \in IdentityFields |-> port[f]]

Asks(field) == IF field = "none" THEN "any" ELSE field
canonical_high_selector(port) ==
  [f \in SelectorFields |-> IF f \in IdentityFields THEN Asks(port[f]) ELSE "any"]
(* The selector save_profile stores: everything but the path.              *)
SavedSelector(port) == [f \in SelectorFields |-> IF f = "family" THEN "any" ELSE Asks(port[f])]

selector_matches_high_identity(selector, port) ==
  /\ \A f \in IdentityFields \ {"interface"} : selector[f] = port[f]
  /\ port.interface \in {"none", selector.interface}

(* Profiles are functions from names to records with a selector and the    *)
(* time of the last use.                                                   *)
Candidates(profiles, port) ==
  {n \in DOMAIN profiles : /\ matches(profiles[n].selector, port)
                           /\ selector_matches_high_identity(profiles[n].selector, port)}

(* The candidates that no other one was used after.                        *)
rank_candidates(profiles, candidates) ==
  {n \in candidates : \A m \in candidates : profiles[m].used <= profiles[n].used}

Duplicates(port, ports) ==
  {p \in ports : HighConfidence(p) /\ high_identity(p) = high_identity(port)}

-----------------------------------------------------------------------------
Match(outcome, selected) == [outcome |-> outcome, selected |-> selected]

weak_identity_profile_match(port, profiles) ==
  Match(IF \E n \in DOMAIN profiles : ~is_empty(profiles[n].selector) /\ matches(profiles[n].selector, port)
        THEN "ineligible" ELSE "none", "none")

(* Slip: the first of several equally recent candidates is taken.          *)
ranked_profile_match_first(profiles, eligible) ==
  Match("selected", CHOOSE n \in rank_candidates(profiles, eligible) : TRUE)

ranked_profile_match(profiles, eligible) ==
  LET ranked == rank_candidates(profiles, eligible)
  IN  IF Cardinality(ranked) = 1 THEN Match("selected", CHOOSE n \in ranked : TRUE)
      ELSE Match("ambiguous", "none")

(* What list_ports announces for a port.                                   *)
compute_profile_matches(port, ports, profiles) ==
  LET eligible == Candidates(profiles, port)
  IN  CASE ~HighConfidence(port) -> weak_identity_profile_match(port, profiles)
        [] HighConfidence(port) /\ Cardinality(Duplicates(port, ports)) > 1 -> Match("duplicate", "none")
        [] HighConfidence(port) /\ Cardinality(Duplicates(port, ports)) <= 1 /\ eligible = {} ->
             Match("none", "none")
        [] OTHER -> ranked_profile_match(profiles, eligible)
=============================================================================
