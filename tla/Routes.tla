------------------------------- MODULE Routes -------------------------------
(***************************************************************************)
(* The route of one call (nox-client/src/topology.ts): an entry, a mix and *)
(* an exit drawn at random from the verified nodes.  A node is a record    *)
(* [id, role, entry, probation]; role 1 is a relay, 2 and 3 are exits, and *)
(* entry says that the client can reach the node as an entry.  The random  *)
(* draws become sets: SelectRoute is every route one call of selectRoute   *)
(* may return, and it is empty when the call throws.                       *)
(***************************************************************************)
EXTENDS Integers, FiniteSets

LayersForRole(role) == IF role = 1 THEN {0, 1} ELSE {0, 1, 2}

Entries(nodes) == {n \in nodes : 0 \in LayersForRole(n.role) /\ n.entry}

Mixes(nodes) == {n \in nodes : 1 \in LayersForRole(n.role)}

Exits(nodes) == {n \in nodes : 2 \in LayersForRole(n.role) /\ n.role \in {2, 3}}

\* The first of two candidate sets that holds anything (pickRandom(a) ?? pickRandom(b)).
Prefer(first, second) == IF first # {} THEN first ELSE second

Settled(nodes) == {n \in nodes : ~n.probation}

PreferSettled(nodes) == Prefer(Settled(nodes), nodes)

WithinProbation(nodes, budget) == IF budget > 0 THEN nodes ELSE PreferSettled(nodes)

PreferNotAvoided(nodes, avoid) == Prefer({n \in nodes : n.id \notin avoid}, nodes)

\* Hops on probation among a set of nodes.
OnProbation(nodes) == Cardinality({n \in nodes : n.probation})

ById(nodes, ids) == {n \in nodes : n.id \in ids}

\* Pinned entry and selected exit are sets of at most one id.  The call is
\* refused when a pin is not among the nodes, when both are the same node, and
\* when both are on probation beyond the budget while a settled exit could serve.
PinsRefused(nodes, pinnedEntry, selectedExit, max) ==
  LET entry == ById(Entries(nodes), pinnedEntry)
      exit  == ById(Exits(nodes), selectedExit)
  IN \/ selectedExit # {} /\ exit = {}
     \/ pinnedEntry # {} /\ entry = {}
     \/ entry \cap exit # {}
     \/ /\ OnProbation(exit) = 1
        /\ OnProbation(entry) + OnProbation(exit) > max
        /\ \E n \in Settled(Exits(nodes)) : n.id \notin pinnedEntry

EntryChoices(nodes, pinnedEntry, exit, max) ==
  LET selectable == Entries(nodes) \ exit
      budget     == max - OnProbation(exit)
  IN IF pinnedEntry # {}
       THEN ById(Entries(nodes), pinnedEntry)
       ELSE Prefer(WithinProbation(selectable \ Exits(nodes), budget),
                   WithinProbation(selectable, budget))

MixChoices(nodes, entry, exit, avoid, max) ==
  LET eligible == Mixes(nodes) \ (exit \cup {entry})
      budget   == max - OnProbation(exit \cup {entry})
  IN Prefer(PreferNotAvoided(WithinProbation(eligible \ Exits(nodes), budget), avoid),
            PreferNotAvoided(WithinProbation(eligible, budget), avoid))

ExitChoices(nodes, entry, mix, exit, avoid, max) ==
  IF exit # {}
    THEN exit
    ELSE PreferNotAvoided(WithinProbation(Exits(nodes) \ {entry, mix},
                                          max - OnProbation({entry, mix})), avoid)

SelectRoute(nodes, pinnedEntry, selectedExit, avoid, max) ==
  LET exit == ById(Exits(nodes), selectedExit)
  IN IF PinsRefused(nodes, pinnedEntry, selectedExit, max)
       THEN {}
       ELSE UNION {UNION {{[entry |-> e, mix |-> m, exit |-> x] :
                             x \in ExitChoices(nodes, e, m, exit, avoid, max)} :
                          m \in MixChoices(nodes, e, exit, avoid, max)} :
                   e \in EntryChoices(nodes, pinnedEntry, exit, max)}

\* The exits a paid call may be sent to: every candidate outside excluded for
\* which a route exists, those not avoided first, and settled ones first when
\* the pinned entry is on probation (_pickPaidExit of client.ts).
PickPaidExit(nodes, capable, pinnedEntry, avoid, max) ==
  LET preferred   == PreferNotAvoided(ById(Exits(nodes), capable), avoid)
      served      == {x \in preferred : SelectRoute(nodes, pinnedEntry, {x.id}, avoid, max) # {}}
  IN IF OnProbation(ById(nodes, pinnedEntry)) > 0 THEN PreferSettled(served) ELSE served
=============================================================================
