---------------------------- MODULE RoutingTable ----------------------------
(***************************************************************************)
(* What the destinations service promises of a reconciliation, with no    *)
(* intermediate states.  updateDestinations (src/unnamed/part_000, lines  *)
(* 146-159) receives a snapshot; Service.init (lines 162-276) then        *)
(* replaces the registry and the routing by a new pair in one step.       *)
(*                                                                         *)
(*  - Every unit left is a destination of the last snapshot received,     *)
(*    none other survives (lines 166-179), and each is built from its     *)
(*    own configuration with the tokens resolved (lines 190-198); a       *)
(*    destination may be missing (its tokens not loaded, its factory call *)
(*    failed).                     *)
(*  - A unit whose resolved configuration did not change is the same      *)
(*    instance (lines 199-203).                                           *)
(*  - GetDestinationIDs serves exactly the non-staged units, under each of*)
(*    their tokens (lines 240-245, merged at 272).                        *)
(*                                                                         *)
(* Which token ids the resolution saw is left open: the authorization     *)
(* service may change them while a reconciliation runs.                   *)
(***************************************************************************)
EXTENDS FiniteSets

CONSTANTS Names, Tokens, Configs, Ids

VARIABLES
    wanted,     \* name -> configuration: the last snapshot received
    registry,   \* name -> [id, cfg]: the live units and what built them
    routes      \* <<token, name>>: what GetDestinationIDs(token) serves

\* The configurations a destination configured as c can be built from: its
\* only_tokens mapped to token ids, or every token id when it lists none,
\* and never with no token at all.
Resolutions(c) ==
    {r \in {[c EXCEPT !.only = IF c.only # {} THEN c.only \cap A ELSE A]
            : A \in SUBSET Tokens} : r.only # {}}

\* Every configuration a unit can be built from.
Buildable == UNION {Resolutions(c) : c \in Configs}

\* The routing a registry stands for: each token of a non-staged unit.
Projection(reg) ==
    {<<t, n>> \in Tokens \X DOMAIN reg : ~reg[n].cfg.staged /\ t \in reg[n].cfg.only}

Init ==
    /\ wanted = <<>>
    /\ registry = <<>>
    /\ routes = {}

\* A snapshot arrives; the registry still holds what it held.
Receive ==
    /\ \E S \in SUBSET Names : wanted' \in [S -> Configs]
    /\ UNCHANGED <<registry, routes>>

\* One reconciliation against the snapshot received: any registry over its
\* destinations, each built from a resolution of its own configuration.
Reconcile ==
    /\ <<registry, routes>>' # <<registry, routes>>
    /\ \E S \in SUBSET DOMAIN wanted :
         registry' \in [S -> [id : Ids, cfg : Buildable]]
    /\ \A n \in DOMAIN registry' : registry'[n].cfg \in Resolutions(wanted[n])
    /\ \A n \in DOMAIN registry \cap DOMAIN registry' :
         registry'[n].cfg = registry[n].cfg => registry'[n].id = registry[n].id
    /\ routes' = Projection(registry')
    /\ UNCHANGED wanted

Spec == Init /\ [][Receive \/ Reconcile]_<<wanted, registry, routes>>
=============================================================================
