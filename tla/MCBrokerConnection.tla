------------------------- MODULE MCBrokerConnection -------------------------
(***************************************************************************)
(* Instances of BrokerConnection for TLC: clients of one broker, and of    *)
(* one broker that is also the group's coordinator.                        *)
(***************************************************************************)
EXTENDS BrokerConnection

CONSTANTS q1, p1, x1

Plain == [sparse |-> TRUE, tls |-> FALSE, sasl |-> FALSE, queryable |-> FALSE,
          grouped |-> FALSE, faults |-> 1, moves |-> 0, purges |-> 0,
          requests |-> {q1}, waiters |-> {}]

Group == [Plain EXCEPT !.grouped = TRUE, !.moves = 2]

\* A client that connects eagerly with TLS and SASL; one whose broker moves and
\* whose fallback version has ApiVersion; a thread that needs a broker; a
\* consumer whose coordinator comes and goes, with failures or with requests;
\* a producer that purges.
MCConfs ==
  {[Plain EXCEPT !.sparse = FALSE, !.tls = TRUE, !.sasl = TRUE, !.faults = 2],
   [Plain EXCEPT !.faults = 2, !.moves = 1, !.queryable = TRUE],
   [Plain EXCEPT !.waiters = {x1}, !.requests = {}, !.moves = 1],
   [Group EXCEPT !.requests = {}],
   [Group EXCEPT !.faults = 0],
   [Plain EXCEPT !.requests = {q1, p1}, !.purges = 1, !.faults = 0],
   [Plain EXCEPT !.requests = {p1}, !.purges = 1]}

\* Larger: all of these at once, for the invariants.
MCConfsLarge ==
  {Group, [Plain EXCEPT !.waiters = {x1}, !.moves = 2],
   [Plain EXCEPT !.requests = {q1, p1}, !.purges = 1]}

=============================================================================
