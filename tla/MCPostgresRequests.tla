-------------------------- MODULE MCPostgresRequests --------------------------
(* TLC instance of the in-request PostgreSQL service calls.                  *)
EXTENDS PostgresRequests, TLC

CONSTANTS shop, fresh, sys, app, adm, other

\* A project database with a saved owner, and the administrator's database.
MCInitOwner == shop :> app @@ sys :> adm

\* The project has the administrator's extension in its database.
MCInitObjects == shop :> {[owner |-> app, fixed |-> FALSE], [owner |-> adm, fixed |-> TRUE]}
                   @@ sys :> {[owner |-> adm, fixed |-> FALSE]}

\* Requests of one kind are interchangeable.
MCSymmetry == Permutations(Creates) \cup Permutations(Rotates)
=============================================================================
