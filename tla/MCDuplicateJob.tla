---------------------------- MODULE MCDuplicateJob ----------------------------
(* TLC instances of the duplicate operation.                                 *)
EXTENDS DuplicateJob, TLC

CONSTANTS shop, copy, third, app, own, own2, root

\* One project database with a saved owner. In it are a table and a SECURITY
\* DEFINER routine of the owner's and a table of the superuser's.
MCInitOwner == shop :> app
MCInitObjects == shop :> {[owner |-> app, fixed |-> FALSE], [owner |-> app, fixed |-> TRUE],
                          [owner |-> root, fixed |-> FALSE]}

Ask(s, d, r) == [source |-> s, database |-> d, owner |-> r]

\* Two clients ask for the same copy.
SameCopy == {Ask(shop, copy, own)}

\* A copy, a copy of the copy, and another copy for the first one's owner.
CopyOfCopy == {Ask(shop, copy, own), Ask(copy, third, own2), Ask(shop, third, own)}
=============================================================================
