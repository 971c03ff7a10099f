---------------------------- MODULE MCVaultExport ---------------------------
(* A local key with a security key, a key on a card, two workers.          *)
EXTENDS VaultExport

CONSTANTS k1, c1
MCKey == {k1, c1}
MCCard == {c1}
MCToken == {k1}
\* Two exports at a time on a page that is otherwise at rest, or one at a time with
\* dialogs, listings and moves beside it, or one with a key that is moved and then listed.
MCBounds == {[exports |-> 2, ops |-> 2, changes |-> 0],
             [exports |-> 1, ops |-> 2, changes |-> 1],
             [exports |-> 1, ops |-> 1, changes |-> 2]}
=============================================================================
