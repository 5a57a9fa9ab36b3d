--------------------------- MODULE TrustRegistry ----------------------------
(***************************************************************************)
(* The registry of verification keys (trust_registry.py): an authority     *)
(* outside the framework signs which key verifies which role of release    *)
(* evidence, and when.  A signature is the pair of the key it was made     *)
(* with and the key id written beside it, [key, id]; a document verifies   *)
(* with the pair a registry names iff its signature is that pair, so       *)
(* content altered after signing is a document with another signature.     *)
(* A scope is a bundle root; the framework version is that of the bundle.  *)
(*                                                                         *)
(* A registry: [id, authority, signature, scope, from, until, entries];    *)
(* an entry: [role, key, id, from, until, revoked], where revoked is the   *)
(* time of revocation, or Active for a key in use.                         *)
(***************************************************************************)
EXTENDS Integers, Sequences

CONSTANTS
  Roles,   \* the roles evidence is signed in
  NoKey,   \* no active key for a role
  Active   \* no revocation

ASSUME RolesAssumption ==
  {"qualification", "judge", "host", "supply_chain", "vulnerability", "provenance"}
    \subseteq Roles

(* _verify and its likes in every evidence module.                         *)
Signed(d, k) == d.signature = k

SameId(r) == \E i, j \in DOMAIN r.entries :
               i # j /\ r.entries[i].id = r.entries[j].id

(* Two active keys of one role.                                            *)
Ambiguous(r) == \E i, j \in DOMAIN r.entries :
                  /\ i # j
                  /\ r.entries[i].role = r.entries[j].role
                  /\ r.entries[i].revoked = Active
                  /\ r.entries[j].revoked = Active

Within(w, at) == w.from <= at /\ at <= w.until

(* _validate_keys, one entry: one that is not sound makes the whole        *)
(* registry unusable, an expired active key and a revocation still to come *)
(* included.                                                               *)
EntrySound(x, r, at) ==
  /\ x.role \in Roles
  /\ x.from < x.until
  /\ r.from <= x.from /\ x.until <= r.until
  /\ IF x.revoked = Active THEN Within(x, at) ELSE x.revoked <= at

(* _validate_common_identity, _validate_windows, _validate_keys and the    *)
(* authority's own signature.                                              *)
Resolvable(r, authority, scope, at) ==
  /\ r.authority = authority
  /\ Signed(r, authority)
  /\ r.scope = scope
  /\ r.from < r.until
  /\ Within(r, at)
  /\ \A i \in DOMAIN r.entries : EntrySound(r.entries[i], r, at)
  /\ ~SameId(r)
  /\ ~Ambiguous(r)

ActiveFor(r, role) == {i \in DOMAIN r.entries : /\ r.entries[i].role = role
                                                /\ r.entries[i].revoked = Active}

(* Mutant: a revoked key is handed out as well.                            *)
ResolveAnyStatus(r) ==
  [role \in Roles |->
     LET named == {i \in DOMAIN r.entries : r.entries[i].role = role}
     IN IF named = {} THEN NoKey
        ELSE LET x == r.entries[CHOOSE i \in named : TRUE] IN [key |-> x.key, id |-> x.id]]

(* resolve_trusted_verification_keys.                                      *)
Resolve(r) ==
  [role \in Roles |->
     IF ActiveFor(r, role) = {} THEN NoKey
     ELSE LET x == r.entries[CHOOSE i \in ActiveFor(r, role) : TRUE]
          IN [key |-> x.key, id |-> x.id]]

NoKeys == [role \in Roles |-> NoKey]
=============================================================================
