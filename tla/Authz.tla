-------------------------------- MODULE Authz --------------------------------
(***************************************************************************)
(* The access checks of one session (goimpl/internal/authz/authz.go).       *)
(* A path is the sequence of keys from below the root.  A policy's regular  *)
(* expressions are abstracted to path prefixes, the form "^/a/b" the docs   *)
(* use: a rule is a sequence of keys and matches every path it starts.      *)
(***************************************************************************)
EXTENDS Integers, Sequences, SequencesExt

CONSTANTS
    OwnSession,   \* the key "Connection-ID=<id>" of this session
    Identity,     \* who it is, by its certificate
    Policy        \* [open, readOnly, identities]: open without a policy; the
                  \* identities' rule sets by name, "*" for everyone

ASSUME PolicyAssumption ==
    /\ DOMAIN Policy = {"open", "readOnly", "identities"}
    /\ Policy.open \in BOOLEAN
    /\ \A id \in DOMAIN Policy.identities :
          DOMAIN Policy.identities[id] = {"read", "write", "delete"}

Op == {"read", "write", "delete"}

\* anyMatch
AnyMatch(rules, path) == \E rule \in rules : IsPrefix(rule, path)

InSessions(path) == path # <<>> /\ path[1] = "Sessions"

\* Mutant: the containers the server points at are not protected.
SessionRuleOpenContainers(op, path) ==
    \/ op = "read" /\ (Len(path) > 1 => path[2] = OwnSession)
    \/ Len(path) > 2 /\ path[2] = OwnSession

\* Mutant: what lies below a session's containers is any session's.
SessionRuleAnySession(op, path) ==
    \/ op = "read" /\ (Len(path) > 1 => path[2] = OwnSession)
    \/ /\ Len(path) > 3
       /\ \/ path[3] = "NewNodes"
          \/ path[3] \in {"Errors", "QueryResults"} /\ op = "delete"

\* sessionRule, for a path under /Sessions: what no policy can loosen.
SessionRule(op, path) ==
    \/ op = "read" /\ (Len(path) > 1 => path[2] = OwnSession)
    \/ /\ Len(path) > 3 /\ path[2] = OwnSession
       /\ \/ path[3] = "NewNodes"
          \/ path[3] \in {"Errors", "QueryResults"} /\ op = "delete"

\* The rules of an identity; writing and deleting imply reading.
Grants(rules, op, path) ==
    \/ AnyMatch(rules[op], path)
    \/ op = "read" /\ AnyMatch(rules.write \cup rules.delete, path)

\* The policy's part of Allowed: readOnly first, then the identity's own rules
\* and those for everyone.
PolicyRule(op, path) ==
    /\ op # "read" => ~ AnyMatch(Policy.readOnly, path)
    /\ \E id \in {Identity, "*"} \cap DOMAIN Policy.identities :
          Grants(Policy.identities[id], op, path)

\* Allowed
Allowed(op, path) ==
    IF InSessions(path) THEN SessionRule(op, path)
    ELSE Policy.open \/ PolicyRule(op, path)
=============================================================================
