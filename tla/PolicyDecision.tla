--------------------------- MODULE PolicyDecision ---------------------------
(***************************************************************************)
(* The policy decision of evaluate_policy: the policy versions in force for *)
(* a request are read from the newest to the oldest, their declared effects *)
(* are accumulated, and the first DENY ends the reading.  PolicyMeaning     *)
(* says what that procedure is for, without an order.                      *)
(***************************************************************************)
EXTENDS AuthorityRules, SequencesExt

Effect == {"ALLOW", "DENY", "REQUIRE_REVIEW", "REQUIRE_SIGNATURE"}

\* One entry of a policy's effects.  require: which kind of obligation it states.
EffectItem ==
  [effect: {"ALLOW", "DENY", "OTHER"}, require: {"none", "signature", "review"}]

\* A draft or retired version never applies, a superseded or archived one may.
Applying == {"ACTIVE", "SUPERSEDED", "ARCHIVED"}

\* _policy_scope_matches: a key that the policy or the request leaves open matches.
PolicyScopeMatches(scope, req) ==
  \A key \in DOMAIN scope :
    scope[key] \in {"none", "*"} \/ req[key] = "none" \/ scope[key] = req[key]

Applicable(policy, req) ==
  /\ policy.lifecycle_state \in Applying
  /\ ActivePeriod(policy, req.at)
  /\ PolicyScopeMatches(policy.scope, req)

ApplicableRows(policies, req) == {i \in DOMAIN policies : Applicable(policies[i], req)}

\* A later version is read first, among equally late ones that recorded last.  The table
\* is kept in the order of recorded_at.
ReadBefore(policies, i, j) ==
  \/ policies[i].effective_from > policies[j].effective_from
  \/ policies[i].effective_from = policies[j].effective_from /\ i > j

\* How many of the rows are read before the i-th of the table.
Rank(policies, rows, i) == Cardinality({j \in rows : ReadBefore(policies, j, i)})

\* The applicable versions in the order they are read.
NewestFirst(policies, req) ==
  LET rows == ApplicableRows(policies, req)
  IN  [k \in 1 .. Cardinality(rows) |->
         policies[CHOOSE i \in rows : Rank(policies, rows, i) = k - 1]]

-----------------------------------------------------------------------------
NothingSeen == [denied |-> FALSE, allow |-> FALSE, review |-> FALSE, signature |-> FALSE]

\* Mutant: a DENY resets what was seen but the reading goes on.
ReadOnAfterDeny(seen, item) ==
  IF item.effect = "DENY"
  THEN NothingSeen
  ELSE [denied    |-> FALSE,
        allow     |-> seen.allow \/ item.effect = "ALLOW",
        review    |-> seen.review \/ item.require = "review",
        signature |-> seen.signature \/ item.require = "signature"]

ReadItem(seen, item) ==
  IF seen.denied THEN seen
  ELSE IF item.effect = "DENY" THEN [NothingSeen EXCEPT !.denied = TRUE]
  ELSE [denied    |-> FALSE,
        allow     |-> seen.allow \/ item.effect = "ALLOW",
        review    |-> seen.review \/ item.require = "review",
        signature |-> seen.signature \/ item.require = "signature"]

\* What is seen after one policy's effects, item by item.
ReadPolicy(seen, policy) ==
  LET after[k \in 0 .. Len(policy.effects)] ==
        IF k = 0 THEN seen ELSE ReadItem(after[k - 1], policy.effects[k])
  IN  after[Len(policy.effects)]

\* And after all the versions, one by one.
ReadVersions(versions) ==
  LET after[k \in 0 .. Len(versions)] ==
        IF k = 0 THEN NothingSeen ELSE ReadPolicy(after[k - 1], versions[k])
  IN  after[Len(versions)]

\* Mutant: a review suffices where a signature is required.
ReviewSuffices(seen) ==
  IF seen.denied THEN "DENY"
  ELSE IF seen.review THEN "REQUIRE_REVIEW"
  ELSE IF seen.signature THEN "REQUIRE_SIGNATURE"
  ELSE IF seen.allow THEN "ALLOW"
  ELSE "DENY"

EffectSeen(seen) ==
  IF seen.denied THEN "DENY"
  ELSE IF seen.signature THEN "REQUIRE_SIGNATURE"
  ELSE IF seen.review THEN "REQUIRE_REVIEW"
  ELSE IF seen.allow THEN "ALLOW"
  ELSE "DENY"

\* evaluate_policy: the effect; no applicable policy denies.
PolicyEffect(policies, req) ==
  EffectSeen(ReadVersions(NewestFirst(policies, req)))

-----------------------------------------------------------------------------
\* The reference: what the applicable versions say together, in no order.
PolicyMeaning(policies, req) ==
  LET items == UNION {ToSet(policies[i].effects) : i \in ApplicableRows(policies, req)}
      Says(effect)   == \E item \in items : item.effect = effect
      Requires(kind) == \E item \in items : item.require = kind
  IN  IF Says("DENY") THEN "DENY"
      ELSE IF Requires("signature") THEN "REQUIRE_SIGNATURE"
      ELSE IF Requires("review") THEN "REQUIRE_REVIEW"
      ELSE IF Says("ALLOW") THEN "ALLOW"
      ELSE "DENY"
=============================================================================
