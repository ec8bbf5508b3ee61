------------------------------ MODULE Consent -------------------------------
(***************************************************************************)
(* The pure functions that decide whether an action may enter the          *)
(* pipeline: punkgo-core's action.rs (types and prices), boundary.rs (what *)
(* an actor may write) and consent.rs (what an envelope authorises).       *)
(*                                                                         *)
(* Targets are the path shapes the kernel tells apart, and one nested      *)
(* path; Patterns adds the globs over them.  A writable_targets list is a  *)
(* set of [target, actions] entries, the targets of an envelope a set of   *)
(* patterns.  The hold_on rules of an envelope are only ever asked whether *)
(* one of them matches, so they are the set of the <<target, type>> pairs  *)
(* they match.                                                             *)
(***************************************************************************)
EXTENDS Integers

Types == {"observe", "create", "mutate", "execute"}

\* The path shapes submit_action tells apart.
Targets == {"workspace/a", "workspace/a/b",
            "ledger/actor", "ledger/envelope", "ledger/hold", "actor"}

Patterns == Targets \cup {"**", "workspace/*", "workspace/**"}

\* boundary.rs glob_match, by the globset crate with literal_separator: a star
\* stands for one segment, two for any number.  The second argument is a path,
\* which a pattern is too when it is compared as text: its stars are then
\* ordinary characters of a segment.
GlobMatch(pattern, path) ==
    \/ pattern = path
    \/ pattern = "**"
    \/ pattern = "workspace/*" /\ path \in {"workspace/a", "workspace/**"}
    \/ pattern = "workspace/**" /\ path \in {"workspace/a", "workspace/a/b", "workspace/*"}

\* boundary.rs pattern_covers, and the same test in consent.rs: "**", equality,
\* or the child's pattern matched as text.  It is coarser than inclusion:
\* "workspace/*" covers "workspace/**".
PatternCovers(parent, child) ==
    parent = "**" \/ parent = child \/ GlobMatch(parent, child)

StateChanging(type) == type # "observe"

\* action.rs quote_cost + append_cost.
ActionCost(a) ==
    CASE a.type = "observe" -> 0
      [] a.type = "create"  -> 10
      [] a.type = "mutate"  -> 15
      [] OTHER              -> 25 + (a.outputBytes \div 256)

QuoteCost(a) == ActionCost(a) + 1 + (a.payloadBytes \div 1024)

\* boundary.rs is_privileged_target: the ledger/ prefix (system/ is not modelled).
Privileged(target) == target \in {"ledger/actor", "ledger/envelope", "ledger/hold"}

\* boundary.rs check_privileged_access: some entry is the pattern "**".
Wildcard(actor) == \E w \in actor.writable : w.target = "**"

\* boundary.rs check_writable_boundary: observe is exempt, a privileged target
\* needs the wildcard, anything else is denied unless an entry grants it.
WithinBoundary(actor, a) ==
    \/ a.type = "observe"
    \/ Privileged(a.target) /\ Wildcard(actor)
    \/ /\ ~Privileged(a.target)
       /\ \E w \in actor.writable : GlobMatch(w.target, a.target) /\ a.type \in w.actions

\* boundary.rs validate_child_targets: each entry of the child lies in ONE entry
\* of its creator.
ChildWithinParent(parent, child) ==
    \A c \in child.writable : \E p \in parent.writable :
        PatternCovers(p.target, c.target) /\ c.actions \subseteq p.actions

\* consent.rs check_envelope_covers, on the envelope row the request has read.
EnvelopeCovers(env, a) ==
    /\ a.type \in env.actions
    /\ \E p \in env.targets : GlobMatch(p, a.target)
    /\ env.budget - env.consumed > 0

\* consent.rs check_hold_trigger.
HoldTriggered(env, a) == <<a.target, a.type>> \in env.holdOn

\* An envelope without a duration never expires.
Never == -1

\* consent.rs is_envelope_expired.
EnvelopeExpired(env, now) == env.expires # Never /\ now >= env.expires

\* consent.rs check_checkpoint: the Halt level, decided on the row as it was
\* before the charge.  The Report level only writes a log line.
HaltDue(env, cost) == env.consumed + cost >= env.budget

TargetsCovered(parents, children) ==
    \A c \in children : \E p \in parents : PatternCovers(p, c)

\* Fault: the actions are not compared.
ReducesAllButActions(parent, spec) ==
    /\ spec.budget <= parent.budget - parent.consumed
    /\ TargetsCovered(parent.targets, spec.targets)

\* consent.rs validate_envelope_reduction.
ReducesEnvelope(parent, spec) ==
    /\ spec.budget <= parent.budget - parent.consumed
    /\ spec.actions \subseteq parent.actions
    /\ TargetsCovered(parent.targets, spec.targets)

\* kernel.rs: a hold is overdue when more than its timeout has passed
\* (a timeout of 0 stands for None and for every value the code ignores).
HoldOverdue(timeout, triggeredAt, now) == timeout > 0 /\ now - triggeredAt > timeout
=============================================================================
