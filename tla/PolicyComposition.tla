-------------------------- MODULE PolicyComposition --------------------------
(***************************************************************************)
(* Composed policies (packages/contracts/src/policy/index.ts) and the      *)
(* verdict the server runtime takes from one                               *)
(* (packages/server/src/runtime/index.ts): and, or, not over evaluators    *)
(* that are awaited one at a time, with early exits, reasons and throws.   *)
(*                                                                         *)
(* The evaluators at the leaves are user code: each may allow, refuse with *)
(* a bare false, deny with a reason of its own, or throw.  Each takes the  *)
(* context of its scope, and the runtime has only the context of the scope *)
(* it evaluates a policy for.                                              *)
(***************************************************************************)
EXTENDS Naturals, SequencesExt

CONSTANTS
  Scopes,  \* scopes of policies; "none" is that of a policy without one
  Width,   \* bound: parts of a composition of leaves
  Parts    \* bound: parts of a composition of compositions

ASSUME ScopesAssumption == "none" \in Scopes
ASSUME PartsAssumption == Parts \in Nat \ {0} /\ Width \in 1..Parts

VARIABLES
  policy,    \* the policy under evaluation
  stack,     \* evaluations under way, the innermost last
  returned,  \* the result an evaluation has just returned: none or one
  answers,   \* what the leaves answered, in order
  outcome    \* what the runtime makes of it

policyVars == <<policy, stack, returned, answers, outcome>>

(***************************************************************************)
(* Policies.                                                               *)
(***************************************************************************)

\* connectPolicy, joinPolicy, commandPolicy and receivePolicy have a scope each;
\* policy has any or none.
Leaves == [kind : {"leaf"}, parts : {<<>>}, scope : Scopes]

\* Mutant: the scope of the composition is compared with the first part only.
ScopesAgreeWithFirst(parts, override) == override \in {"none", parts[1].scope}

\* resolveCompositionScope and resolveInvertedPolicyScope throw unless all parts
\* have one scope, and the override, if there is one, is that scope.
ScopesAgree(parts, override) ==
  /\ \A i \in DOMAIN parts : parts[i].scope = parts[1].scope
  /\ override \in {"none", parts[1].scope}

\* The scope of a composition.
ScopeOf(parts, override) == IF override = "none" THEN parts[1].scope ELSE override

\* What andPolicy, orPolicy and notPolicy can make of given policies.
Compositions(policies, most) ==
  UNION {LET scopes == {ScopeOf(parts, override) :
                          override \in {s \in Scopes : ScopesAgree(parts, s)}}
             kinds == {"and", "or"} \cup (IF Len(parts) = 1 THEN {"not"} ELSE {})
         IN  [kind : kinds, parts : {parts}, scope : scopes] :
           parts \in BoundedSeq(policies, most) \ {<<>>}}

Shallow == Leaves \cup Compositions(Leaves, Width)
Policies == Shallow \cup Compositions(Shallow, Parts)

\* A path is the way to a part: its index at each level.
Paths == UNION {[1..depth -> 1..Parts] : depth \in 0..2}

\* A reason is known by the leaf that gave it.
Reasons == {{}} \cup {{path} : path \in Paths}
Answers == {"allow", "refuse", "deny", "throw"}
Result == [allowed : BOOLEAN, reason : Reasons]
Evaluation == [of : Policies, at : 1..Parts, firstDeny : Reasons]

PolicyTypeOK ==
  /\ policy \in Policies
  /\ stack \in Seq(Evaluation)
  /\ returned \in {{}} \cup {{result} : result \in Result}
  /\ answers \in Seq([leaf : Paths, said : Answers])
  /\ outcome \in [verdict : {"open", "allowed", "rejected", "internal-error"}, reason : Reasons]

Frame(part) == [of |-> part, at |-> 1, firstDeny |-> {}]

PolicyInit ==
  /\ policy \in Policies
  /\ stack = <<Frame(policy)>>
  /\ returned = {}
  /\ answers = <<>>
  /\ outcome = [verdict |-> "open", reason |-> {}]

(***************************************************************************)
(* Evaluation.                                                             *)
(***************************************************************************)

Top == Last(stack)
\* The path to an evaluation under way: where those that await it are.
WayTo(frames, k) == [level \in 1..(k - 1) |-> frames[level].at]

Here == WayTo(stack, Len(stack))

\* A composition calls evaluate of its next part and awaits it.
AskPart ==
  /\ stack # <<>>
  /\ returned = {}
  /\ Top.of.kind # "leaf"
  /\ stack' = Append(stack, Frame(Top.of.parts[Top.at]))
  /\ UNCHANGED <<policy, returned, answers, outcome>>

\* Mutant: an awaited result is kept beside the one it leads to.
ReturnBoth(result) ==
  /\ stack' = Front(stack)
  /\ returned' = returned \cup {result}

\* Ends the innermost evaluation with a result.
Return(result) ==
  /\ stack' = Front(stack)
  /\ returned' = {result}

\* Goes on to the next part, if there is one, or ends with a result.
GoOnOrReturn(frame, result) ==
  IF frame.at < Len(frame.of.parts)
  THEN /\ stack' = Append(Front(stack), [frame EXCEPT !.at = @ + 1])
       /\ returned' = {}
  ELSE Return(result)

LeafAsked == stack # <<>> /\ returned = {} /\ Top.of.kind = "leaf"

\* An evaluator settles without throwing.
LeafAnswers ==
  /\ LeafAsked
  /\ \E said \in Answers \ {"throw"} :
       /\ answers' = Append(answers, [leaf |-> Here, said |-> said])
       /\ Return([allowed |-> said = "allow",
                  reason |-> IF said = "deny" THEN {Here} ELSE {}])
  /\ UNCHANGED <<policy, outcome>>

\* An evaluator throws: every evaluation under way rejects, and the runtime
\* normalizes the error.
LeafThrows ==
  /\ LeafAsked
  /\ answers' = Append(answers, [leaf |-> Here, said |-> "throw"])
  /\ stack' = <<>>
  /\ outcome' = [verdict |-> "internal-error", reason |-> {}]
  /\ UNCHANGED <<policy, returned>>

\* A part of the innermost composition has returned a result.
PartReturned(kind, result) ==
  stack # <<>> /\ Top.of.kind = kind /\ returned = {result}

\* Mutant: a refusal becomes final only after the last part.
AndStepLate ==
  /\ \E result \in Result :
       /\ PartReturned("and", result)
       /\ GoOnOrReturn(Top, result)
  /\ UNCHANGED <<policy, answers, outcome>>

\* andPolicy: the first refusal is the result.
AndStep ==
  /\ \E result \in Result :
       /\ PartReturned("and", result)
       /\ IF result.allowed
          THEN GoOnOrReturn(Top, [allowed |-> TRUE, reason |-> {}])
          ELSE Return(result)
  /\ UNCHANGED <<policy, answers, outcome>>

\* Mutant: the last denial is kept, not the first.
LastDenial(frame, result) ==
  IF result.reason # {} THEN result.reason ELSE frame.firstDeny

\* The denial that orPolicy keeps: the first that has a reason.
Denial(frame, result) ==
  IF frame.firstDeny = {} THEN result.reason ELSE frame.firstDeny

\* Mutant: all parts are asked even after one allowed.
OrStepThorough ==
  /\ \E result \in Result :
       /\ PartReturned("or", result)
       /\ GoOnOrReturn([Top EXCEPT !.firstDeny = Denial(Top, result)],
                       [allowed |-> result.allowed, reason |-> Denial(Top, result)])
  /\ UNCHANGED <<policy, answers, outcome>>

\* orPolicy: the first part that allows decides; otherwise the denial kept.
OrStep ==
  /\ \E result \in Result :
       /\ PartReturned("or", result)
       /\ IF result.allowed
          THEN Return([allowed |-> TRUE, reason |-> {}])
          ELSE LET denial == Denial(Top, result)
               IN  GoOnOrReturn([Top EXCEPT !.firstDeny = denial],
                                [allowed |-> FALSE, reason |-> denial])
  /\ UNCHANGED <<policy, answers, outcome>>

\* notPolicy: a bare true or false.
NotStep ==
  /\ \E result \in Result :
       /\ PartReturned("not", result)
       /\ Return([allowed |-> ~result.allowed, reason |-> {}])
  /\ UNCHANGED <<policy, answers, outcome>>

\* Mutant: only a denial with a reason is a rejection.
RejectionIfDenied(result) ==
  [verdict |-> IF result.reason = {} THEN "allowed" ELSE "rejected", reason |-> result.reason]

\* createPolicyRejectionError: an error with the reason, or with the default code.
Rejection(result) ==
  [verdict |-> IF result.allowed THEN "allowed" ELSE "rejected", reason |-> result.reason]

\* evaluatePolicyContract gets the result.
Decide ==
  /\ stack = <<>>
  /\ \E result \in returned : outcome' = Rejection(result)
  /\ returned' = {}
  /\ UNCHANGED <<policy, stack, answers>>

PolicyNext ==
  \/ AskPart \/ LeafAnswers \/ LeafThrows
  \/ AndStep \/ OrStep \/ NotStep
  \/ Decide

PolicySpec == PolicyInit /\ [][PolicyNext]_policyVars

(***************************************************************************)
(* What a policy means.                                                    *)
(***************************************************************************)

\* The paths to the parts of a policy, however deep, and to its leaves.
PathsIn(p) ==
  {<<>>} \cup {<<i>> : i \in DOMAIN p.parts}
         \cup UNION {{<<i, j>> : j \in DOMAIN p.parts[i].parts} : i \in DOMAIN p.parts}

PartAt(p, path) ==
  CASE Len(path) = 0 -> p
    [] Len(path) = 1 -> p.parts[path[1]]
    [] Len(path) = 2 -> p.parts[path[1]].parts[path[2]]

LeavesOf(p) == {path \in PathsIn(p) : PartAt(p, path).kind = "leaf"}

\* A path that goes on from another.
Continues(way, path) ==
  Len(path) <= Len(way) /\ \A level \in 1..Len(path) : way[level] = path[level]

\* The Boolean value of a policy: its own, if it is a leaf, or what its parts hold.
Combined(p, own, held) ==
  CASE p.kind = "leaf" -> own
    [] p.kind = "and"  -> \A i \in DOMAIN p.parts : held[i]
    [] p.kind = "or"   -> \E i \in DOMAIN p.parts : held[i]
    [] p.kind = "not"  -> ~held[1]

\* The Boolean value of a part of the policy when its leaves have given values.
HoldsAt(p, path, value) ==
  LET first(i) == Combined(p.parts[i], value[<<i>>],
                           [j \in DOMAIN p.parts[i].parts |-> value[<<i, j>>]])
  IN  CASE Len(path) = 0 -> Combined(p, value[<<>>], [i \in DOMAIN p.parts |-> first(i)])
        [] Len(path) = 1 -> first(path[1])
        [] Len(path) = 2 -> value[path]

Holds(value) == HoldsAt(policy, <<>>, value)

\* The values the leaves can have, given the answers but for those of some leaves:
\* who was not asked, or threw, can have any.
ValuesOf(p, given, except) ==
  {value \in [LeavesOf(p) -> BOOLEAN] :
     \A i \in DOMAIN given :
       given[i].said = "throw" \/ given[i].leaf \in except
         \/ value[given[i].leaf] = (given[i].said = "allow")}

Values(except) == ValuesOf(policy, answers, except)

\* No notPolicy lies on the way to a leaf: notPolicy has no reasons to pass on.
IsPlain(p, path, leaf) ==
  \A way \in PathsIn(p) :
    Continues(way, path) /\ Continues(leaf, way) => PartAt(p, way).kind # "not"

\* The answers that denied with a reason which by itself stands against a part of
\* the policy: had this leaf allowed, the part could have.
CausesAt(p, given, path) ==
  {i \in DOMAIN given :
     LET leaf == given[i].leaf
     IN  /\ given[i].said = "deny"
         /\ Continues(leaf, path) /\ IsPlain(p, path, leaf)
         /\ \E value \in ValuesOf(p, given, {leaf}) : value[leaf] /\ HoldsAt(p, path, value)}

\* The reason of the first of some answers, if there is one.
FirstReason(given, causes) == IF causes = {} THEN {} ELSE {given[Min(causes)].leaf}

(***************************************************************************)
(* Properties.                                                             *)
(***************************************************************************)

\* What the early exits leave out could not have mattered: the verdict is the
\* Boolean value of the composition whatever the leaves that were not asked say.
VerdictIsSound ==
  /\ outcome.verdict = "allowed"  => \A value \in Values({}) : Holds(value)
  /\ outcome.verdict = "rejected" => \A value \in Values({}) : ~Holds(value)

\* No leaf is asked out of place or in vain: one that is awaited gets the context of
\* its own scope, however deep in compositions of compositions, and the answers before
\* it leave the verdict open.  Evaluators query databases and services.
AskedRightly ==
  LeafAsked =>
    /\ Top.of.scope = policy.scope
    /\ \E value, other \in Values({}) : Holds(value) /\ ~Holds(other)

\* A rejection carries the reason of the first leaf whose denial stands against the
\* policy, and no reason if there is none: never one that was overruled, dropped by a
\* notPolicy or superseded.
ReasonIsTheFirstCause ==
  outcome.verdict = "rejected" =>
    outcome.reason = FirstReason(answers, CausesAt(policy, answers, <<>>))

(***************************************************************************)
(* The inductive invariant behind the theorems of Contracts_proofs.        *)
(***************************************************************************)

\* A path that turns off before another: its leaf is asked earlier.
Precedes(path, other) ==
  \E level \in (1..Len(path)) \cap (1..Len(other)) :
    /\ path[level] < other[level]
    /\ \A above \in 1..(level - 1) : path[above] = other[above]

\* The leaves are asked in their order, and so no leaf twice.
AskedInOrder ==
  /\ \A i \in DOMAIN answers : answers[i].leaf \in LeavesOf(policy)
  /\ \A i, j \in DOMAIN answers : i < j => Precedes(answers[i].leaf, answers[j].leaf)

\* A part has a value whatever the leaves say that were not asked.
Known(p, given, path, holds) ==
  \A value \in ValuesOf(p, given, {}) : HoldsAt(p, path, value) = holds

\* What evaluations under way have found: the part at the path that leads to them
\* went on past parts that did not decide it, and keeps the first reason of these.
FrameIsRight(p, given, path, frame) ==
  /\ path \in PathsIn(p) /\ frame.of = PartAt(p, path)
  /\ frame.at \in DOMAIN frame.of.parts \/ (frame.of.kind = "leaf" /\ frame.at = 1)
  /\ \A i \in 1..(frame.at - 1) : Known(p, given, Append(path, i), frame.of.kind = "and")
  /\ frame.firstDeny =
       IF frame.of.kind = "or"
       THEN FirstReason(given, UNION {CausesAt(p, given, Append(path, i)) : i \in 1..(frame.at - 1)})
       ELSE {}

FramesAreRight ==
  /\ \A k \in DOMAIN stack : FrameIsRight(policy, answers, WayTo(stack, k), stack[k])
  /\ \A k \in 1..(Len(stack) - 1) : stack[k].of.kind # "leaf"

\* The path of the part that is awaited.
Awaited ==
  IF stack = <<>> THEN <<>>
  ELSE IF Top.of.kind = "leaf" THEN Here ELSE Append(Here, Top.at)

\* Nothing was asked out of turn.
AskedSoFar ==
  \A i \in DOMAIN answers :
    \/ Precedes(answers[i].leaf, Awaited)
    \/ returned # {} /\ Continues(answers[i].leaf, Awaited)

\* The result of a part is its value, with the first reason against it.
ReturnedIsRight ==
  \A result \in returned :
    /\ returned = {result} /\ result \in Result
    /\ stack # <<>> => Top.of.kind # "leaf"
    /\ Known(policy, answers, Awaited, result.allowed)
    /\ result.reason =
         IF result.allowed THEN {}
         ELSE FirstReason(answers, CausesAt(policy, answers, Awaited))

EvaluationInv ==
  /\ PolicyTypeOK
  /\ AskedInOrder
  /\ FramesAreRight
  /\ outcome.verdict = "open" <=> (stack # <<>> \/ returned # {})
  /\ outcome.verdict = "open" =>
       /\ \A i \in DOMAIN answers : answers[i].said # "throw"
       /\ AskedSoFar /\ ReturnedIsRight
  /\ VerdictIsSound /\ ReasonIsTheFirstCause
=============================================================================
