-------------------------------- MODULE SafetyCase --------------------------------
(***************************************************************************)
(* The executable safety argument (safety/case.py): validate() refuses a   *)
(* case with dangling references or a cycle, verify() walks the claims     *)
(* from the root, runs each piece of evidence once and rolls verdicts up.  *)
(*                                                                         *)
(* evaluate()'s recursion is a stack of frames.  A check of the plant can  *)
(* give another answer every time it runs.                                 *)
(***************************************************************************)
EXTENDS Integers, Sequences, FiniteSets

CONSTANTS Claims,
          Undefined,    \* a claim or a check that is referenced and not defined
          Evidence,     \* checks
          SomeCases     \* the cases examined: [root, sub, by, kind], the last
                        \* three as functions of the claim

Kinds == {"argued", "delegated", "undeveloped"}
ASSUME CaseAssumption ==
    /\ IsFiniteSet(Claims) /\ Undefined \notin Claims \cup Evidence
    /\ \A g \in SomeCases :
          /\ g.root \in Claims \cup {Undefined}
          /\ \A c \in Claims : /\ g.sub[c] \subseteq Claims \cup {Undefined}
                               /\ g.by[c] \subseteq Evidence \cup {Undefined}
                               /\ g.kind[c] \in Kinds

VARIABLES
    argument,   \* the case under verification
    phase,      \* "built", "walking", "reported"
    stack,      \* frames of evaluate(): [claim, checks, kids, under]
    executed,   \* results of evidence, a partial function
    outcomes    \* verdicts reported, a partial function

caseVars == <<argument, phase, stack, executed, outcomes>>
Empty == [x \in {} |-> "none"]
With(f, x, v) == [y \in DOMAIN f \cup {x} |-> IF y = x THEN v ELSE f[y]]

-----------------------------------------------------------------------------
(* validate *)

\* What is met on the paths of sub-claims from A through K.
Reached(sub, K, A) ==
    LET grown[n \in 0..Cardinality(Claims)] ==
            IF n = 0 THEN A
            ELSE grown[n - 1] \cup {d \in K : \E p \in grown[n - 1] : d \in sub[p]}
    IN grown[Cardinality(Claims)]
\* Claims on some path of sub-claims from c, c left out unless on a cycle.
Below(c) == Reached(argument.sub, Claims, argument.sub[c] \cap Claims)
Sound ==
    /\ argument.root \in Claims
    /\ \A c \in Claims : argument.sub[c] \subseteq Claims /\ argument.by[c] \subseteq Evidence
    /\ \A c \in Claims : c \notin Below(c)       \* _find_cycles

Push(c) == [claim |-> c, checks |-> argument.by[c], kids |-> argument.sub[c], under |-> {}]
BeginVerify ==
    /\ phase = "built"
    /\ IF Sound THEN phase' = "walking" /\ stack' = <<Push(argument.root)>> /\ UNCHANGED outcomes
       ELSE /\ phase' = "reported" /\ UNCHANGED stack
            /\ outcomes' = With(Empty, argument.root, "inconclusive")
    /\ UNCHANGED <<argument, executed>>

-----------------------------------------------------------------------------
(* evaluate *)

Top == stack[Len(stack)]
WithTop(f) == [stack EXCEPT ![Len(stack)] = f]
\* Evidence.execute; a check that raises is inconclusive.
Answers == {"supported", "not_supported", "inconclusive"}
RecordEachTime(e, r) == With(executed, e, r)                 \* fault: runs on every lookup
Record(e, r) == IF e \in DOMAIN executed THEN executed ELSE With(executed, e, r)
RunCheck ==
    /\ phase = "walking" /\ Top.checks # {}
    /\ \E e \in Top.checks, r \in Answers :
         /\ executed' = Record(e, r)
         /\ stack' = WithTop([Top EXCEPT !.checks = @ \ {e}, !.under = @ \cup {executed'[e]}])
    /\ UNCHANGED <<argument, phase, outcomes>>
Descend ==
    /\ phase = "walking" /\ Top.checks = {} /\ Top.kids # {}
    /\ \E d \in Top.kids :
         stack' = Append(WithTop([Top EXCEPT !.kids = @ \ {d}]), Push(d))
    /\ UNCHANGED <<argument, phase, executed, outcomes>>

\* The verdict from those under the claim.  What a delegated or undeveloped
\* claim has under it does not count.
VerdictOf(c, under) ==
    IF argument.kind[c] # "argued" THEN argument.kind[c]
    ELSE IF argument.by[c] = {} /\ argument.sub[c] = {} THEN "undeveloped"
    ELSE IF "not_supported" \in under THEN "not_supported"
    ELSE IF "inconclusive" \in under THEN "inconclusive"
    ELSE "supported"
Conclude ==
    /\ phase = "walking" /\ Top.checks = {} /\ Top.kids = {}
    /\ LET v == VerdictOf(Top.claim, Top.under)
           rest == SubSeq(stack, 1, Len(stack) - 1)
       IN /\ outcomes' = IF Top.claim \in DOMAIN outcomes THEN outcomes
                         ELSE With(outcomes, Top.claim, v)
          /\ stack' = IF rest = <<>> THEN <<>>
                      ELSE [rest EXCEPT ![Len(rest)].under = @ \cup {v}]
          /\ phase' = IF rest = <<>> THEN "reported" ELSE "walking"
    /\ UNCHANGED <<argument, executed>>

CaseInit ==
    /\ argument \in SomeCases /\ phase = "built"
    /\ stack = <<>> /\ executed = Empty /\ outcomes = Empty
CaseNext == BeginVerify \/ RunCheck \/ Descend \/ Conclude
CaseSpec == CaseInit /\ [][CaseNext]_caseVars

-----------------------------------------------------------------------------
(* Properties *)

\* Argued claims that c rests on through argued claims only, c included.
Argued == {c \in Claims : argument.kind[c] = "argued"}
RestsOn(c) == Reached(argument.sub, Argued, {c} \cap Argued)
Finds(c, r) == \E d \in RestsOn(c) : \E e \in argument.by[d] : executed[e] = r

\* "The report cannot contain two different answers to the same question"
\* (case.py): a finished report has one verdict for every claim the root
\* reaches, and each is the one the recorded evidence gives, read off the
\* graph: refuted if an argued path from the claim ends in refuting
\* evidence, else inconclusive in the same way, however often shared claims
\* and shared checks were met on the walk.  A broken case is inconclusive.
ReportIsOneAnswer ==
    phase = "reported" =>
    IF ~Sound THEN outcomes = With(Empty, argument.root, "inconclusive")
    ELSE /\ DOMAIN outcomes = Below(argument.root) \cup {argument.root}
         /\ \A c \in DOMAIN outcomes :
              /\ outcomes[c] = "not_supported" <=> Finds(c, "not_supported")
              /\ outcomes[c] = "inconclusive" <=> Finds(c, "inconclusive") /\ ~Finds(c, "not_supported")
=============================================================================
