-------------------------- MODULE ReliabilityGoals --------------------------
(* What a reliability goal says of its samples, twice: the preview Studio    *)
(* computes from one query after the other, and the alert rules it exports   *)
(* for Prometheus, which evaluates them by itself.                          *)
EXTENDS Integers, Sequences, FiniteSets, StudioValues

CONSTANTS
    MaxCount,           \* good and eligible work is -1..MaxCount
    FreshFor,           \* freshness_seconds
    EndSlack,           \* tolerance of the end of the window, 30 s in the code
    Infinite            \* a sample that is no finite number, NaN too

ASSUME GoalsAssumption == {MaxCount, FreshFor, EndSlack} \subseteq Nat /\ Infinite \notin Int

VARIABLES
    goalKind,       \* "business", or a "plain" value that must stay low
    threshold,      \* of the percentage of good work, or of the value
    samples         \* samples[q]: the answer to a query, a set of series

goalVars == <<goalKind, threshold, samples>>

(* Times are relative: an age, and offsets of the end and the width of the *)
(* window from what they should be.                                        *)
Values(q) ==
    CASE q \in {"good", "eligible"} -> -1..MaxCount
      [] q = "value" -> -1..2
      [] q = "freshness" -> {-1, 0, FreshFor, FreshFor + 1}
      [] q = "window_end" -> {-EndSlack - 1, -EndSlack, EndSlack, EndSlack + 1}
      [] q = "window_start" -> {-2, -1, 1, 2}
Queries(kind) ==
    IF kind = "business" THEN <<"good", "eligible", "window_start", "window_end", "freshness">>
    ELSE <<"value", "freshness">>
(* No series, one, or two with the same value.                             *)
Answers(q) == {{}} \cup {{<<1, v>>} : v \in Values(q) \cup {Infinite}} \cup {{<<1, v>>, <<2, v>>} : v \in Values(q)}

GoalsInit ==
    /\ goalKind \in {"business", "plain"}
    /\ threshold \in IF goalKind = "business" THEN {1, 50, 100} ELSE {0, 1}
    /\ samples = <<>>

(* _sample for the next query, at one evaluation time.                     *)
NextQuery == Queries(goalKind)[Cardinality(DOMAIN samples) + 1]
Sample(answer) ==
    /\ samples' = [q \in DOMAIN samples \cup {NextQuery} |-> IF q = NextQuery THEN answer ELSE samples[q]]
    /\ UNCHANGED <<goalKind, threshold>>
GoalsNext ==
    /\ Cardinality(DOMAIN samples) < Len(Queries(goalKind))
    /\ \E answer \in Answers(NextQuery) : Sample(answer)

-----------------------------------------------------------------------------
AllQueries == {Queries(goalKind)[i] : i \in DOMAIN Queries(goalKind)}
One(q) == (CHOOSE s \in samples[q] : TRUE)[2]
Abs(n) == IF n < 0 THEN -n ELSE n

(* Seeded fault: a rate exactly at the threshold counts as a breach.       *)
MutantBreached == IF goalKind = "business" THEN 100 * One("good") <= threshold * One("eligible") ELSE One("value") >= threshold
Breached == IF goalKind = "business" THEN 100 * One("good") < threshold * One("eligible") ELSE One("value") >= threshold

(* _preview: the reasons to say nothing are looked for one after another.  *)
Preview ==
    IF \E q \in AllQueries : Cardinality(samples[q]) > 1 THEN "unavailable"
    ELSE IF \E q \in AllQueries : samples[q] = {} \/ One(q) = Infinite THEN "no_data"
    ELSE IF ~(0 <= One("freshness") /\ One("freshness") <= FreshFor) THEN "stale"
    ELSE IF goalKind = "business" /\ One("eligible") <= 0 THEN "no_data"
    ELSE IF goalKind = "business" /\ (\/ One("good") < 0 \/ One("good") > One("eligible")
                                      \/ Abs(One("window_end")) > EndSlack \/ Abs(One("window_start")) > 1) THEN "insufficient"
    ELSE IF goalKind = "plain" /\ One("value") < 0 THEN "insufficient"
    ELSE IF Breached THEN "breaching" ELSE "observed"

-----------------------------------------------------------------------------
(* PromQL: a comparison keeps the series that satisfy it, "and" those of   *)
(* the left whose labels are on the right; a rule fires when any is left.  *)
Finite(set) == {s \in set : s[2] # Infinite}
And(left, right) == {s \in left : \E r \in right : r[1] = s[1]}
Single(q) == IF Cardinality(samples[q]) = 1 THEN Finite(samples[q]) ELSE {}
RuleValid ==
    LET finite == \A q \in AllQueries : Single(q) # {}      \* abs(q) < Inf, and on() count(q) == 1
        fresh == {s \in Finite(samples["freshness"]) : s[2] <= FreshFor /\ s[2] >= 0}
        eligible == {s \in Finite(samples["eligible"]) : s[2] > 0}
        counts == {s \in Finite(samples["good"]) :
                       s[2] >= 0 /\ \E e \in eligible : e[1] = s[1] /\ s[2] <= e[2]}
        window == And({s \in Finite(samples["window_end"]) : Abs(s[2]) <= EndSlack},
                      {s \in Finite(samples["window_start"]) : Abs(s[2]) <= 1})
    IN  IF ~finite THEN {}
        ELSE IF goalKind = "business" THEN And(And(counts, window), fresh)
        ELSE And({s \in Finite(samples["value"]) : s[2] >= 0}, fresh)
RuleFires ==
    LET rate == {s \in Finite(samples["good"]) :
                     \E e \in Finite(samples["eligible"]) : e[1] = s[1] /\ e[2] # 0 /\ 100 * s[2] < threshold * e[2]}
        condition == IF goalKind = "business" THEN rate ELSE {s \in Finite(samples["value"]) : s[2] >= threshold}
    IN  And(condition, RuleValid) # {}
MissingFires == RuleValid = {}

(* For every set of samples the exported rules and the preview agree: the  *)
(* goal's alert fires when the preview is breaching, and the alert that    *)
(* evidence is missing exactly when the preview has no verdict.            *)
PreviewAgrees ==
    DOMAIN samples = AllQueries =>
        /\ RuleFires <=> Preview = "breaching"
        /\ MissingFires <=> Preview \notin {"breaching", "observed"}
=============================================================================
