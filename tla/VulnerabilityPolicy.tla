------------------------- MODULE VulnerabilityPolicy -------------------------
(***************************************************************************)
(* scripts/enforce_vulnerability_policy.py: a scanner's report against the *)
(* reviewed exceptions of the repository, on the day of the scan.  A key   *)
(* identifies one vulnerability in one installed artifact (FindingKey).    *)
(***************************************************************************)
EXTENDS Integers, Sequences, Functions

CONSTANTS MaxWindow   \* MAX_EXCEPTION_WINDOW_DAYS

ASSUME PolicyAssumption == MaxWindow \in Nat \ {0}

\* A finding is actionable if it is high or critical and a fix is known.
Actionable(report) ==
  {match.key : match \in {m \in report : m.severity \in {"high", "critical"} /\ m.fixed}}

\* Mutation of ValidException: whether it has expired is not looked at.
ValidExceptionUnexpiring(exception, today) ==
  /\ exception.complete /\ exception.explained
  /\ exception.reviewed <= today
  /\ exception.expires - exception.reviewed \in 1 .. MaxWindow

\* reviewed_on and expires_on are days; both are the last day they name.
ValidException(exception, today) ==
  /\ exception.complete      \* exactly the required fields, none of them empty
  /\ exception.explained     \* reason and removal_plan of 40 characters or more
  /\ exception.reviewed <= today
  /\ exception.expires >= today
  /\ exception.expires - exception.reviewed \in 1 .. MaxWindow

Keys(exceptions) == {exceptions[i].key : i \in DOMAIN exceptions}

\* An actionable finding without an exception fails the policy, and so does
\* an exception without a finding.
PolicyPasses(report, exceptions, today) ==
  /\ \A i \in DOMAIN exceptions : ValidException(exceptions[i], today)
  /\ IsInjective([i \in DOMAIN exceptions |-> exceptions[i].key])
  /\ Keys(exceptions) = Actionable(report)

\* What evaluate_vulnerability_policy writes down, of which only the status
\* is read again.
PolicyResult(report, exceptions, today) ==
  IF PolicyPasses(report, exceptions, today)
    THEN [status |-> "passed", day |-> today, approved |-> Actionable(report)]
    ELSE [status |-> "failed"]
=============================================================================
