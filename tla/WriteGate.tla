------------------------------ MODULE WriteGate ------------------------------
(***************************************************************************)
(* The write gate of src/higgs_agent/validation/write_gate.py: the pure    *)
(* decision evaluate_write_request takes on a finished execution.  A       *)
(* change set is a function from changed paths to their line deltas; what  *)
(* fnmatch answers for a path is given by sets of paths in the policy.     *)
(***************************************************************************)
EXTENDS Integers, Sequences, FiniteSets, FiniteSetsExt

CONSTANT Paths   \* repository-relative paths a plan may change

Change    == [delta : Nat, binary : BOOLEAN]
Decisions == {"accepted", "handoff_required", "rejected"}

\* WritePolicy.  secretNames are the paths PROTECTED_NAME_PATTERNS match.
WritePolicies ==
  [allowed : SUBSET Paths, protected : SUBSET Paths, secretNames : SUBSET Paths,
   maxFiles : Int, maxDelta : Int, allowBinary : BOOLEAN,
   reviewProtected : BOOLEAN, reviewSecret : BOOLEAN, reviewViolation : BOOLEAN]

ChangedPaths(req) == DOMAIN req.changes

TotalDelta(req) == MapThenSumSet(LAMBDA p : req.changes[p].delta, ChangedPaths(req))

ProtectedHits(req, policy)  == ChangedPaths(req) \cap policy.protected
DisallowedHits(req, policy) == ChangedPaths(req) \ policy.allowed
BinaryHits(req)             == {p \in ChangedPaths(req) : req.changes[p].binary}

\* _detect_secret_suspect: a sensitive file name, or a pattern in the output.
SecretSuspect(req, policy) ==
  \/ ChangedPaths(req) \cap policy.secretNames # {}
  \/ req.secretInOutput

\* The conditions the function tests, in the order it appends diagnostics.
DiagnosticNames ==
  << "max_changed_files_exceeded", "max_net_line_delta_exceeded",
     "disallowed_paths", "binary_writes_not_allowed", "secret_suspect_detected",
     "diff_is_not_deterministic", "protected_paths" >>

Diagnosed(d, req, policy) ==
  CASE d = "max_changed_files_exceeded"  -> Cardinality(ChangedPaths(req)) > policy.maxFiles
    [] d = "max_net_line_delta_exceeded" -> TotalDelta(req) > policy.maxDelta
    [] d = "disallowed_paths"            -> DisallowedHits(req, policy) # {}
    [] d = "binary_writes_not_allowed"   -> BinaryHits(req) # {} /\ ~policy.allowBinary
    [] d = "secret_suspect_detected"     -> SecretSuspect(req, policy)
    [] d = "diff_is_not_deterministic"   -> ~req.deterministic
    [] d = "protected_paths"             -> ProtectedHits(req, policy) # {}

\* The places in DiagnosticNames of the diagnostics that are appended.
Diagnostics(req, policy) ==
  {i \in DOMAIN DiagnosticNames : Diagnosed(DiagnosticNames[i], req, policy)}

RequiresReview(req, policy) ==
  \/ ProtectedHits(req, policy) # {} /\ policy.reviewProtected
  \/ SecretSuspect(req, policy) /\ policy.reviewSecret
  \/ Diagnostics(req, policy) # {} /\ policy.reviewViolation

FirstDiagnostic(req, policy) ==
  DiagnosticNames[CHOOSE i \in Diagnostics(req, policy) :
                    \A j \in Diagnostics(req, policy) : i <= j]

\* _primary_reason.
PrimaryReason(req, policy) ==
  CASE SecretSuspect(req, policy)        -> "secret_suspect"
    [] ~SecretSuspect(req, policy) /\ ProtectedHits(req, policy) # {}
                                         -> "protected_path_touched"
    [] OTHER                             -> FirstDiagnostic(req, policy)

Reasons ==
  {"executor_did_not_succeed", "validation_failed", "no_repository_mutation_proposed",
   "secret_suspect", "protected_path_touched", "write_request_within_policy"}
  \cup {DiagnosticNames[i] : i \in DOMAIN DiagnosticNames}

Verdict(decision, reason, review) ==
  [decision |-> decision, reason |-> reason, review |-> review]

\* evaluate_write_request, its early returns in order.
Evaluate(req, policy) ==
  CASE req.executor # "succeeded" ->
         Verdict("rejected", "executor_did_not_succeed", FALSE)
    [] req.executor = "succeeded" /\ ~req.passed ->
         Verdict("rejected", "validation_failed", FALSE)
    [] req.executor = "succeeded" /\ req.passed /\ ChangedPaths(req) = {} ->
         Verdict("rejected", "no_repository_mutation_proposed", FALSE)
    [] OTHER ->
         IF RequiresReview(req, policy)
         THEN Verdict("handoff_required", PrimaryReason(req, policy), TRUE)
         ELSE IF Diagnostics(req, policy) # {}
         THEN Verdict("rejected", PrimaryReason(req, policy), FALSE)
         ELSE Verdict("accepted", "write_request_within_policy", FALSE)
=============================================================================
