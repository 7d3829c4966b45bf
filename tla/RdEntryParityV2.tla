---------------------------- MODULE RdEntryParityV2 ----------------------------
(***************************************************************************)
(* The edge's evaluation against the producer's diagnostic                 *)
(* (rd-entry-parity.ts), and what an evaluation is worth when the two      *)
(* differ.                                                                 *)
(***************************************************************************)
EXTENDS RdEntryWireV2, RdEntryArbitratorV2

producerCandidateKey(value) == <<value.model, value.event_anchor_epoch, value.trigger_ordinal>>

backendCandidateKey(value) == <<value.model, value.event_anchor_epoch, value.trigger_ordinal>>

CANDIDATE_DESCRIPTOR == {"normalized_from", "source_claim_ids", "state"}

backendCandidateDescriptor(value) ==
  <<backendCandidateKey(value), [f \in CANDIDATE_DESCRIPTOR |-> value[f]]>>

producerCandidateDescriptor(value) ==
  <<producerCandidateKey(value), [f \in CANDIDATE_DESCRIPTOR |-> value[f]]>>

sameKeys(left, right) == left = right

EVIDENCE_DESCRIPTOR ==
  {"proof_plane", "proof_resolution_seconds", "coverage_start_epoch", "coverage_end_epoch",
   "observed_trigger_epoch", "observed_trigger_ticks", "htf_context_minutes", "fidelity", "ambiguity_codes",
   "passed_rule_ids", "failed_rule_ids", "source_claim_ids"}

CandidateOf(item, backend) == CHOOSE c \in backend.candidates : c.candidate_id = item.candidate_id

backendEvidenceDescriptor(item, backend) ==
  <<backendCandidateKey(CandidateOf(item, backend)), [f \in EVIDENCE_DESCRIPTOR |-> item[f]]>>

producerEvidenceDescriptor(item) ==
  <<producerCandidateKey(item.candidate), [f \in EVIDENCE_DESCRIPTOR |-> item[f]]>>

HANDLING_DESCRIPTOR ==
  {"handling_mode", "attempt_kind", "observed_epoch", "observed_ticks", "fidelity", "source_claim_ids"}

backendHandlingDescriptor(item, backend) ==
  <<backendCandidateKey(CandidateOf(item, backend)), [f \in HANDLING_DESCRIPTOR |-> item[f]],
    backendEvidenceDescriptor(CHOOSE e \in backend.evidence : e.evidence_id = item.evidence_id, backend)>>

producerHandlingDescriptor(item) ==
  <<producerCandidateKey(item.candidate), [f \in HANDLING_DESCRIPTOR |-> item[f]],
    producerEvidenceDescriptor(item.evidence)>>

(* Where the lists of the two differ. *)
ListFailures(backend, producer) ==
  (IF sameKeys({backendCandidateDescriptor(c) : c \in backend.candidates},
               {producerCandidateDescriptor(c) : c \in producer.candidates})
   THEN {} ELSE {"CANDIDATE_KEYS"})
  \cup
  (IF sameKeys({backendEvidenceDescriptor(e, backend) : e \in backend.evidence},
               {producerEvidenceDescriptor(e) : e \in producer.evidence})
   THEN {} ELSE {"EVIDENCE_DESCRIPTORS"})
  \cup
  (IF sameKeys({backendHandlingDescriptor(h, backend) : h \in backend.handling},
               {producerHandlingDescriptor(h) : h \in producer.handling})
   THEN {} ELSE {"HANDLING_DESCRIPTORS"})

(* Where the selections differ; the producer never claims more than SHADOW_ONLY. *)
SelectionFailures(backend, proposed) ==
  LET selection == backend.selection
      canonical == {c \in backend.candidates : c.candidate_id = selection.canonical_candidate_id}
  IN  {failure \in {"SELECTED_CANDIDATE", "REASON", "FIDELITY", "DIAGNOSTIC_ACTION"} :
         CASE failure = "SELECTED_CANDIDATE" ->
                {proposed.semantic_key} # (IF canonical = {} THEN {Null}
                                           ELSE {backendCandidateKey(c) : c \in canonical})
           [] failure = "REASON" -> proposed.reason # selection.reason
           [] failure = "FIDELITY" -> proposed.fidelity # selection.fidelity
           [] failure = "DIAGNOSTIC_ACTION" ->
                proposed.action # (IF selection.action = "NONE" THEN "NONE" ELSE "SHADOW_ONLY")}

EntryParityResult(status, failures) ==
  [status |-> status,
   mismatchReason |-> CASE failures = {} -> Null
                        [] Cardinality(failures) = 1 -> CHOOSE f \in failures : TRUE
                        [] Cardinality(failures) > 1 -> "MULTIPLE"]

compareProducerDiagnostic(backend, producer) ==
  LET failures == ListFailures(backend, producer)
                    \cup (IF producer.selection = Null THEN {} ELSE SelectionFailures(backend, producer.selection))
  IN  EntryParityResult(IF failures # {} THEN "MISMATCH"
                        ELSE IF producer.selection = Null THEN "NOT_PROVIDED" ELSE "MATCH", failures)

\* Mutant: the producer's agreement is not asked for.
EffectiveWithoutParity(policy, parity, canonicalPaperEnabled, promotionIdentityMismatch) ==
  [policy_action |-> policy.action, effective_action_reason |-> Null,
   action |-> IF canonicalPaperEnabled /\ ~promotionIdentityMismatch THEN policy.action
              ELSE IF policy.action = "NONE" THEN "NONE" ELSE "SHADOW_ONLY"]

(* The action an evaluation is stored with. *)
effectiveSelection(policy, parity, canonicalPaperEnabled, promotionIdentityMismatch) ==
  [policy_action |-> policy.action,
   effective_action_reason |-> IF promotionIdentityMismatch /\ policy.action = "PAPER_ELIGIBLE"
                               THEN "PROMOTION_IDENTITY_MISMATCH" ELSE Null,
   action |-> IF parity.status = "MATCH" /\ canonicalPaperEnabled /\ ~promotionIdentityMismatch
              THEN policy.action
              ELSE IF policy.action = "NONE" THEN "NONE" ELSE "SHADOW_ONLY"]
================================================================================
