--------------------------- MODULE BundleSubmission ---------------------------
(***************************************************************************)
(* The leader's submissions to RootLayer in detail                         *)
(* (internal/validator/node.go): the reports of a checkpoint are grouped   *)
(* by intent, and after the wait for RootLayer's indexer a bundle is built *)
(* for every group and sent, all in one batch, or one by one with retries  *)
(* (submitIndividualValidationBundles, the fallback for signatures per     *)
(* intent, which nothing calls at this commit).  RaftValidator has the     *)
(* epochs, the triggers and the consensus; here are the signatures per     *)
(* intent of peers that still send them, the place of every key in the     *)
(* batch, partial failures, lost answers and overlapping submissions.      *)
(***************************************************************************)
EXTENDS Naturals, Sequences, FiniteSets, SequencesExt

CONSTANTS
    BundleReports,  \* execution reports
    IntentOf,       \* report -> intent group (intent, assignment and agent)
    Complete,       \* the groups with all three ids; gRPC lets an empty intent id pass
    Self,           \* this node
    Peers,          \* validators that sign per intent
    Required,       \* validatorSet.RequiredSignatures()
    MaxCheckpoints, \* bound: checkpoints
    MaxSignatures,  \* bound: signatures per intent
    MaxRetries,     \* attempts of submitSingleValidationBundle
    Submissions     \* bound: goroutines that submit

Intents == {IntentOf[r] : r \in BundleReports}

VARIABLES
    epoch,          \* epoch of the current checkpoint
    seen,           \* reports committed so far
    pending,        \* pendingReports
    epochIntents,   \* intents signed for, by epoch
    epochSigs,      \* epochValidationSignatures: signers by epoch
    intentSigs,     \* validationBundleSignatures: intent -> signatures [signer, epoch]
    subs,           \* the submitting goroutines
    indexed,        \* intents whose assignment RootLayer has indexed
    recorded,       \* bundles RootLayer recorded: submission -> intent -> count
    groups,         \* batches RootLayer was sent: [epoch, items, sigs]
    alive           \* FALSE after a panic

bundleVars == <<epoch, seen, pending, epochIntents, epochSigs, intentSigs, subs, indexed, recorded, groups, alive>>

None == [phase |-> "none"]

BundleInit ==
    /\ epoch = 1 /\ seen = {} /\ pending = {}
    /\ epochIntents = [e \in 1..MaxCheckpoints |-> {}]
    /\ epochSigs = [e \in 1..MaxCheckpoints |-> {}]
    /\ intentSigs = [i \in Intents |-> {}]
    /\ subs = [s \in Submissions |-> None]
    /\ indexed = {} /\ recorded = [s \in Submissions |-> [i \in Intents |-> 0]]
    /\ groups = {} /\ alive = TRUE

-----------------------------------------------------------------------------
(* Reports and signatures                                                  *)

Commit(r) ==
    /\ alive /\ r \notin seen
    /\ seen' = seen \cup {r} /\ pending' = pending \cup {r}
    /\ UNCHANGED <<epoch, epochIntents, epochSigs, intentSigs, subs, indexed, recorded, groups, alive>>

PendingIntents == {IntentOf[r] : r \in pending}

\* signAndGossipValidationBundles on this node.
SignEpoch ==
    /\ alive /\ epochSigs[epoch] = {} /\ pending # {}
    /\ epochIntents' = [epochIntents EXCEPT ![epoch] = PendingIntents]
    /\ epochSigs' = [epochSigs EXCEPT ![epoch] = {Self}]
    /\ UNCHANGED <<epoch, seen, pending, intentSigs, subs, indexed, recorded, groups, alive>>

NextCheckpoint ==
    /\ alive /\ epoch < MaxCheckpoints /\ epoch' = epoch + 1
    /\ UNCHANGED <<seen, pending, epochIntents, epochSigs, intentSigs, subs, indexed, recorded, groups, alive>>

\* groupReportsByIntent; the goroutine then sleeps while RootLayer's indexer catches up.
Asleep(intents) == [phase |-> "sleep", epoch |-> epoch, groups |-> intents]

\* The intents signed for of which a report is there, at least half of them.
Available == epochIntents[epoch] \cap PendingIntents
CanSubmit == Available # {} /\ 2 * Cardinality(Available) >= Cardinality(epochIntents[epoch])

Signers(i) == {x.signer : x \in intentSigs[i]}

\* The path of onValidationBundleSignatureReceived for signatures per intent: at the threshold,
\* which counts signatures of all epochs, every further signature starts a submission.
OnIntentSignature(i, v, e) ==
    /\ alive /\ i \in Complete
    /\ Cardinality({p \in Intents \X Peers : p[2] \in Signers(p[1])}) < MaxSignatures
    /\ v \notin Signers(i)
    /\ intentSigs' = [intentSigs EXCEPT ![i] = @ \cup {[signer |-> v, epoch |-> e]}]
    /\ IF Cardinality(intentSigs'[i]) >= Required /\ e = epoch /\ CanSubmit
       THEN \E s \in Submissions :
              subs[s] = None /\ subs' = [subs EXCEPT ![s] = Asleep(Available)]
       ELSE UNCHANGED subs
    /\ UNCHANGED <<epoch, seen, pending, epochIntents, epochSigs, indexed, recorded, groups, alive>>

\* submitToRootLayerWithData, with a copy of all pending reports.
SubmitToRootLayerWithData(s) ==
    /\ alive /\ subs[s] = None /\ pending # {}
    /\ subs' = [subs EXCEPT ![s] = Asleep(PendingIntents)]
    /\ UNCHANGED <<epoch, seen, pending, epochIntents, epochSigs, intentSigs, indexed, recorded, groups, alive>>

-----------------------------------------------------------------------------
(* Bundles                                                                 *)

\* RootLayer's indexer has the assignment of an intent.
Index(i) ==
    /\ i \in Complete \ indexed /\ indexed' = indexed \cup {i}
    /\ UNCHANGED <<epoch, seen, pending, epochIntents, epochSigs, intentSigs, subs, recorded, groups, alive>>

\* buildValidationBundleForIntent refuses a group without one of its ids.
Bundles(intents) == intents \cap Complete

\* Faulty: the key is noted before the bundle is built, here for those that come first.
KeysOfAll(items, intents) == SetToSeq(intents \ Complete) \o items

\* The key of a group whose bundle could not be built is skipped like the bundle.
KeysOf(items, intents) == items

\* The groups come in the order of a Go map; nothing is sent when no bundle could be built.
BuildBundles(s, how) ==
    /\ alive /\ subs[s].phase = "sleep"
    /\ \E items \in SetToSeqs(Bundles(subs[s].groups)) :
         subs' = [subs EXCEPT ![s] =
                    IF items = <<>> THEN [phase |-> "done"]
                    ELSE [phase |-> how, epoch |-> subs[s].epoch, items |-> items,
                          keys |-> KeysOf(items, subs[s].groups), results |-> <<>>, attempt |-> 1]]
    /\ UNCHANGED <<epoch, seen, pending, epochIntents, epochSigs, intentSigs, indexed, recorded, groups, alive>>

\* Faulty: the epoch of a signature is not compared.
IntentSignaturesOfAny(i, e) == intentSigs[i]

IntentSignatures(i, e) == {x \in intentSigs[i] : x.epoch = e}

\* convertToValidationBatchGroup: the signatures of the epoch; without any, one signature of
\* every intent that has one for the epoch (the loop over an intent's signers ends at its first
\* hit, whichever that is).
GroupSignatures(e) ==
    LET signedIntents == {i \in Intents : IntentSignatures(i, e) # {}}
    IN  IF epochSigs[e] # {} THEN {{[signer |-> v, epoch |-> e] : v \in epochSigs[e]}}
        ELSE {{f[i] : i \in signedIntents} :
                f \in {g \in [signedIntents -> UNION {intentSigs[i] : i \in Intents}] :
                         \A i \in signedIntents : g[i] \in IntentSignatures(i, e)}}

\* What RootLayer may record of a batch, and its answer, item by item.
Answers(items) == {ok \in [DOMAIN items -> BOOLEAN] : \A k \in DOMAIN items : ok[k] => items[k] \in indexed}
Recorded(s, items, ok) ==
    [recorded EXCEPT ![s] =
        [i \in Intents |-> recorded[s][i] + Cardinality({k \in DOMAIN items : items[k] = i /\ ok[k]})]]

\* submitValidationBundleBatch; no signature at all, and an RPC error, are a panic.
SubmitBatch(s) ==
    /\ alive /\ subs[s].phase = "batch"
    /\ \E sigs \in GroupSignatures(subs[s].epoch), ok \in Answers(subs[s].items), answered \in BOOLEAN :
         IF sigs = {}
         THEN alive' = FALSE /\ UNCHANGED <<subs, recorded, groups>>
         ELSE /\ groups' = groups \cup {[epoch |-> subs[s].epoch, sigs |-> sigs]}
              /\ recorded' = Recorded(s, subs[s].items, ok)
              /\ alive' = answered
              /\ subs' = IF answered THEN [subs EXCEPT ![s].phase = "clear", ![s].results = ok] ELSE subs
    /\ UNCHANGED <<epoch, seen, pending, epochIntents, epochSigs, intentSigs, indexed>>

\* Faulty: every error is retried.
IsRetryableAlways(error) == error # "none"

\* RootLayer does not know the assignment yet.
IsRetryable(error) == error = "intent status"

\* The result that stands for an answer without an error.
Ok(error) == error = "none"

\* RootLayer records the bundle of an intent it has indexed; its answer may be lost.
ErrorsFor(item) == IF item \in indexed THEN {"none", "lost", "other"} ELSE {"intent status", "other"}

\* submitSingleValidationBundle, one attempt.
SubmitSingle(s) ==
    /\ alive /\ subs[s].phase = "single"
    /\ LET k == Len(subs[s].results) + 1
           item == subs[s].items[k]
       IN  \E error \in ErrorsFor(item) :
             /\ recorded' = IF error \in {"none", "lost"} THEN [recorded EXCEPT ![s][item] = @ + 1] ELSE recorded
             /\ subs' = IF IsRetryable(error) /\ subs[s].attempt < MaxRetries
                        THEN [subs EXCEPT ![s].attempt = @ + 1]
                        ELSE [subs EXCEPT ![s].results = Append(@, Ok(error)), ![s].attempt = 1,
                                          ![s].phase = IF k = Len(subs[s].items) THEN "clear" ELSE @]
    /\ UNCHANGED <<epoch, seen, pending, epochIntents, epochSigs, intentSigs, indexed, groups, alive>>

\* Whether the next key of a submission is the report's and its result was Ok.
Clears(u, r) == u.results[1] /\ u.keys[1] = IntentOf[r]

\* clearReportsForIntent of the next key.
ClearReportsForIntent(s) ==
    /\ alive /\ subs[s].phase = "clear"
    /\ IF subs[s].results = <<>>
       THEN subs' = [subs EXCEPT ![s] = [phase |-> "done"]] /\ UNCHANGED pending
       ELSE /\ pending' = {r \in pending : ~Clears(subs[s], r)}
            /\ subs' = [subs EXCEPT ![s].results = Tail(@), ![s].keys = Tail(@)]
    /\ UNCHANGED <<epoch, seen, epochIntents, epochSigs, intentSigs, indexed, recorded, groups, alive>>

BundleNext ==
    \/ \E r \in BundleReports : Commit(r)
    \/ SignEpoch \/ NextCheckpoint
    \/ \E i \in Intents, v \in Peers, e \in 1..MaxCheckpoints : OnIntentSignature(i, v, e)
    \/ \E i \in Intents : Index(i)
    \/ \E s \in Submissions :
         \/ SubmitToRootLayerWithData(s)
         \/ BuildBundles(s, "batch") \/ BuildBundles(s, "single")
         \/ SubmitBatch(s) \/ SubmitSingle(s) \/ ClearReportsForIntent(s)

BundleSpec == BundleInit /\ [][BundleNext]_bundleVars

-----------------------------------------------------------------------------
\* A report leaves pendingReports only after RootLayer has recorded a bundle for its intent,
\* whichever groups failed, could not be built or were submitted twice meanwhile.
ClearedIsRecorded ==
    \A r \in seen \ pending : \E s \in Submissions : recorded[s][IntentOf[r]] > 0

\* Every signature of a batch was made for the batch's epoch, the ones taken from the
\* signatures per intent too.
GroupSignedForEpoch == \A g \in groups : \A x \in g.sigs : x.epoch = g.epoch

\* No submission has RootLayer record an intent twice: it is tried again only after an answer
\* that says it was not recorded.
RecordedOncePerSubmission == \A s \in Submissions, i \in Intents : recorded[s][i] <= 1

\* What is cleared, sent and recorded, whatever fails in between.
BundlesInv == ClearedIsRecorded /\ GroupSignedForEpoch /\ RecordedOncePerSubmission
=============================================================================
