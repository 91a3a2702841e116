-------------------------- MODULE TypedController --------------------------
(***************************************************************************)
(* The typed controller decorator (typedDecorator.Reconcile and patch in   *)
(* the operator/controller part of scheduling/node.go) around a wrapped    *)
(* finalizing controller, for one object.  Reconcile Gets the object from  *)
(* the informer cache, keeps a deep copy, lets the wrapped controller      *)
(* Finalize it (deletion timestamp set) or Reconcile it, then patches the  *)
(* body and then the status with merge patches computed from the copy.     *)
(* Each Patch decodes the server's answer into the updated object.  The    *)
(* object's status is a subresource: a body patch never changes it.  A    *)
(* second controller owns another finalizer on the same object.  A merge   *)
(* patch (client.MergeFrom, no optimistic lock) carries a changed list,    *)
(* the finalizers, whole.                                                  *)
(***************************************************************************)
EXTENDS Naturals

CONSTANTS
    Specs,        \* values a user writes into the object's spec
    Finalizing,   \* the wrapped controller implements Finalize
    MaxChanges,   \* bound on the user's writes
    MaxFailures   \* bound on failed Reconcile, Finalize and Patch calls

VARIABLES
    api,       \* the object in the API server, or Absent
    cache,     \* the informer's copy that kubeClient.Get reads
    queued,    \* the key waits in the work queue
    retry,     \* the key waits in the rate limiter after an error
    pc,        \* "idle", or the patch the decorator is about to make
    stored,    \* the deep copy taken after Get
    updated,   \* the object handed to the wrapped controller and to patch
    want,      \* the object as the wrapped controller left it
    rerr,      \* the error the current Reconcile will return
    changes, failures

vars == <<api, cache, queued, retry, pc, stored, updated, want, rerr, changes, failures>>

Absent == [gone |-> TRUE]
NoStatus == "none"
Own == "own"       \* the wrapped controller's finalizer
Other == "other"   \* the finalizer of another controller of the object
Object == [spec : Specs, finalizers : SUBSET {Own, Other}, deleting : BOOLEAN, status : Specs \cup {NoStatus}]
BodyFields == {"spec", "finalizers", "deleting"}

\* bodyEqual: deep equality with the status removed; statusEqual: of the status.
bodyEqual(a, b) == \A f \in BodyFields : a[f] = b[f]
statusEqual(a, b) == a.status = b.status

\* The wrapped controller: Reconcile adds its finalizer and reports the spec
\* it saw in the status; Finalize cleans up and removes the finalizer.
WrappedReconcile(o) == [o EXCEPT !.finalizers = @ \cup {Own}, !.status = o.spec]
WrappedFinalize(o) == [o EXCEPT !.finalizers = @ \ {Own}]

\* A merge patch from a to b sets the fields among fs that differ; the API
\* server drops an object being deleted once it has no finalizer left.
MergePatch(server, a, b, fs) == [f \in DOMAIN server |-> IF f \in fs /\ a[f] # b[f] THEN b[f] ELSE server[f]]
Persist(o) == IF o.deleting /\ o.finalizers = {} THEN Absent ELSE o

CanFail == failures < MaxFailures

Init ==
    /\ api = [spec |-> CHOOSE s \in Specs : TRUE, finalizers |-> {}, deleting |-> FALSE, status |-> NoStatus]
    /\ cache = api /\ queued = TRUE /\ retry = FALSE /\ pc = "idle"
    /\ stored = api /\ updated = api /\ want = api /\ rerr = FALSE
    /\ changes = 0 /\ failures = 0

(* Users change the spec or delete the object. *)
UserUpdate ==
    /\ changes < MaxChanges /\ api # Absent /\ ~api.deleting
    /\ \E s \in Specs \ {api.spec} : api' = [api EXCEPT !.spec = s]
    /\ changes' = changes + 1
    /\ UNCHANGED <<cache, queued, retry, pc, stored, updated, want, rerr, failures>>

UserDelete ==
    /\ changes < MaxChanges /\ api # Absent /\ ~api.deleting
    /\ api' = Persist([api EXCEPT !.deleting = TRUE])
    /\ changes' = changes + 1
    /\ UNCHANGED <<cache, queued, retry, pc, stored, updated, want, rerr, failures>>

(* The other controller adds its finalizer to a live object, and removes  *)
(* it once its own cleanup of a deleted object is done.                    *)
OtherAddFinalizer ==
    /\ changes < MaxChanges /\ api # Absent /\ ~api.deleting /\ Other \notin api.finalizers
    /\ api' = [api EXCEPT !.finalizers = @ \cup {Other}]
    /\ changes' = changes + 1
    /\ UNCHANGED <<cache, queued, retry, pc, stored, updated, want, rerr, failures>>

OtherFinalize ==
    /\ api # Absent /\ api.deleting /\ Other \in api.finalizers
    /\ api' = Persist([api EXCEPT !.finalizers = @ \ {Other}])
    /\ UNCHANGED <<cache, queued, retry, pc, stored, updated, want, rerr, changes, failures>>

(* The informer catches up and the watch enqueues the key. *)
InformerSync ==
    /\ cache # api
    /\ cache' = api /\ queued' = TRUE
    /\ UNCHANGED <<api, retry, pc, stored, updated, want, rerr, changes, failures>>

RetryDue ==
    /\ retry /\ retry' = FALSE /\ queued' = TRUE
    /\ UNCHANGED <<api, cache, pc, stored, updated, want, rerr, changes, failures>>

(* The operator process crashes, at any point of a Reconcile, and          *)
(* restarts: the queue, the rate limiter and the decorator's locals are     *)
(* lost, the informer lists the object afresh and the list enqueues it.     *)
Restart ==
    /\ CanFail /\ failures' = failures + 1
    /\ pc' = "idle" /\ cache' = api /\ queued' = TRUE /\ retry' = FALSE
    /\ UNCHANGED <<api, stored, updated, want, rerr, changes>>

\* Reconcile returns: an error is retried with rate limiting, Result{} is
\* forgotten (a pending delayed add stays pending).
Finish(err) ==
    /\ pc' = "idle" /\ rerr' = err
    /\ retry' = (retry \/ err)

\* Mutant: dispatch ignoring the deletion timestamp.
ReconcileStartNeverFinalizes ==
    /\ pc = "idle" /\ queued /\ cache # Absent
    /\ queued' = FALSE
    /\ stored' = cache
    /\ updated' = WrappedReconcile(cache) /\ want' = WrappedReconcile(cache)
    /\ \E e \in IF CanFail THEN BOOLEAN ELSE {FALSE} :
          rerr' = e /\ failures' = failures + (IF e THEN 1 ELSE 0)
    /\ pc' = "body"
    /\ UNCHANGED <<api, cache, retry, changes>>

(* Get (not-found ignored, another error returned), DeepCopyObject, and   *)
(* Finalize when the deletion timestamp is set and the controller is      *)
(* finalizing, Reconcile otherwise.                                       *)
ReconcileNotFound ==
    /\ pc = "idle" /\ queued /\ cache = Absent
    /\ queued' = FALSE
    /\ UNCHANGED <<api, cache, retry, pc, stored, updated, want, rerr, changes, failures>>

ReconcileGetFailed ==
    /\ pc = "idle" /\ queued /\ CanFail
    /\ queued' = FALSE /\ retry' = TRUE /\ failures' = failures + 1
    /\ UNCHANGED <<api, cache, pc, stored, updated, want, rerr, changes>>

ReconcileStart ==
    /\ pc = "idle" /\ queued /\ cache # Absent
    /\ queued' = FALSE
    /\ stored' = cache
    /\ LET out == IF cache.deleting /\ Finalizing THEN WrappedFinalize(cache)
                                                 ELSE WrappedReconcile(cache)
       IN updated' = out /\ want' = out
    /\ \E e \in IF CanFail THEN BOOLEAN ELSE {FALSE} :
          rerr' = e /\ failures' = failures + (IF e THEN 1 ELSE 0)
    /\ pc' = "body"
    /\ UNCHANGED <<api, cache, retry, changes>>

(* Patch Body if changed; on success the server's answer, with the server's *)
(* status, is decoded into updated.  A failed patch returns its error      *)
(* combined with Reconcile's, and Result{}.                                *)
PatchBody ==
    /\ pc = "body"
    /\ IF bodyEqual(stored, updated)
       THEN pc' = "status" /\ UNCHANGED <<api, updated, rerr, retry, failures>>
       ELSE \/ /\ api # Absent
               /\ api' = Persist(MergePatch(api, stored, updated, {"spec", "finalizers"}))
               /\ updated' = MergePatch(api, stored, updated, {"spec", "finalizers"})
               /\ pc' = "status" /\ UNCHANGED <<rerr, retry, failures>>
            \/ /\ (api = Absent \/ CanFail)
               /\ failures' = failures + (IF api = Absent THEN 0 ELSE 1)
               /\ Finish(TRUE) /\ UNCHANGED <<api, updated>>
    /\ UNCHANGED <<cache, queued, stored, want, changes>>

\* Mutant: the status patch left out.
PatchStatusSkipped ==
    /\ pc = "status" /\ Finish(rerr)
    /\ UNCHANGED <<api, cache, queued, stored, updated, want, changes, failures>>

(* Patch Status if changed, against the status subresource. *)
PatchStatus ==
    /\ pc = "status"
    /\ IF statusEqual(stored, updated)
       THEN Finish(rerr) /\ UNCHANGED <<api, failures>>
       ELSE \/ /\ api # Absent
               /\ api' = [api EXCEPT !.status = updated.status]
               /\ Finish(rerr) /\ UNCHANGED failures
            \/ /\ (api = Absent \/ CanFail)
               /\ failures' = failures + (IF api = Absent THEN 0 ELSE 1)
               /\ Finish(TRUE) /\ UNCHANGED api
    /\ UNCHANGED <<cache, queued, stored, updated, want, changes>>

Next ==
    \/ UserUpdate \/ UserDelete \/ OtherAddFinalizer \/ OtherFinalize \/ InformerSync \/ RetryDue \/ Restart
    \/ ReconcileNotFound \/ ReconcileGetFailed \/ ReconcileStart \/ PatchBody \/ PatchStatus

(* The informer, the rate limiter, the worker and the other controller's *)
(* finalization always make progress.                                      *)
Spec == Init /\ [][Next]_vars
        /\ WF_vars(InformerSync) /\ WF_vars(RetryDue) /\ WF_vars(OtherFinalize)
        /\ WF_vars(ReconcileNotFound \/ ReconcileGetFailed \/ ReconcileStart \/ PatchBody \/ PatchStatus)
-----------------------------------------------------------------------------

(* A Reconcile that returns no error has persisted the status the wrapped  *)
(* controller computed: patch compares the deep copy's status with the     *)
(* updated object's before sending the status patch (the wrapper's         *)
(* contract: body and status are patched independently when they differ).  *)
(* The step is the decorator's return from patch, never a crash.           *)
StatusPersistedOnSuccess ==
    [][PatchStatus /\ ~rerr' /\ api' # Absent => api'.status = want.status]_vars

(* Once users stop writing, the object ends up carrying the wrapped        *)
(* controller's finalizer and a status that reports its current spec,      *)
(* through failed patches, errors, half-applied body-then-status pairs and *)
(* restarts of the process between the two patches.                       *)
Converged == api = Absent \/ ((api.deleting \/ Own \in api.finalizers) /\ api.status = api.spec)
StatusEventuallyPersisted == <>[]Converged

(* An object marked for deletion is eventually gone: the decorator hands   *)
(* it to Finalize, whose finalizer removal the body patch persists.        *)
DeletionCompletes == (api # Absent /\ api.deleting) ~> (api = Absent)

(* A finalizer the other controller put on the object is taken off only by *)
(* that controller: the decorator's body patch, computed from a cached copy *)
(* that may predate the other finalizer, never removes it (the finalizer   *)
(* contract, which spec section 6's "patches body when it differs" relies  *)
(* on).                                                                    *)
ForeignFinalizerRemoved ==
    /\ api # Absent /\ Other \in api.finalizers
    /\ (api' = Absent \/ Other \notin api'.finalizers)
ForeignFinalizerKept == [][ForeignFinalizerRemoved => OtherFinalize]_vars
=============================================================================
