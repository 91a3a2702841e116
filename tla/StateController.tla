-------------------------- MODULE StateController --------------------------
(***************************************************************************)
(* A cluster-state controller of src/pkg/controllers/state (node.go; pod.go *)
(* is the same code over pods) run by the controller runtime.  Objects      *)
(* live in the API server (api) and reach the process through an informer  *)
(* cache (cache) that lags it; every change the informer sees enqueues the *)
(* key.  The work queue hands a key to at most one of the workers (at most *)
(* MaxConcurrentReconciles) and re-queues a key added while it is being    *)
(* reconciled.  Reconcile reads the cache, calls DeleteNode on not-found   *)
(* and UpdateNode otherwise, and asks to be requeued after stateRetryPeriod*)
(* on success; an UpdateNode error is retried with rate limiting.  An      *)
(* object value is 0 when absent and otherwise the version it was last     *)
(* written with.                                                           *)
(***************************************************************************)
EXTENDS Naturals, FiniteSets, Sequences
LOCAL INSTANCE SequencesExt

CONSTANTS
    Keys,          \* the names (node) or namespaced names (pod) reconciled
    MaxChanges,    \* bound on the writes the rest of the cluster makes
    MaxFailures    \* bound on the Get and UpdateNode calls that fail

VARIABLES
    api,       \* api[k]: the object stored by the API server
    cache,     \* cache[k]: the informer's copy that kubeClient.Get reads
    queue,     \* the work queue's FIFO of keys to hand out
    dirty,     \* keys added and not yet handed out (queued, or waiting for Done)
    retry,     \* keys waiting in the rate limiter after an error
    resync,    \* keys waiting out RequeueAfter after a success
    busy,      \* busy[w]: the key worker w reconciles, or NoKey
    read,      \* read[w]: what worker w's Get returned
    cluster,   \* cluster[k]: the object as the cluster state holds it
    changes,   \* writes made to the API server so far
    failures   \* Get and UpdateNode calls that failed so far

vars == <<api, cache, queue, dirty, retry, resync, busy, read, cluster, changes, failures>>

NoKey == "none"

\* Builder: WithOptions(controller.Options{MaxConcurrentReconciles: 10}).
\* A key is never held by two workers, so more workers than keys never run.
MaxConcurrentReconciles == 10
Workers == 1 .. IF Cardinality(Keys) < MaxConcurrentReconciles
                THEN Cardinality(Keys) ELSE MaxConcurrentReconciles

Processing == {busy[w] : w \in Workers} \ {NoKey}

\* The work queue's Add: a key already waiting is not added twice, and a key
\* being reconciled is only marked, to be queued again by Done.
Add(k) ==
    /\ dirty' = dirty \cup {k}
    /\ queue' = IF k \in dirty \cup Processing THEN queue ELSE Append(queue, k)

\* The cluster-state store: DeleteNode forgets the object, UpdateNode
\* records the object it is given.
DeleteNode(k) == [cluster EXCEPT ![k] = 0]
UpdateNode(k, obj) == [cluster EXCEPT ![k] = obj]

Init ==
    /\ api \in [Keys -> {0, 1}]
    /\ cache = api                        \* WaitForCacheSync before workers start
    /\ dirty = {k \in Keys : api[k] # 0}  \* the initial list adds every object
    /\ queue \in SetToSeqs(dirty)            \* in the order the list returned them
    /\ retry = {}
    /\ resync = {}
    /\ busy = [w \in Workers |-> NoKey]
    /\ read = [w \in Workers |-> 0]
    /\ cluster = [k \in Keys |-> 0]
    /\ changes = 1
    /\ failures = 0

(* The rest of the cluster creates, updates or deletes an object. *)
ApiWrite(k) ==
    /\ changes < MaxChanges
    /\ \E obj \in {0, changes + 1} \ {api[k]} : api' = [api EXCEPT ![k] = obj]
    /\ changes' = changes + 1
    /\ UNCHANGED <<cache, queue, dirty, retry, resync, busy, read, cluster, failures>>

(* The informer applies the latest state of an object to its store and the *)
(* For(&v1.Node{}) event handler adds the key to the queue.                *)
InformerSync(k) ==
    /\ cache[k] # api[k]
    /\ cache' = [cache EXCEPT ![k] = api[k]]
    /\ Add(k)
    /\ UNCHANGED <<api, retry, resync, busy, read, cluster, changes, failures>>

(* A delayed add comes due and puts the key back in the queue. *)
RequeueDue(k) ==
    /\ k \in retry \cup resync
    /\ \/ k \in retry  /\ retry' = retry \ {k}   /\ UNCHANGED resync
       \/ k \in resync /\ resync' = resync \ {k} /\ UNCHANGED retry
    /\ Add(k)
    /\ UNCHANGED <<api, cache, busy, read, cluster, changes, failures>>

(* An idle worker takes the key at the head of the queue and Gets it. *)
ReconcileGet(w) ==
    /\ busy[w] = NoKey /\ queue # <<>>
    /\ LET k == Head(queue) IN
          /\ queue' = Tail(queue)
          /\ dirty' = dirty \ {k}
          /\ busy' = [busy EXCEPT ![w] = k]
          /\ read' = [read EXCEPT ![w] = cache[k]]
    /\ UNCHANGED <<api, cache, retry, resync, cluster, changes, failures>>

(* Get fails with an error other than not-found: IgnoreNotFound returns   *)
(* it, and the key goes to the rate limiter.                              *)
ReconcileGetFailed(w) ==
    /\ busy[w] = NoKey /\ queue # <<>>
    /\ failures < MaxFailures
    /\ failures' = failures + 1
    /\ queue' = Tail(queue)
    /\ dirty' = dirty \ {Head(queue)}
    /\ retry' = retry \cup {Head(queue)}
    /\ UNCHANGED <<api, cache, resync, busy, read, cluster, changes>>

\* Done: the worker lets go of the key, which is queued again if it was
\* added while being reconciled.
Done(w) ==
    /\ busy' = [busy EXCEPT ![w] = NoKey]
    /\ queue' = IF busy[w] \in dirty THEN Append(queue, busy[w]) ELSE queue

\* Mutant: the not-found branch without cluster.DeleteNode.
ReconcileNotFoundKeepsState(w) ==
    /\ busy[w] # NoKey /\ read[w] = 0
    /\ Done(w)
    /\ UNCHANGED <<api, cache, dirty, retry, resync, read, cluster, changes, failures>>

(* Get returned not-found: DeleteNode, and IgnoreNotFound returns no error *)
(* and an empty result, so the key is forgotten.                          *)
ReconcileNotFound(w) ==
    /\ busy[w] # NoKey /\ read[w] = 0
    /\ cluster' = DeleteNode(busy[w])
    /\ Done(w)
    /\ UNCHANGED <<api, cache, dirty, retry, resync, read, changes, failures>>

(* UpdateNode succeeds: Result{Requeue: true, RequeueAfter: stateRetryPeriod}. *)
ReconcileUpdate(w) ==
    /\ busy[w] # NoKey /\ read[w] # 0
    /\ cluster' = UpdateNode(busy[w], read[w])
    /\ resync' = resync \cup {busy[w]}
    /\ Done(w)
    /\ UNCHANGED <<api, cache, dirty, retry, read, changes, failures>>

\* Mutant: an UpdateNode error swallowed, returning an empty result.
ReconcileUpdateFailedForgotten(w) ==
    /\ busy[w] # NoKey /\ read[w] # 0
    /\ failures < MaxFailures
    /\ failures' = failures + 1
    /\ Done(w)
    /\ UNCHANGED <<api, cache, dirty, retry, resync, read, cluster, changes>>

(* UpdateNode fails: the error is returned and the key is rate-limited. *)
ReconcileUpdateFailed(w) ==
    /\ busy[w] # NoKey /\ read[w] # 0
    /\ failures < MaxFailures
    /\ failures' = failures + 1
    /\ retry' = retry \cup {busy[w]}
    /\ Done(w)
    /\ UNCHANGED <<api, cache, dirty, resync, read, cluster, changes>>

Reconcile(w) ==
    \/ ReconcileGet(w)
    \/ ReconcileGetFailed(w)
    \/ ReconcileNotFound(w)
    \/ ReconcileUpdate(w)
    \/ ReconcileUpdateFailed(w)

Next ==
    \/ \E k \in Keys : ApiWrite(k) \/ InformerSync(k) \/ RequeueDue(k)
    \/ \E w \in Workers : Reconcile(w)

(* The informer, the workers and the rate limiter's timers always make     *)
(* progress; the rest of the cluster and the periodic resync need not.     *)
Fairness ==
    /\ \A k \in Keys : WF_vars(InformerSync(k)) /\ WF_vars(k \in retry /\ RequeueDue(k))
    /\ \A w \in Workers : WF_vars(Reconcile(w))

Spec == Init /\ [][Next]_vars /\ Fairness

-----------------------------------------------------------------------------

(* When the informer has caught up, no worker is busy and nothing waits in *)
(* the queue or the rate limiter, the cluster state holds exactly what the *)
(* API server holds: no deleted object survives a stale Get, no update is  *)
(* lost to a failed UpdateNode or to a key added while it was reconciled.  *)
QuiescentStateMatches ==
    (cache = api /\ Processing = {} /\ dirty = {} /\ retry = {}) => cluster = api

(* Once the cluster stops changing, the cluster state comes to equal the   *)
(* API server and stays equal, through every periodic requeue.             *)
ClusterStateConverges == <>[](cluster = api)
=============================================================================
