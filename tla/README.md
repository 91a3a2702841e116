# TLA+ models of the karpenter-core scheduling solver

This directory holds TLA+ models of the provisioning scheduler in
`src/pkg/controllers/provisioning/scheduling/node.go` and of the cluster-state
controllers in `src/pkg/controllers/state/`. It also has the TLC configurations
that check them. The models follow the Go source. Collaborators that are not
under `src/` (the queue, the relaxer, the requirement algebra, host-port usage,
`ExistingNode`) are modelled from `spec.md`, and `PROJECT.json` marks them
`spec_modelled`.

The file `provisioning/scheduling/node.go` holds three Go files one after the
other. Line numbers in this README and in `PROJECT.json` count lines in that
combined file:

| lines   | original file                         | contents |
|---------|---------------------------------------|----------|
| 1–159   | `scheduling/node.go`                  | `Node`, `NewNode`, `Add`, `FinalizeScheduling`, the instance-type filter |
| 160–447 | `scheduling/scheduler.go`             | `NewScheduler`, `Solve`, `add`, `recordSchedulingResults`, `calculateExistingMachines`, `subtractMax`, `filterByRemainingResources` |
| 448–584 | `operator/controller/typed.go`        | the typed controller decorator (`Reconcile`, `patch`) |

## 1. Inventory

### Components, their state and their operations

| component | state | operations (source) |
|---|---|---|
| Instance-type filter | none (pure) | `filterInstanceTypesByRequirements`, `compatible`, `fits`, `hasOffering` (node.go 137–159) |
| Provisioner limit tracker | `remainingResources`: provisioner → budget | built by `NewScheduler` (234–238) and `calculateExistingMachines` (385–405); read by `filterByRemainingResources` (430–447); reduced by `subtractMax` (407–428) when `add` creates a node (379) |
| Prospective node `Node` | template copy with a hostname requirement, requests, surviving instance types, pods, host-port usage | `NewNode` (44–60), `Add` (62–107), `FinalizeScheduling` (111–115) |
| Existing node wrapper | node labels, startup taints, requests, pods, host ports | `NewExistingNode`, `Add` (not under `src/`, spec §4.6) |
| Work queue `Queue` | pods, `lastLen` per pod | `NewQueue` (sorts by CPU, then memory, descending), `Pop`, `Push(pod, relaxed)`, `List` (not under `src/`) |
| Preference relaxer | the pod's in-memory scheduling view | `Relax`, one soft constraint per call (not under `src/`, spec §4.4) |
| Topology tracker | per-group domain counters | `Register`, `AddRequirements`, `Record`, `Update` (not under `src/`, spec §4.3; not modelled, see §4) |
| Scheduler | queue, errors map, `newNodes`, `existingNodes`, `remainingResources`, the process-wide `nodeID` | `NewScheduler` (200–242), `Solve` (260–297), `add` (338–383), `recordSchedulingResults` (299–336) |
| Node / pod state controllers | the shared `Cluster` (not under `src/`) | `Reconcile`: `Get`, then `DeleteNode`/`DeletePod` on not-found or `UpdateNode`/`UpdatePod`, then requeue after 1 min (state/node.go 50–65, state/pod.go 52–66); up to 10 concurrent reconciles |
| Instance-type listing | none (pure) | `InstanceTypeList` (121–136), used by `Node.String` and the scheduler's error messages |
| Typed controller decorator | none of its own; the object it patches, and the `updated` copy each `Patch` decodes the server's answer into | `Reconcile` (511–541): `Get`, deep copy, `Finalize` or `Reconcile`, `patch` (547–565): body patch, then status patch; `bodyEqual`, `statusEqual` (567–584) |

### How the components interact

`Solve` owns every structure it mutates and runs on one goroutine. It pops a pod
and calls `add`. `add` tries the in-flight `ExistingNode`s in order, sorts
`newNodes` by pod count, tries them, and then tries the machine templates in
declaration order. For each template it filters the provisioner's instance types
by the remaining budget, calls `NewNode` (which takes a hostname from the global
`nodeID` counter and registers it with the topology) and then `Node.Add`. A
created node reserves `subtractMax` of its options against the budget. If the pod
fails, `Solve` calls `Preferences.Relax` and pushes the pod back. It then calls
`topology.Update` if the relaxation changed something. When `Pop` reports no more
progress, `Solve` finalizes the nodes. Outside simulation mode it then publishes
events and calls `cluster.NominateNodeForPod`.

The state controllers fill the `Cluster` that the provisioner snapshots into
`stateNodes` before it builds the scheduler. They run concurrently with each
other and with solves. The solve reads one snapshot.

### What is hard here

- **Accumulation across calls.** `Node.Add` checks a pod against requests and
  requirements built up by all earlier `Add`s. Each check is local, but the
  result must hold for every pod on the node.
- **Pessimistic budgets.** A limit is respected only because each node reserves
  the largest capacity it may still be launched as, key by key, and because the
  filter runs before `NewNode`.
- **Fixpoint termination.** The loop ends only through `Queue.Pop`'s progress
  detection. A failed pod is always pushed back, and a relaxation resets the
  detector.
- **Unspecified orders.** `NewQueue` and `add` both use `sort.Slice`, which is
  not stable. Nodes or pods that compare equal come in any order.
- **Side effects of failed attempts.** `NewNode` consumes a hostname even when
  `Add` then rejects the pod.
- **Concurrency outside the solver.** The state controllers run up to 10
  concurrent reconciles against a shared store. They infer deletion from a
  not-found read of a cache that lags the API server, and requeue every minute.
  The typed decorator writes body and status in two patches, either can fail,
  and the first overwrites the object the second is computed from.

### What makes each component correct

- Instance-type filter: the surviving types fit the accumulated requests plus
  their own overhead, and have an available offering the requirements allow.
- Limit tracker: in-flight capacity plus the largest possible capacity of every
  new node stays within the limit.
- Node: every pod on a node tolerates its taints, shares no host port with
  another pod on it, and accepts the node's zone and capacity type. The node only
  narrows.
- Scheduler: every pod is placed once or reported failed, and `Solve` returns.
- Topology: spread skew, affinity and anti-affinity hold over snapshot pods plus
  placed pods.
- State controllers: the store converges to the API server's objects, and a
  deletion is not undone by a stale update.
- Typed decorator: the object is patched exactly when it changed, and a failure
  is reported.

## 2. Modules

| module | models | state / operators |
|---|---|---|
| `InstanceTypes` | the instance-type filter and the limit arithmetic | pure operators: `compatible`, `fits`, `hasOffering`, `filterInstanceTypesByRequirements`, `filterByRemainingResources`, `subtractMax`, plus the resource and requirement algebra they call (`Merge`, `Fits`, `Intersects`, `Intersect`, `Subtract`) |
| `SchedulingNode` | `scheduling.Node` and `ExistingNode` | a node is a record: `NewNode`, `CanAdd` (the guards of `Add` in order), `AddPod` (its updates), `FinalizeScheduling`; `CanAddExisting`, `AddPodExisting` |
| `Scheduler` | `NewScheduler`, `Solve`, `add`, `recordSchedulingResults`, the queue and the relaxer | variables `queue`, `lastLen`, `pods` (relaxed views), `errors`, `newNodes`, `existingNodes`, `remaining`, `nodeID`, `phase`, `published`, `nominated`; actions `SchedulePod` (one loop iteration, the whole of `add` included) and `Finish` |
| `SolveCancellation` | `Solve` with a caller that cancels its context | adds `cancelled` and the environment action `CancelContext` |
| `SolveSpec` | what `Solve` promises (spec §4.7, §6), without the search | `target` (per pod: pending, `"new"` or an in-flight node's name), `done`, `events`; actions `Place(p, t)` (once per pod) and `Return` |
| `SolveRefinement` | `Scheduler` implements `SolveSpec` | refinement mapping `TargetOf` (read off the nodes holding the pod), `done <- phase = "done"`, `events <- published`; properties `SolveRefinesAbstract == Abstract!Spec` and `SolveRefinesLiveSpec == Abstract!LiveSpec` |
| `StateController` | one cluster-state controller (state/node.go; state/pod.go is the same code) in the controller runtime | variables `api`, `cache` (informer), `queue`/`dirty` (client-go work queue), `retry`, `resync`, `busy`/`read` per worker, `cluster` (the store), `changes`, `failures`; actions `ApiWrite`, `InformerSync`, `RequeueDue`, and per worker `ReconcileGet`, `ReconcileGetFailed`, `ReconcileNotFound`, `ReconcileUpdate`, `ReconcileUpdateFailed` |
| `ClusterState` | the node and pod controllers side by side | two `INSTANCE StateController WITH ...` (`NodeController`, `PodController`), `NodeStep`, `PodStep` |
| `InstanceTypeListing` | `InstanceTypeList` | the loop as the RECURSIVE `ListFrom` over token sequences, a `ReferenceListing`, and a variable `options` that `Grow` extends one instance type at a time |
| `TypedController` | `typedDecorator.Reconcile` and `patch` for one object shared with another controller | variables `api`, `cache`, `queued`, `retry`, `pc`, `stored`, `updated`, `want`, `rerr`; actions `UserUpdate`, `UserDelete`, `OtherAddFinalizer`, `OtherFinalize`, `InformerSync`, `RetryDue`, `Restart`, `ReconcileNotFound`, `ReconcileGetFailed`, `ReconcileStart`, `PatchBody`, `PatchStatus` |
| `MC_Scheduler`, `MC_SolveCancellation`, `MC_SolveRefinement`, `MC_StateController` | model-checking instances (`MC_SolveRefinement` adds the refinement to the `MC_Scheduler` cluster and is the module of the scheduler safety and termination runs) | constant definitions, symmetry sets |

How the model corresponds to the code:

- `SchedulePod` is one iteration of the `for` loop at lines 268–288.
  - `AddToExisting` is lines 339–344.
  - `AddToNew` is lines 346–383. It picks any permutation that the unstable
    `sort.Slice` may produce, then tries the sorted nodes and then `CreateNode`.
  - `CreateNode` is a `RECURSIVE` walk over the templates. It skips a template
    whose filtered list is empty, and it advances `nodeID` for every `NewNode`,
    including ones whose `Add` fails.
  - `Placed` is the `continue` at line 277. `Failed` is lines 280–287. Its two
    disjuncts are `Relax` returning true (the progress record is reset) and
    false (the pod's `lastLen` is set).
- `Finish` is lines 289–297 with `recordSchedulingResults`, including its
  `SimulationMode` branch.
- A budget entry for a provisioner without limits appears where the code creates
  one: `Subtract` of a nil list in `calculateExistingMachines` (403), and the
  `remainingResources[name] = subtractMax(...)` assignment (379).
- Data is abstracted:
  - Requirements are reduced to the allowed-value sets of the two keys the code
    reads itself (zone and capacity type).
  - The pod-affinity keys wait for the topology module.
  - Resources are two integer quantities (`cpu`, `memory`).
  - Hostnames are the counter's value; 0 is "removed by `FinalizeScheduling`".
  - Events are records, and log lines are left out.
- `StateController`: `ReconcileGet` is the `Get` at state/node.go 53 on the
  head of the work queue. `ReconcileNotFound` is lines 54–58 (`DeleteNode`,
  no error, the key forgotten), `ReconcileGetFailed` the other errors of 58,
  `ReconcileUpdate` lines 60 and 64 (`Requeue`, `RequeueAfter:
  stateRetryPeriod`), `ReconcileUpdateFailed` lines 60–61. `Workers` is the
  `MaxConcurrentReconciles: 10` of the `Builder` (71), capped at the number of
  keys because the queue never gives one key to two workers. `InformerSync` is
  the watch that `For(&v1.Node{})` installs. The work queue (`Add`, `Done`, the
  dirty set) and the store (`DeleteNode`, `UpdateNode`) are controller-runtime
  and `Cluster` code, modelled from their documented behaviour. An object is
  0 when absent and otherwise the version it was written with. `ApiWrite` is
  the rest of the cluster. A Get or UpdateNode may fail, at most
  `MaxFailures` times in all.
- `TypedController`: `ReconcileStart` is lines 521–535 (the `Get`, the deep
  copy `stored`, the dispatch to `Finalize` when the deletion timestamp is set
  and the controller finalizes). `PatchBody` is lines 537–539 with 547–557 and
  `PatchStatus` lines 559–563. `Finish` is the return at 538 or 540. A patch
  is a merge patch from `stored` to `updated` applied to the server's current
  object, and its answer is decoded into `updated` (controller-runtime's
  `Patch` does this). The object has a status subresource, so a body patch
  keeps the server's status. The reflect `IsNil` check (549) never fires,
  because `updated` is the pointer `Get` filled. The wrapped controller is a
  stand-in with the shape of karpenter's finalizing controllers: `Reconcile`
  adds a finalizer and reports the spec it saw in the status, and `Finalize`
  removes the finalizer. The finalizers are a set, because a merge patch
  carries a changed list whole. Another controller adds its own finalizer
  (`OtherAddFinalizer`) and removes it once the object is deleting
  (`OtherFinalize`). `Restart` is a crash of the operator process at any
  point: the queue, the rate limiter and the decorator's locals are lost, and
  the informer's fresh list enqueues the object again.
- `InstanceTypeListing`: `ListFrom(its, i)` is the `range` loop from Go index
  `i`. Past index 4 it writes `AndOthers(len - i)` (the text " and N
  other(s)") and breaks. Otherwise it writes a separator before every name
  but the first, then the name.
- `Scheduler`, `CreateNode`: every template tried appends to `errs`, so at the
  end of the template loop `errs` is nil (`err` FALSE) only when there is no
  template. `AddToNew` then treats the pod as placed, as `Solve`'s
  `errors[pod] == nil` test does.

## 3. Runs

| run | cfg | expect | properties |
|---|---|---|---|
| `scheduler_safety` | `MC_Scheduler.cfg` | pass | `TypeOK`, `NewNodesLaunchable`, `PlacedPodsAdmissible`, `ProvisionerLimitsRespected`, `EveryPodAccountedFor`, `InstanceTypeOptionsNarrow`, `SolveRefinesAbstract` (module `MC_SolveRefinement`) |
| `scheduler_termination` | `MC_SolveRefinement_live.cfg` | pass | `SolveRefinesLiveSpec` |
| `empty_solve` | `MC_Scheduler_empty.cfg` | violation | `EmptySolveReturnsNothing` |
| `cancelled_solve` | `MC_SolveCancellation.cfg` | violation | `CancelledSolveEmitsNothing` |
| `scheduler_four_pods` | `MC_Scheduler_four.cfg` | pass | `NewNodesLaunchable`, `PlacedPodsAdmissible`, `ProvisionerLimitsRespected`, `EveryPodAccountedFor` |
| `no_templates` | `MC_Scheduler_notemplates.cfg` | violation | `EveryPodAccountedFor` |
| `instance_type_listing` | `MC_InstanceTypeListing.cfg` | pass | `ListingIsExact` |
| `node_state_safety` | `MC_StateController.cfg` | pass | `QuiescentStateMatches` |
| `cluster_state_convergence` | `MC_ClusterState.cfg` | pass | `ClusterStateConverges` |
| `typed_controller_liveness` | `MC_TypedController.cfg` | pass | `StatusEventuallyPersisted`, `DeletionCompletes` |
| `typed_status_patch` | `MC_TypedController_status.cfg` | violation | `StatusPersistedOnSuccess` |
| `typed_foreign_finalizer` | `MC_TypedController_finalizer.cfg` | violation | `ForeignFinalizerKept` |

What each property says:

- **`NewNodesLaunchable`** recomputes, from the pods on each new node, the
  daemon-plus-pod requests and the intersection of all their requirements. It
  then checks that every surviving instance type fits them and has an available
  offering they allow. It fails when a total is not carried from one `Add` to the
  next (mutant: `AddPodKeepsRequirements`).
- **`PlacedPodsAdmissible`** checks, for new and in-flight nodes: taints are
  tolerated, no two pods on a node have colliding host ports, and an in-flight
  node's labels satisfy its pods and its capacity holds them (mutant:
  `AddPodDropsHostPorts`).
- **`ProvisionerLimitsRespected`** checks, key by key, that in-flight capacity
  plus the largest capacity of every new node stays within the limit (mutant:
  `subtractMin`).
- **`EveryPodAccountedFor`** checks that every pod is in the queue or on exactly
  one node, and that pods still queued when `Solve` returns carry an error and a
  failure event (mutant: `FailedDropsUnrelaxed`, which follows spec §4.7's
  "permanently unschedulable" reading and drops the pod).
- **`InstanceTypeOptionsNarrow`** is an action property. No step removes a node,
  drops one of its pods, or lets back an instance type or a zone (mutant:
  `FinalizeSchedulingFromTemplate`).
- **`SolveRefinesLiveSpec`** checks that `Scheduler` implements `SolveSpec`'s
  `LiveSpec`: the safety of `Spec`, and that every solve returns. `Return` is
  enabled exactly while `~done`, and `done` is never reset, so the abstract
  weak fairness of `Return` is stated as `<>done`. TLC cannot evaluate
  ENABLED through the refinement mapping's `done <- phase = "done"`. (mutant:
  `FailedResetsProgress`, a push that always resets the progress record.)
- **`TypeOK`** includes non-negative requests (mutant: `AddRequestsSubtracted`).
- **`SolveRefinesAbstract`** checks that `Scheduler` implements `SolveSpec`.
  Every solve step is a `Place` of a pending pod or a stutter: a failure, a
  relaxation and a push back change no pod's target. `Finish` is `Return`:
  the failure events are exactly the unplaced pods, and the nominations are
  exactly the pods on in-flight nodes (mutant: `PlacedNoContinue`, the
  `continue` after a successful `add` left out).
- **`QuiescentStateMatches`** checks that the store equals the API server
  whenever the informer has caught up, no worker is busy, and nothing waits
  in the queue or the rate limiter. This holds through stale Gets: an update
  written from a stale read is followed by a queued re-reconcile (mutant:
  `ReconcileNotFoundKeepsState`, the not-found branch without `DeleteNode`).
- **`ListingIsExact`** compares `InstanceTypeList` with the reference for every
  list of up to seven options: the first five names in order, then the exact
  count of the rest (mutant: `ListFromLate`, the cut-off one index late).
- **`ClusterStateConverges`** is `<>[]` agreement of the node and pod stores with
  the API server (mutant: `ReconcileUpdateFailedForgotten`, an `UpdateNode`
  error swallowed).
- **`StatusEventuallyPersisted`** is `<>[]`: the object carries the finalizer
  and a status reporting its current spec, or is gone (mutant:
  `PatchStatusSkipped`).
- **`DeletionCompletes`** is `deleting ~> gone` (mutant:
  `ReconcileStartNeverFinalizes`, a dispatch that ignores the deletion
  timestamp).

The five violation runs each record a finding, listed under "findings" in
`PROJECT.json`:

- `empty_solve`: `Solve([])` returns every recognized in-flight node. Spec §8
  says it returns `(∅, ∅, nil)`.
- `cancelled_solve`: nothing in `Solve` or `add` reads `ctx`, and an `add`
  error only re-queues the pod. A cancelled solve therefore runs to the end,
  returns nil and publishes its events. Spec §5 says it terminates without
  emitting events.
- `typed_status_patch`: a reconcile that changes both body and status returns
  nil without writing the status. The body `Patch` decodes the server's
  object, with the server's status, into `updated`, so `statusEqual(stored,
  updated)` holds and the status patch (559) is skipped. The property
  is an action property over the `PatchStatus` step, the decorator's own
  return from `patch`, so a crash between the two patches (`Restart`) is not
  mistaken for it. Spec §6 says body and
  status are patched independently when they differ. The status is written by
  the next reconcile, which the body patch's own watch event triggers, as
  `StatusEventuallyPersisted` shows.
- `typed_foreign_finalizer` (a code bug): the body patch is
  `client.MergeFrom(obj)`, a JSON merge patch with no `resourceVersion`
  precondition, computed from the informer's copy. When the wrapped controller
  adds or removes its finalizer, the patch replaces the server's whole
  finalizer list. The counterexample: another controller adds its finalizer,
  and the decorator reconciles from a cache that has not yet seen it. Its
  patch then removes the other finalizer. On a deleting object the same race
  lets the object go before the other controller's cleanup.
- `no_templates`: `add` starts with `var errs error` (357), and only the
  template loop appends to it. With no machine template it returns nil for a
  pod that no in-flight node took. `Solve` treats nil as placed, so the pod
  vanishes: it is on no node, is not in `q.List()`, and gets no
  `PodFailedToSchedule` event. Spec §6 and §7 say every unscheduled pod is
  reported. Callers outside `src/` may never solve without templates, but
  `Solve` itself does not guard against it.

### Bounds and why they are enough

The cluster is defined in `MC_Scheduler.tla`:

- **Resources, zones and capacity types.** There are two resources, two zones
  and two capacity types.
- **Instance types.** `small` (2 CPU, 4 memory, overhead 1 memory) has offerings
  in z1 on-demand and z2 spot. `large` (4 CPU, 2 memory) has z2 on-demand
  available and z1 unavailable. Their capacities are not ordered, so the largest
  capacity is a key-by-key maximum. Zone requirements can exclude `large` either
  through requirements or through availability.
- **Provisioners.**
  - `default` has limit 8 CPU / 12 memory and a startup taint. It has one
    in-flight node (2 CPU, 4 memory, z1).
  - `tainted` has no limits, a PreferNoSchedule taint, and requires zone z2.
  - A node of an unknown provisioner is ignored.
  - With `default`'s limit, the first new node reserves 4 CPU and 4 memory. A
    second node can then only be `small`, and a third is impossible. So limit
    exhaustion, filtering by remaining budget, and multi-node reservation all
    happen. The mutants above show this.
- **Pods.**
  - `scheduler_safety` draws 3 pods from 48 shapes:
    - 1 or 2 CPU;
    - optionally requires z1 and optionally prefers z2;
    - optionally tolerates the startup taint;
    - has no host port, port 80 on 0.0.0.0, or port 80 on 10.0.0.1.
  - Every assignment of shapes and every order that `NewQueue`'s unstable sort
    allows is an initial state.
  - Symmetry over the pod identities is sound because every pod attribute is
    chosen by `Init`.
  - The reachable cases include the following, checked during development by
    invariants that TLC found violated: two `default` nodes; a `small`-only
    `default` node receiving a second pod; pods nominated to the in-flight node;
    `tainted` nodes after the PreferNoSchedule relaxation; pods left unschedulable.
  - The run has about 400,000 distinct states and takes about a minute.
- **Termination run.** `scheduler_termination` has no symmetry, because
  symmetry is unsound for liveness. It uses the 8 two-CPU shapes without the
  startup toleration or the specific IP. It runs in simulation mode, which covers
  the other branch of `recordSchedulingResults`.
- **Four-pod run.** `scheduler_four_pods` uses four pods over the 16 shapes
  without the startup toleration or the specific IP (`MCFourPodSpecs`), with
  `MaxNodeID` = 20 and symmetry. Only with four pods do two new nodes each
  hold two pods. `add` then sorts nodes whose requirements and options two
  pods have already narrowed, with a tie the unstable sort may break either
  way. Three pods never reach that; probe invariants confirmed it during
  development. It has about 273,000 distinct states and takes a little over a
  minute. Even with four pods the `default` limit caps its new nodes at two.
- **`MaxNodeID` = 14.** This bounds the hostname counter. A solve of 3 pods uses
  at most 11 hostnames. `SolveRefinesLiveSpec` passing shows that the guard never
  blocks a solve that terminates. A solve that does not terminate stops at the
  bound, and TLC reports it as a liveness violation.

- **`SolveRefinesAbstract`** is checked in the `scheduler_safety` run itself,
  whose module `MC_SolveRefinement` extends `MC_Scheduler`.
  The mapping and `SolveSpec` are symmetric in the pods, and the property is
  a safety property.
- **`node_state_safety`**: two keys, two workers, three API writes
  (`changes` starts at 1 and `MaxChanges` = 4, so versions 2..4; creations,
  updates and deletions), and one failure. This
  reaches the stale Get followed by a delete and a re-reconcile, and a key
  added while it is being reconciled. It also reaches a failure racing an API
  write. Symmetry is over the keys.
- **`cluster_state_convergence`**: two nodes and one pod, one API write per
  controller (`changes` starts at 1 and `MaxChanges` = 2), and one failure per controller. There is no symmetry (liveness).
  The pod controller adds the composition: the two controllers interleave
  freely.
- **`typed_controller_liveness`** and **`typed_status_patch`**: two spec values,
  three user writes (spec changes and a deletion) and two injected failures.
  That is enough for a failure of each patch after a successful body patch,
  for a deletion that races a reconcile, and for a restart between the two
  patches. The other controller's finalizer counts against the same three
  writes.
- **`instance_type_listing`**: two names and lists of up to seven options
  cover zero options, one to five options and the cut-off at six and seven.
  `CHECK_DEADLOCK FALSE` is set because a list of seven is the last input.
- **`no_templates`** is the `scheduler_safety` cluster with the template
  list empty.

### Fairness

`Spec` asserts `WF_vars(Next)`. `Solve` runs on one goroutine with no locks,
channels or I/O, so once it is enabled it keeps taking steps until it returns.
No other fairness is assumed. `CHECK_DEADLOCK FALSE` is set because `Solve`
really returns: the `done` state has no successor.

The controllers' specifications assume weak fairness only of what the
controller runtime drives. The informer eventually delivers a change, each
worker eventually runs its reconcile step, and the rate limiter's timer
eventually fires. User and API writes, and the one-minute periodic resync,
are not assumed to happen. Failures are bounded, which stands for the
retries eventually succeeding. The work queue is FIFO, as client-go's is: with
a set instead, a key requeued every minute could starve another forever, and
TLC shows that. `CHECK_DEADLOCK FALSE` is set because an idle controller with
nothing queued waits for watch events. In `TypedController` the other
controller's finalization is weakly fair (it does its cleanup). Restarts are
not fair, and they are bounded by the same failure budget.

## 4. Not modelled and why

- **Topology tracker** (spread, affinity, anti-affinity, `Register`,
  `Record`, `Update`). Its source is not in the repository, and spec §4.3 is
  not precise enough to translate. Read literally, it takes the minimum over
  the registered hostname domains. Every hostname-spread pod would then join
  the first node, which contradicts the six nodes of §8 scenario 3. The effect
  of `Update` on a pod's counted contribution is left open by §9. A model
  would encode a guess. So `Node.Add`'s topology step (83–90), the
  `topology.Update` after a relaxation (284) and the relaxer's pod-affinity and
  spread steps are absent. Pods in the scheduler runs carry no topology
  constraints. The hazard at 284 stays listed without a property.
- **The full requirement algebra** (`Gt`, `Lt`, `DoesNotExist`, arbitrary keys).
  Only the zone and capacity-type keys that `hasOffering` reads are kept.
- **The wrapped typed controllers** (provisioner, machine and node
  controllers). They are not under `src/`. `TypedController` uses a
  finalizer-adding, status-reporting stand-in.
- **Logging, formatting other than `InstanceTypeList`, `String`, `Name`.**
  These have no effect on state. This includes the logging tail of
  `recordSchedulingResults` (314–336).
- **The process-wide hostname counter across concurrent solves.**
  `atomic.AddInt64` (46) is one atomic step, and a model of it would show
  uniqueness by construction. The single-solve model keeps the counter.
- **Cloud provider, event recorder, cluster store internals, consolidation,
  webhooks.** These are external (spec §6). They appear only as the snapshot
  `Solve` reads, the events and nominations it emits, and the object a state
  controller records per key.

## 5. Plan

1. Done: `InstanceTypes`, `SchedulingNode`, `Scheduler`, `SolveCancellation`.
2. Done: `SolveSpec` and `SolveRefinement`, including the abstract liveness
   (`LiveSpec`), which replaced the standalone termination property.
3. Done: `StateController`, `ClusterState`, `TypedController` (with the other
   controller's finalizer and process restarts), `InstanceTypeListing`, and
   the no-template edge of `add`.
4. Next: pure-algorithm checks of `subtractMax` and
   `filterByRemainingResources` against reference definitions over bounded
   budgets, including negative budgets and equal capacities.
5. Next: compose the cluster-state controllers with `Scheduler`. A solve
   snapshots a store that may still hold a deleted in-flight node or lack a
   new one.
6. Next: larger scheduler instances (four pods with fewer shapes) and a
   typed-controller run whose wrapped controller is not finalizing.
