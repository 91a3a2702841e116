---------------------------- MODULE ClusterState ----------------------------
(***************************************************************************)
(* The two controllers that keep the cluster state the scheduler reads: the*)
(* node-state controller (src/pkg/controllers/state/node.go) and the       *)
(* pod-state controller (src/pkg/controllers/state/pod.go), each an        *)
(* instance of StateController with its own informer, queue and workers,   *)
(* running side by side in one process.                                    *)
(***************************************************************************)
EXTENDS Naturals

CONSTANTS NodeNames, PodKeys, MaxChanges, MaxFailures

VARIABLES nApi, nCache, nQueue, nDirty, nRetry, nResync, nBusy, nRead, nCluster, nChanges, nFailures,
          pApi, pCache, pQueue, pDirty, pRetry, pResync, pBusy, pRead, pCluster, pChanges, pFailures

nodeVars == <<nApi, nCache, nQueue, nDirty, nRetry, nResync, nBusy, nRead, nCluster, nChanges, nFailures>>
podVars == <<pApi, pCache, pQueue, pDirty, pRetry, pResync, pBusy, pRead, pCluster, pChanges, pFailures>>
vars == <<nodeVars, podVars>>

\* NodeController: Reconcile calls cluster.DeleteNode / cluster.UpdateNode.
NodeController == INSTANCE StateController WITH
    Keys <- NodeNames, api <- nApi, cache <- nCache, queue <- nQueue, dirty <- nDirty, retry <- nRetry,
    resync <- nResync, busy <- nBusy, read <- nRead, cluster <- nCluster,
    changes <- nChanges, failures <- nFailures

\* PodController: the same Reconcile over pods, with cluster.DeletePod and
\* cluster.UpdatePod, the same stateRetryPeriod and MaxConcurrentReconciles.
PodController == INSTANCE StateController WITH
    Keys <- PodKeys, api <- pApi, cache <- pCache, queue <- pQueue, dirty <- pDirty, retry <- pRetry,
    resync <- pResync, busy <- pBusy, read <- pRead, cluster <- pCluster,
    changes <- pChanges, failures <- pFailures

Init == NodeController!Init /\ PodController!Init

NodeStep == NodeController!Next /\ UNCHANGED podVars
PodStep == PodController!Next /\ UNCHANGED nodeVars

Next == NodeStep \/ PodStep

Spec == Init /\ [][Next]_vars /\ NodeController!Fairness /\ PodController!Fairness

-----------------------------------------------------------------------------

(* Quiescent node and pod controllers leave the cluster state equal to the *)
(* API server: Reconcile's not-found deletion, its UpdateNode/UpdatePod    *)
(* and the error retry together lose no change and resurrect no object.    *)
QuiescentStateMatches ==
    NodeController!QuiescentStateMatches /\ PodController!QuiescentStateMatches

(* Once nodes and pods stop changing, the cluster state the scheduler      *)
(* snapshots comes to hold exactly the API server's nodes and pods.        *)
ClusterStateConverges == <>[](nCluster = nApi /\ pCluster = pApi)
=============================================================================
