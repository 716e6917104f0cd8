--------------------------- MODULE ServiceObject ---------------------------
(***************************************************************************)
(* The Kubernetes Service object as the load balancer controllers see it:  *)
(* the user-written part (a "spec" record), the bookkeeping the controllers *)
(* keep on it (finalizer, hash label, status), and the pure predicates of  *)
(* pkg/controller/helper/service_utils.go over it.                         *)
(*                                                                         *)
(* A user-written part has these fields:                                   *)
(*   type      "LoadBalancer" or "ClusterIP" (any other service type)      *)
(*   class     ""            a service for the CLB controller              *)
(*             "annotation"  annotation service.beta.kubernetes.io/class   *)
(*             "other"       spec.loadBalancerClass, or the                *)
(*                           loadbalancer-type annotation when its feature *)
(*                           gate is on                                    *)
(*   addr      address-type annotation: "", "internet" or "intranet"       *)
(*   name      loadbalancer-name annotation: "" or "custom"                *)
(*   lbid      loadbalancer-id annotation: NoId or the id of a user's LB   *)
(*   override  force-override-listeners annotation                         *)
(*   preserve  preserve-lb-on-delete annotation                            *)
(*   cfg       everything else (ports, bandwidth, certificates, ...)       *)
(* The EIP and hostname forms of the status, and the label that repeats    *)
(* the load balancer's id (never read back), are left out.                 *)
(***************************************************************************)
CONSTANTS NoId,      \* no load balancer id
          NoStatus,  \* status.loadBalancer.ingress is empty
          NoLabel,   \* the hash label is absent
          Gone       \* the API server has no such service

NeedDeleteLoadBalancer(svc) == svc.deleting \/ svc.spec.type # "LoadBalancer"

NeedCLB(svc) == svc.spec.type = "LoadBalancer" /\ svc.spec.class = ""

\* Mutant: the deletion timestamp is left out of the hash.
HashWithoutDeletion(svc) == [spec |-> svc.spec, deleting |-> FALSE]

(***************************************************************************)
(* The hash covers the ports, type, policy, class, annotations and the     *)
(* deletion timestamp: the whole user-written part and `deleting'.  It is  *)
(* taken to be injective.                                                  *)
(***************************************************************************)
GetServiceHash(svc) == [spec |-> svc.spec, deleting |-> svc.deleting]

IsServiceHashChanged(svc) == svc.label # GetServiceHash(svc)

IsServiceOwnIngress(svc) == svc.status # NoStatus

HasFinalizer(svc) == svc # Gone /\ svc.fin

\* A service no controller has touched yet.
NewService(s) == [spec |-> s, deleting |-> FALSE, fin |-> FALSE,
                  label |-> NoLabel, status |-> NoStatus]
============================================================================
