---------------------------- MODULE ClbListeners ----------------------------
(***************************************************************************)
(* The listeners of one CLB instance that several services share (the      *)
(* user's instance with force-override), as applyListeners of the CLB      *)
(* controller and the SLB provider keep them.                              *)
(*                                                                         *)
(* A listener is known by its key, the pair <<port, protocol>>, and belongs *)
(* to the service named in its description.  A reconcile reads all the     *)
(* listeners once and derives from that what to delete, to create and to   *)
(* update; the calls are then sent one at a time, while the other workers  *)
(* and the user in the console go on.                                      *)
(*                                                                         *)
(* Simplifications:                                                        *)
(*  - a service goes through the versions of Plans in order: it never       *)
(*    returns to the version its hash label names (ClbService has that);   *)
(*  - the attributes of a listener are one value per class of protocols     *)
(*    they apply to; a certificate is one more;                            *)
(*  - actions of equal priority may be sent in any order: the code's order  *)
(*    is that of the ports and of the cloud's answer.                      *)
(***************************************************************************)
EXTENDS Integers, Sequences, FiniteSets

CONSTANTS Services,       \* the services that share the instance
          Ports,          \* listener ports
          Values,         \* values of an attribute that annotations may set
          Certs,          \* server certificates
          KnownCerts,     \* those that DescribeServerCertificateById finds
          ValidCerts,     \* those that exist and have not expired
          ConsoleCert,    \* that of a listener made in the console
          Plans,          \* for each service, the listeners of its versions in order
          ConsoleKeys,    \* where the user makes listeners in the console
          Unset,          \* an annotation that is not given
          Default,        \* what the cloud takes for it
          User,           \* the owner of a listener whose description has no key
          NoCert, NoListener, NoRec

Protocols == {"tcp", "udp", "http", "https"}
Keys == Ports \X Protocols
Classes == {"any", "layer4", "layer7"}

\* What a service port and the annotations ask for.
LocalListeners ==
    [fwd : Ports \cup {0}, cert : Certs \cup {NoCert},
     opt : [Classes -> Values \cup {Unset}]]

\* A listener in the cloud.
Listeners ==
    [owner : Services \cup {User}, fwd : Ports \cup {0},
     cert : Certs \cup {NoCert}, opt : [Classes -> Values \cup {Default}],
     running : BOOLEAN]

ASSUME PlansAssumption ==
    /\ 0 \notin Ports /\ Unset \notin Values /\ Default \notin Values
    /\ User \notin Services /\ NoListener \notin Listeners
    /\ NoCert \notin Certs /\ ConsoleCert \in Certs
    /\ ValidCerts \subseteq Certs /\ KnownCerts \subseteq Certs
    /\ DOMAIN Plans = Services
    /\ \A s \in Services :
          /\ Len(Plans[s]) \in Nat
          /\ Plans[s] = [v \in 1 .. Len(Plans[s]) |-> Plans[s][v]]
          /\ \A v \in 1 .. Len(Plans[s]) :
                /\ DOMAIN Plans[s][v] \subseteq Keys
                /\ \A k \in DOMAIN Plans[s][v] : Plans[s][v][k] \in LocalListeners
                /\ \A k \in DOMAIN Plans[s][v] : Plans[s][v][k].fwd # 0 => k[2] = "http"
    /\ ConsoleKeys \subseteq Keys

VARIABLES
    lis,    \* the listeners of the instance
    ver,    \* the version of each service
    label,  \* the version that the hash label of each service records
    rec,    \* the reconcile in progress of each service, or NoRec
    removed \* listeners of each service deleted in the console since it last read them

vars == <<lis, ver, label, rec, removed>>

Want(s, v) == IF v = 0 THEN <<>> ELSE Plans[s][v]

\* Every variable holds a value of its type, and a call that starts a listener is
\* pending for one listener at most.
TypeOK ==
    /\ lis \in [Keys -> Listeners \cup {NoListener}]
    /\ \A s \in Services :
          /\ ver[s] \in 0 .. Len(Plans[s])
          /\ label[s] \in 0 .. ver[s]
          /\ removed[s] \subseteq Keys
          /\ rec[s] # NoRec =>
                /\ rec[s].ver \in 1 .. ver[s]
                /\ rec[s].del \subseteq Keys
                /\ rec[s].new \subseteq Keys
                /\ \A k \in DOMAIN rec[s].upd : k \in Keys /\ rec[s].upd[k] \in Listeners
                /\ rec[s].start \subseteq Keys
                /\ \A j, k \in rec[s].start : j = k

-----------------------------------------------------------------------------
(* The cloud: which calls it refuses.                                      *)

Exists(k) == lis[k] # NoListener

\* Ports are taken per transport: udp beside one of tcp, http and https.
Clash(j, k) == j[1] = k[1] /\ (j[2] = "udp") = (k[2] = "udp")

\* A redirect of http needs the https listener it points at, and holds it.
ForwardsTo(h, k) == /\ k[2] = "https"
                    /\ Exists(h)
                    /\ lis[h].fwd = k[1]

Deletable(k) == Exists(k) /\ \A h \in Keys : ~ForwardsTo(h, k)

TakesCert(k, l) == k[2] = "https" => l.cert \in ValidCerts

Creatable(k, l) == /\ \A j \in Keys : Clash(j, k) => ~Exists(j)
                   /\ l.fwd # 0 => Exists(<<l.fwd, "https">>)
                   /\ TakesCert(k, l)

-----------------------------------------------------------------------------
(* What the controller asks for.                                           *)

Is7LayerProtocol(p) == p \in {"http", "https"}

\* The attributes that the requests of a protocol carry.
Relevant(c, p) == \/ c = "any"
                  \/ c = "layer7" /\ Is7LayerProtocol(p)
                  \/ c = "layer4" /\ ~Is7LayerProtocol(p)

\* The Create request: attributes that are not set are left to the cloud.
Created(s, k, l) ==
    [owner |-> s, fwd |-> l.fwd, cert |-> l.cert, running |-> FALSE,
     opt |-> [c \in Classes |-> IF Relevant(c, k[2]) /\ l.opt[c] # Unset
                                THEN l.opt[c] ELSE Default]]

\* Mutant: annotations that are not set are copied too.
UpdateCopiesUnset(s, k, l, r) ==
    [r EXCEPT !.owner = s, !.cert = IF k[2] = "https" THEN l.cert ELSE @, !.opt = l.opt]

\* isNeedUpdate: a copy of the listener as it was read, with the description and
\* the vserver group of the service, the certificate, and each relevant attribute
\* that is set and differs.  No difference, no call.
Update(s, k, l, r) ==
    [r EXCEPT !.owner = s,
              !.cert = IF k[2] = "https" THEN l.cert ELSE @,
              !.opt = [c \in Classes |-> IF Relevant(c, k[2]) /\ l.opt[c] # Unset
                                         THEN l.opt[c] ELSE @[c]]]

\* Mutant: every http listener is made anew.
NeedRecreateAlways(k, l, r) == k[2] = "http"

\* A redirect cannot be changed in place.
NeedRecreate(k, l, r) == k[2] = "http" /\ l.fwd # r.fwd

\* Mutant: the owner of a listener is not asked for.
PortFreeForAll(s, r) == TRUE

\* A listener is the service's own when its description holds the service's key.
IsPortManagedByMyService(s, r) == r.owner = s

-----------------------------------------------------------------------------
(* One reconcile.                                                          *)

Idle(s) == rec[s] = NoRec
Without(f, k) == [j \in DOMAIN f \ {k} |-> f[j]]
Local(s) == Want(s, rec[s].ver)

\* A failing call ends the reconcile; the label stays and the key is queued again.
ReturnErr(s) == rec' = [rec EXCEPT ![s] = NoRec] /\ UNCHANGED <<lis, ver, label, removed>>

\* buildActionsForListeners: a listener of the same port and protocol is updated
\* whoever owns it; one that no port asks for is deleted if it is the service's.
BuildActionsForListeners(s, want, seen) ==
    LET present == {k \in Keys : seen[k] # NoListener}
    IN  [del |-> {k \in present \ DOMAIN want : IsPortManagedByMyService(s, seen[k])},
         new |-> DOMAIN want \ present,
         upd |-> DOMAIN want \cap present]

\* Build the local listeners of the version (buildListenerFromServicePort), read
\* those of the cloud and derive the actions.
Begin(s) ==
    /\ Idle(s)
    /\ label[s] # ver[s]
    /\ LET a == BuildActionsForListeners(s, Want(s, ver[s]), lis)
       IN  rec' = [rec EXCEPT ![s] = [ver |-> ver[s], del |-> a.del,
                                      new |-> a.new, start |-> {},
                                      upd |-> [k \in a.upd |-> lis[k]]]]
    /\ removed' = [removed EXCEPT ![s] = {}]
    /\ UNCHANGED <<lis, ver, label>>

\* The deletions are sorted: https listeners come last.
NextDeletes(s) ==
    LET other == {k \in rec[s].del : k[2] # "https"}
    IN  IF other # {} THEN other ELSE rec[s].del

\* Deletions before additions; the additions are sorted, https listeners first.
NextCreates(s) ==
    LET https == {k \in rec[s].new : k[2] = "https"}
    IN  IF rec[s].start # {} \/ rec[s].del # {} THEN {}
        ELSE IF https # {} THEN https ELSE rec[s].new

\* Updates come last.
NextUpdates(s) == IF rec[s].start # {} \/ rec[s].del # {} \/ rec[s].new # {}
                  THEN {} ELSE DOMAIN rec[s].upd

\* DeleteLoadBalancerListener, by port and protocol.
DeleteListener(s) ==
    /\ ~Idle(s)
    /\ \E k \in NextDeletes(s) :
          /\ Deletable(k)
          /\ lis' = [lis EXCEPT ![k] = NoListener]
          /\ rec' = [rec EXCEPT ![s].del = @ \ {k}]
    /\ UNCHANGED <<ver, label, removed>>

\* CreateLoadBalancer<protocol>Listener: the listener exists, stopped.
CreateListener(s) ==
    /\ ~Idle(s)
    /\ \E k \in NextCreates(s) :
          /\ Creatable(k, Local(s)[k])
          /\ lis' = [lis EXCEPT ![k] = Created(s, k, Local(s)[k])]
          /\ rec' = [rec EXCEPT ![s].new = @ \ {k}, ![s].start = {k}]
    /\ UNCHANGED <<ver, label, removed>>

\* StartLoadBalancerListener after a creation.
StartListener(s) ==
    /\ ~Idle(s)
    /\ \E k \in rec[s].start :
          /\ Exists(k)
          /\ lis' = [lis EXCEPT ![k].running = TRUE]
          /\ rec' = [rec EXCEPT ![s].start = {}]
    /\ UNCHANGED <<ver, label, removed>>

\* Update of a listener that was read stopped begins with a start.
StartStopped(s) ==
    /\ ~Idle(s)
    /\ \E k \in NextUpdates(s) :
          /\ ~rec[s].upd[k].running
          /\ Exists(k)
          /\ lis' = [lis EXCEPT ![k].running = TRUE]
          /\ rec' = [rec EXCEPT ![s].upd[k].running = TRUE]
    /\ UNCHANGED <<ver, label, removed>>

\* http.Update when the redirect has changed: delete, then create and start.
RecreateListener(s) ==
    /\ ~Idle(s)
    /\ \E k \in NextUpdates(s) :
          /\ rec[s].upd[k].running
          /\ NeedRecreate(k, Local(s)[k], rec[s].upd[k])
          /\ Deletable(k)
          /\ lis' = [lis EXCEPT ![k] = NoListener]
          /\ rec' = [rec EXCEPT ![s].upd = Without(@, k), ![s].new = {k}]
    /\ UNCHANGED <<ver, label, removed>>

\* checkCertValidity: a certificate that is found is replaced only by one that is
\* found as well and has not expired.
CertOK(k, l, r) == k[2] = "https" /\ l.cert # r.cert /\ r.cert \in KnownCerts
                       => l.cert \in KnownCerts \cap ValidCerts

\* The request can be sent, and the cloud takes it.
Settable(k, l, r, u) == /\ CertOK(k, l, r)
                        /\ u # r => Exists(k) /\ (l.cert # r.cert => TakesCert(k, l))

\* SetLoadBalancer<protocol>ListenerAttribute with the merged listener.  A
\* redirecting listener is left as it is, and nothing is sent without a change;
\* whether the listener runs is not part of the request.
SetListener(s) ==
    /\ ~Idle(s)
    /\ \E k \in NextUpdates(s) :
          LET l == Local(s)[k]
              r == rec[s].upd[k]
              u == Update(s, k, l, r)
          IN  /\ r.running
              /\ ~NeedRecreate(k, l, r)
              /\ r.fwd = 0 => Settable(k, l, r, u)
              /\ lis' = IF r.fwd # 0 \/ u = r THEN lis
                        ELSE [lis EXCEPT ![k] = [u EXCEPT !.fwd = lis[k].fwd,
                                                          !.running = lis[k].running]]
              /\ rec' = [rec EXCEPT ![s].upd = Without(@, k)]
    /\ UNCHANGED <<ver, label, removed>>

\* The next call is one that the cloud refuses, or its certificate is not valid.
MustFail(s) ==
    \/ \E k \in NextDeletes(s) : ~Deletable(k)
    \/ \E k \in NextCreates(s) : ~Creatable(k, Local(s)[k])
    \/ \E k \in rec[s].start : ~Exists(k)
    \/ \E k \in NextUpdates(s) :
          LET l == Local(s)[k]
              r == rec[s].upd[k]
          IN  IF ~r.running THEN ~Exists(k)
              ELSE IF NeedRecreate(k, l, r) THEN ~Deletable(k)
              ELSE r.fwd = 0 /\ ~Settable(k, l, r, Update(s, k, l, r))

Refused(s) == ~Idle(s) /\ MustFail(s) /\ ReturnErr(s)

\* Mutant: the label records the service as it is now.
FinishLatest(s) ==
    /\ ~Idle(s)
    /\ rec[s].del = {} /\ rec[s].new = {} /\ DOMAIN rec[s].upd = {} /\ rec[s].start = {}
    /\ label' = [label EXCEPT ![s] = ver[s]]
    /\ rec' = [rec EXCEPT ![s] = NoRec]
    /\ UNCHANGED <<lis, ver, removed>>

\* All actions done: the label records the version that was applied.
Finish(s) ==
    /\ ~Idle(s)
    /\ rec[s].del = {} /\ rec[s].new = {} /\ DOMAIN rec[s].upd = {} /\ rec[s].start = {}
    /\ label' = [label EXCEPT ![s] = rec[s].ver]
    /\ rec' = [rec EXCEPT ![s] = NoRec]
    /\ UNCHANGED <<lis, ver, removed>>

\* A call that could succeed fails, or the process dies.
Fails(s) == ~Idle(s) /\ ~MustFail(s) /\ ReturnErr(s)

-----------------------------------------------------------------------------
(* The users.                                                              *)

Edit(s) ==
    /\ ver[s] < Len(Plans[s])
    /\ ver' = [ver EXCEPT ![s] = @ + 1]
    /\ UNCHANGED <<lis, label, rec, removed>>

ConsoleListener(k) == [owner |-> User, fwd |-> 0, running |-> TRUE,
                       cert |-> IF k[2] = "https" THEN ConsoleCert ELSE NoCert,
                       opt |-> [c \in Classes |-> Default]]

ConsoleCreate ==
    \E k \in ConsoleKeys :
        /\ \A j \in Keys : Clash(j, k) => ~Exists(j)
        /\ lis' = [lis EXCEPT ![k] = ConsoleListener(k)]
        /\ UNCHANGED <<ver, label, rec, removed>>

\* Whoever made the listener: no service is told.
ConsoleDelete ==
    \E k \in ConsoleKeys :
        /\ Deletable(k)
        /\ lis' = [lis EXCEPT ![k] = NoListener]
        /\ removed' = [s \in Services |-> IF lis[k].owner = s THEN removed[s] \cup {k}
                                          ELSE removed[s]]
        /\ UNCHANGED <<ver, label, rec>>

-----------------------------------------------------------------------------
Init ==
    /\ lis = [k \in Keys |-> NoListener]
    /\ ver = [s \in Services |-> 0]
    /\ label = [s \in Services |-> 0]
    /\ rec = [s \in Services |-> NoRec]
    /\ removed = [s \in Services |-> {}]

Step(s) ==
    \/ Begin(s) \/ DeleteListener(s) \/ CreateListener(s) \/ StartListener(s)
    \/ StartStopped(s) \/ RecreateListener(s) \/ SetListener(s)
    \/ Refused(s) \/ Finish(s)

Disturbance == ConsoleCreate \/ ConsoleDelete \/ \E s \in Services : Edit(s) \/ Fails(s)

Next == Disturbance \/ \E s \in Services : Step(s)

Spec == Init /\ [][Next]_vars

-----------------------------------------------------------------------------
(* Properties.                                                             *)

\* A version of s, up to the present one, has a listener at k.
Asked(s, k) == \E v \in 1 .. ver[s] : k \in DOMAIN Want(s, v)

\* Another service asks for k too, or has asked for it: it may have taken the
\* listener over, or deleted it and left the place to the user.
Shared(s, k) == \E t \in Services \ {s} : Asked(t, k)

\* "Do not delete any listener that no longer managed by my service for safety": a
\* reconcile that gives a listener up deletes its own one, however long ago it read
\* the listeners, and never the user's.  The exceptions are a listener that another
\* service has asked for as well, and one that the user has made in the place of the
\* service's since the reconcile read it.
NoForeignDelete ==
    [][\A s \in Services, k \in Keys :
          /\ rec[s] # NoRec /\ rec[s] # rec'[s]
          /\ lis[k] # NoListener /\ lis'[k] = NoListener
          /\ k \in rec[s].del
          => lis[k].owner = s \/ Shared(s, k) \/ k \in removed[s]]_vars

\* A listener that the version in work keeps goes on serving: it is not deleted
\* unless its redirect has to change, and a running one is not stopped.  A service
\* after the same listener may have changed its redirect since it was read, or the user
\* have replaced it.
KeptListenersServe ==
    [][\A s \in Services, k \in Keys :
          /\ rec[s] # NoRec /\ rec[s] # rec'[s]
          /\ k \in DOMAIN Local(s)
          /\ lis[k] # NoListener /\ lis[k].running
          /\ lis[k].fwd = Local(s)[k].fwd
          => \/ lis'[k] # NoListener /\ lis'[k].running
             \/ Shared(s, k) \/ k \in removed[s]]_vars

Served(s, k, l) ==
    /\ Exists(k)
    /\ lis[k].running
    /\ lis[k].fwd = l.fwd
    /\ l.fwd = 0 =>
          /\ lis[k].owner = s
          /\ k[2] = "https" => lis[k].cert = l.cert
          /\ \A c \in Classes : Relevant(c, k[2]) /\ l.opt[c] # Unset
                                   => lis[k].opt[c] = l.opt[c]

\* The instance serves the present version of s, and nothing it has given up.
Applied(s) ==
    LET want == Want(s, ver[s]) IN
    /\ \A k \in DOMAIN want : Served(s, k, want[k])
    /\ \A k \in Keys \ DOMAIN want : Exists(k) => lis[k].owner # s

\* What the controller cannot clear away: a port that another's listener of
\* another protocol holds, a certificate that is not valid, a redirect to an
\* https listener nobody has, and an https listener to be deleted that a redirect
\* still points at - deletions come before updates, so a redirect that moves and
\* its old target that goes block each other for good.
Blocked(s) ==
    LET want == Want(s, ver[s]) IN
    \/ \E k \in DOMAIN want, j \in Keys \ DOMAIN want :
          Clash(j, k) /\ Exists(j) /\ lis[j].owner # s
    \/ \E k \in DOMAIN want : \/ ~TakesCert(k, want[k])
                              \/ Exists(k) /\ ~CertOK(k, want[k], lis[k])
                              \/ /\ want[k].fwd # 0
                                 /\ <<want[k].fwd, "https">> \notin DOMAIN want
                                 /\ ~Exists(<<want[k].fwd, "https">>)
    \/ \E k \in Keys \ DOMAIN want, h \in Keys :
          /\ Exists(k) /\ lis[k].owner = s
          /\ ForwardsTo(h, k)
          /\ h \in DOMAIN want \/ lis[h].owner # s

\* Another service has asked for a port of this one too, now or before: each takes it
\* from the other, and a reconcile that gives it up late deletes it for both.
Contested(s) ==
    \E t \in Services \ {s}, k \in DOMAIN Want(s, ver[s]) : \E v \in 1 .. ver[t] :
        \E j \in DOMAIN Want(t, v) : j = k \/ Clash(j, k)

\* The user has deleted a listener of the present version, and the hash label keeps the
\* service from looking.
Deprived(s) == removed[s] \cap DOMAIN Want(s, ver[s]) # {}

Fairness == \A s \in Services : WF_vars(Step(s))

FairSpec == Spec /\ Fairness

Undisturbed == <>[][~Disturbance]_vars

\* When users and faults leave it alone, the instance finally serves every
\* service, or something that the controller must not touch is in the way, or
\* two services are after one port, or the user has taken a listener away.
ListenersConverge ==
    Undisturbed => <>[](\A s \in Services : Applied(s) \/ Deprived(s) \/ Contested(s) \/ Blocked(s))
=============================================================================
