------------------------- MODULE ClbListenersProofs -------------------------
(***************************************************************************)
(* Proofs about ClbListeners, for every set of services, ports and plans.  *)
(* A reconcile works on what it read long ago.  The invariant says what is *)
(* still true of it: whatever it is about to delete, to create or to       *)
(* change, unless another service has asked for that listener as well, or  *)
(* the user has deleted it since.                                          *)
(***************************************************************************)
EXTENDS ClbListeners, TLAPS

Recs == [ver : Nat, del : SUBSET Keys, new : SUBSET Keys, start : SUBSET Keys,
         upd : UNION {[D -> Listeners] : D \in SUBSET Keys}]

\* A reconcile r of service s works on its own plan: what it is to create, start or
\* update is in the version it builds, and what it is to delete is not.
PlanOK(s, r) ==
    LET want == Want(s, r.ver) IN
    /\ r.ver \in 1 .. ver[s]
    /\ r.new \cup r.start \cup DOMAIN r.upd \subseteq DOMAIN want
    /\ r.del \cap DOMAIN want = {}
    /\ r.new \cap DOMAIN r.upd = {}
    /\ \A j, k \in r.start : j = k

\* What s has read of k is still so, as far as it matters.
FreshDelete(s, k) == Shared(s, k) \/ k \in removed[s] \/ (Exists(k) /\ lis[k].owner = s)

FreshUpdate(s, k, old) ==
    Shared(s, k) \/ k \in removed[s] \/ old.fwd = IF Exists(k) THEN lis[k].fwd ELSE 0

\* The reconcile r of service s.
RecOK(s, r) ==
    /\ r \in Recs
    /\ PlanOK(s, r)
    /\ \A k \in r.del : FreshDelete(s, k) /\ Asked(s, k)
    /\ \A k \in DOMAIN r.upd : FreshUpdate(s, k, r.upd[k])

\* The service of a listener has asked for it, and the user's does not redirect.
OwnerOK(k) ==
    Exists(k) => IF lis[k].owner = User THEN lis[k].fwd = 0 ELSE Asked(lis[k].owner, k)

ListenerInv ==
    /\ lis \in [Keys -> Listeners \cup {NoListener}]
    /\ ver \in [Services -> Nat] /\ label \in [Services -> Nat]
    /\ \A s \in Services : ver[s] \in 0 .. Len(Plans[s]) /\ label[s] \in 0 .. ver[s]
    /\ removed \in [Services -> SUBSET Keys]
    /\ DOMAIN rec = Services
    /\ \A k \in Keys : OwnerOK(k)
    /\ \A s \in Services : rec[s] # NoRec => RecOK(s, rec[s])

-----------------------------------------------------------------------------
LEMMA ListenerIsOne == \A l \in Listeners : l # NoListener
  BY PlansAssumption

\* What a version of a service asks for.
LEMMA WantType ==
    ASSUME NEW s \in Services, NEW v \in 1 .. Len(Plans[s])
    PROVE  /\ DOMAIN Want(s, v) \subseteq Keys
           /\ \A k \in DOMAIN Want(s, v) : Want(s, v)[k] \in LocalListeners
  <1>1. v # 0 /\ Want(s, v) = Plans[s][v]
    BY PlansAssumption DEF Want
  <1> QED
    BY <1>1, PlansAssumption

\* The plan of a reconcile names keys of listeners.
LEMMA LocalType ==
    ASSUME ListenerInv, NEW s \in Services, rec[s] # NoRec
    PROVE  /\ rec[s] \in Recs /\ PlanOK(s, rec[s])
           /\ DOMAIN Local(s) \subseteq Keys
           /\ \A k \in DOMAIN Local(s) : Local(s)[k] \in LocalListeners /\ Asked(s, k)
  <1>1. rec[s].ver \in 1 .. ver[s] /\ ver[s] \in 0 .. Len(Plans[s]) /\ Len(Plans[s]) \in Nat
    BY PlansAssumption DEF ListenerInv, RecOK, PlanOK
  <1>2. rec[s].ver \in 1 .. Len(Plans[s])
    BY <1>1
  <1> QED
    BY <1>1, <1>2, WantType DEF ListenerInv, RecOK, Local, Asked

LEMMA CreatedType ==
    ASSUME NEW s \in Services, NEW k \in Keys, NEW l \in LocalListeners
    PROVE  Created(s, k, l) \in Listeners /\ Created(s, k, l).owner = s
  <1>1. [c \in Classes |-> IF Relevant(c, k[2]) /\ l.opt[c] # Unset THEN l.opt[c] ELSE Default]
           \in [Classes -> Values \cup {Default}]
    BY DEF LocalListeners
  <1> QED
    BY <1>1 DEF Created, LocalListeners, Listeners

\* The merged listener that an update sends.
LEMMA UpdateType ==
    ASSUME NEW s \in Services, NEW k \in Keys, NEW l \in LocalListeners, NEW r \in Listeners
    PROVE  /\ Update(s, k, l, r) \in Listeners /\ Update(s, k, l, r).owner = s
  <1>1. [c \in Classes |-> IF Relevant(c, k[2]) /\ l.opt[c] # Unset THEN l.opt[c] ELSE r.opt[c]]
           \in [Classes -> Values \cup {Default}]
    BY DEF LocalListeners, Listeners
  <1> QED
    BY <1>1 DEF Update, LocalListeners, Listeners

\* Who has asked for a listener does not change but with an edit.
LEMMA AskedSame ==
    ASSUME UNCHANGED ver
    PROVE  /\ \A s, k : Asked(s, k)' <=> Asked(s, k)
           /\ \A s, k : Shared(s, k)' <=> Shared(s, k)
           /\ \A s, r : PlanOK(s, r)' <=> PlanOK(s, r)
  BY DEF Asked, Shared, PlanOK, Want

-----------------------------------------------------------------------------
\* What a call of another service leaves of a reconcile in progress.
LEMMA RecSame ==
    ASSUME NEW s, NEW r, RecOK(s, r), UNCHANGED ver,
           \A k \in r.del : FreshDelete(s, k) => FreshDelete(s, k)',
           \A k \in DOMAIN r.upd : FreshUpdate(s, k, r.upd[k]) => FreshUpdate(s, k, r.upd[k])'
    PROVE  RecOK(s, r)'
  BY AskedSame DEF RecOK

\* A reconcile ends, with or without a label.
LEMMA EndInv ==
    ASSUME ListenerInv, NEW s \in Services, rec' = [rec EXCEPT ![s] = NoRec],
           UNCHANGED <<lis, ver, removed>>, label' \in [Services -> Nat],
           \A t \in Services : label'[t] \in 0 .. ver[t]
    PROVE  ListenerInv'
  <1>1. \A k \in Keys : OwnerOK(k)'
    BY AskedSame DEF ListenerInv, OwnerOK, Exists
  <1>2. DOMAIN rec' = Services /\ \A t \in Services : rec'[t] # NoRec => rec'[t] = rec[t]
    BY DEF ListenerInv
  <1>3. ASSUME NEW t \in Services, rec[t] # NoRec
        PROVE  RecOK(t, rec[t]) /\ \A r : RecOK(t, r) => RecOK(t, r)'
    BY <1>3, AskedSame, RecSame DEF ListenerInv, FreshDelete, FreshUpdate, Exists
  <1>4. \A t \in Services : rec'[t] # NoRec => RecOK(t, rec[t])'
    BY <1>2, <1>3 DEF RecOK
  <1> QED
    BY <1>1, <1>2, <1>4 DEF ListenerInv

\* A call of the reconcile of s about listener k, which s has asked for at some time:
\* k becomes x and r is left of the reconcile.
LEMMA CallInv ==
    ASSUME ListenerInv, NEW s \in Services, rec[s] # NoRec, NEW k \in Keys, Asked(s, k),
           NEW x \in Listeners \cup {NoListener}, NEW r \in Recs,
           lis' = [lis EXCEPT ![k] = x], rec' = [rec EXCEPT ![s] = r],
           UNCHANGED <<ver, label, removed>>,
           x # NoListener => \/ x.owner = s
                             \/ Exists(k) /\ x.owner = lis[k].owner /\ x.fwd = lis[k].fwd,
           PlanOK(s, r), r.del \subseteq rec[s].del \ {k},
           DOMAIN r.upd \subseteq DOMAIN rec[s].upd,
           \A d \in DOMAIN r.upd :
              /\ r.upd[d].fwd = rec[s].upd[d].fwd
              /\ d = k => x # NoListener /\ Exists(k) /\ x.fwd = lis[k].fwd
    PROVE  ListenerInv'
  <1>1. lis' \in [Keys -> Listeners \cup {NoListener}] /\ lis'[k] = x
        /\ \A j \in Keys : j # k => lis'[j] = lis[j]
    BY DEF ListenerInv
  <1>2. DOMAIN rec' = Services /\ rec'[s] = r /\ \A t \in Services : t # s => rec'[t] = rec[t]
    BY DEF ListenerInv
  <1>3. \A j \in Keys : OwnerOK(j)'
    <2>1. OwnerOK(k)'
      BY <1>1, AskedSame, PlansAssumption DEF OwnerOK, Exists, ListenerInv
    <2>2. \A j \in Keys : j # k => OwnerOK(j)'
      BY <1>1, AskedSame DEF OwnerOK, Exists, ListenerInv
    <2> QED
      BY <2>1, <2>2
  <1>4. ASSUME NEW t \in Services, t # s, NEW q, RecOK(t, q)
        PROVE  RecOK(t, q)'
    <2>1. Shared(t, k)'
      BY <1>4, AskedSame DEF Shared
    <2>2. q.del \subseteq Keys /\ DOMAIN q.upd \subseteq Keys
      BY <1>4 DEF RecOK, Recs
    <2>3. \A d \in q.del : FreshDelete(t, d) => FreshDelete(t, d)'
      BY <1>1, <2>1, <2>2, AskedSame DEF FreshDelete, Exists
    <2>4. \A d \in DOMAIN q.upd : FreshUpdate(t, d, q.upd[d]) => FreshUpdate(t, d, q.upd[d])'
      BY <1>1, <2>1, <2>2, AskedSame DEF FreshUpdate, Exists
    <2> QED
      BY <1>4, <2>3, <2>4, RecSame
  <1>5. RecOK(s, r)'
    <2>1. RecOK(s, rec[s]) /\ rec[s].del \subseteq Keys /\ DOMAIN rec[s].upd \subseteq Keys
      BY DEF ListenerInv, RecOK, Recs
    <2>2. \A d \in r.del : FreshDelete(s, d)' /\ Asked(s, d)'
      BY <1>1, <2>1, AskedSame DEF RecOK, FreshDelete, Exists
    <2>3. \A d \in DOMAIN r.upd : FreshUpdate(s, d, r.upd[d])'
      BY <1>1, <2>1, AskedSame DEF RecOK, FreshUpdate, Exists
    <2> QED
      BY <2>2, <2>3, AskedSame DEF RecOK
  <1>6. \A t \in Services : rec'[t] # NoRec => RecOK(t, rec[t])'
    <2>1. \A t \in Services : t # s /\ rec'[t] # NoRec => RecOK(t, rec[t])'
      BY <1>2, <1>4 DEF ListenerInv
    <2>2. RecOK(s, rec[s])'
      BY <1>2, <1>5
    <2> QED
      BY <2>1, <2>2
  <1> QED
    BY <1>1, <1>2, <1>3, <1>6 DEF ListenerInv
-----------------------------------------------------------------------------
LEMMA InitInv == Init => ListenerInv
  <1> SUFFICES ASSUME Init PROVE ListenerInv
    OBVIOUS
  <1>1. \A k \in Keys : lis[k] = NoListener
    BY DEF Init
  <1>2. \A s \in Services : 0 \in 0 .. Len(Plans[s])
    BY PlansAssumption
  <1> QED
    BY <1>1, <1>2 DEF Init, ListenerInv, OwnerOK, Exists

\* What a reconcile derives from the listeners is so when it has read them.
LEMMA BeginInv ==
    ASSUME ListenerInv, NEW s \in Services, Begin(s)
    PROVE  ListenerInv'
  <1> DEFINE want == Want(s, ver[s])
             a == BuildActionsForListeners(s, want, lis)
             r == [ver |-> ver[s], del |-> a.del, new |-> a.new, start |-> {},
                   upd |-> [k \in a.upd |-> lis[k]]]
  <1>1. ver[s] \in 1 .. Len(Plans[s]) /\ ver[s] \in Nat /\ ver[s] \in 1 .. ver[s]
    BY PlansAssumption DEF ListenerInv, Begin
  <1>2. DOMAIN want \subseteq Keys
    BY <1>1, WantType
  <1>3. /\ a.del = {k \in Keys \ DOMAIN want : Exists(k) /\ lis[k].owner = s}
        /\ a.new = DOMAIN want \ {k \in Keys : Exists(k)}
        /\ a.upd = {k \in DOMAIN want : Exists(k)}
    BY <1>2 DEF BuildActionsForListeners, IsPortManagedByMyService, Exists
  <1> HIDE DEF a, want
  <1>4. [k \in a.upd |-> lis[k]] \in [a.upd -> Listeners]
    BY <1>2, <1>3 DEF ListenerInv, Exists
  <1>5. r \in Recs
    <2>1. a.upd \in SUBSET Keys
      BY <1>2, <1>3
    <2>2. [k \in a.upd |-> lis[k]] \in UNION {[D -> Listeners] : D \in SUBSET Keys}
      BY <1>4, <2>1
    <2> QED
      BY <1>1, <1>2, <1>3, <2>2 DEF Recs
  <1>6. PlanOK(s, r)
    BY <1>1, <1>2, <1>3 DEF PlanOK, want
  <1>7. \A k \in r.del : FreshDelete(s, k) /\ Asked(s, k)
    BY <1>3, PlansAssumption DEF FreshDelete, ListenerInv, OwnerOK
  <1>8. \A k \in DOMAIN r.upd : FreshUpdate(s, k, r.upd[k])
    BY <1>3 DEF FreshUpdate
  <1>9. RecOK(s, r)
    BY <1>5, <1>6, <1>7, <1>8 DEF RecOK
  <1>10. /\ UNCHANGED <<lis, ver, label>> /\ rec' = [rec EXCEPT ![s] = r]
         /\ removed' = [removed EXCEPT ![s] = {}]
    BY DEF Begin, a, want
  <1>11. ASSUME NEW t \in Services, t # s, NEW q, RecOK(t, q)
         PROVE  RecOK(t, q)'
    <2>1. removed'[t] = removed[t]
      BY <1>10, <1>11 DEF ListenerInv
    <2> QED
      BY <1>10, <1>11, <2>1, AskedSame, RecSame DEF FreshDelete, FreshUpdate, Exists
  <1>15. ASSUME NEW q, q = r
         PROVE  RecOK(s, q)'
    <2>1. q \in Recs /\ PlanOK(s, q) /\ \A k \in q.del : Asked(s, k)
      BY <1>9, <1>15 DEF RecOK
    <2>2. \A k \in q.del : Exists(k) /\ lis[k].owner = s
      BY <1>3, <1>15
    <2>3. \A k \in DOMAIN q.upd : q.upd[k].fwd = IF Exists(k) THEN lis[k].fwd ELSE 0
      BY <1>3, <1>15
    <2>4. UNCHANGED <<lis, ver>>
      BY <1>10
    <2> QED
      BY <2>1, <2>2, <2>3, <2>4, AskedSame DEF RecOK, FreshDelete, FreshUpdate, Exists
  <1>12. \A k \in Keys : OwnerOK(k)'
    BY <1>10, AskedSame DEF ListenerInv, OwnerOK, Exists
  <1> HIDE DEF r
  <1>16. removed' \in [Services -> SUBSET Keys]
    BY <1>10 DEF ListenerInv
  <1>13. DOMAIN rec' = Services /\ rec'[s] = r /\ \A t \in Services : t # s => rec'[t] = rec[t]
    BY <1>10 DEF ListenerInv
  <1>14. \A t \in Services : rec'[t] # NoRec => RecOK(t, rec[t])'
    <2>1. \A t \in Services : t # s /\ rec'[t] # NoRec => RecOK(t, rec[t])'
      BY <1>11, <1>13 DEF ListenerInv
    <2>2. RecOK(s, rec[s])'
      BY <1>13, <1>15
    <2> QED
      BY <2>1, <2>2
  <1> QED
    BY <1>10, <1>12, <1>13, <1>14, <1>16 DEF ListenerInv

\* The records that the calls leave.
LEMMA RecType ==
    ASSUME NEW r \in Recs, NEW k \in Keys
    PROVE  /\ [r EXCEPT !.del = @ \ {k}] \in Recs
           /\ [r EXCEPT !.new = @ \ {k}, !.start = {k}] \in Recs
           /\ [r EXCEPT !.start = {}] \in Recs
           /\ [r EXCEPT !.upd = Without(@, k)] \in Recs
           /\ [r EXCEPT !.upd = Without(@, k), !.new = {k}] \in Recs
           /\ k \in DOMAIN r.upd => [r EXCEPT !.upd[k].running = TRUE] \in Recs
  <1>1. PICK D \in SUBSET Keys : r.upd \in [D -> Listeners]
    BY DEF Recs
  <1>2. Without(r.upd, k) \in UNION {[E -> Listeners] : E \in SUBSET Keys}
    <2>1. Without(r.upd, k) \in [D \ {k} -> Listeners]
      BY <1>1 DEF Without
    <2> QED
      BY <2>1
  <1>3. ASSUME k \in D
        PROVE  [r.upd EXCEPT ![k].running = TRUE] \in UNION {[E -> Listeners] : E \in SUBSET Keys}
    <2>1. [r.upd[k] EXCEPT !.running = TRUE] \in Listeners
      BY <1>1, <1>3 DEF Listeners
    <2>2. [r.upd EXCEPT ![k].running = TRUE] \in [D -> Listeners]
      BY <1>1, <2>1
    <2> QED
      BY <2>2
  <1> QED
    BY <1>1, <1>2, <1>3 DEF Recs

\* What remains to be done when one key is done.
LEMMA WithoutFacts ==
    ASSUME NEW r \in Recs, NEW k \in Keys
    PROVE  /\ DOMAIN Without(r.upd, k) = DOMAIN r.upd \ {k}
           /\ \A d \in DOMAIN r.upd \ {k} : Without(r.upd, k)[d] = r.upd[d]
  BY DEF Without

LEMMA DeleteInv ==
    ASSUME ListenerInv, NEW s \in Services, DeleteListener(s)
    PROVE  ListenerInv'
  <1>1. PICK k \in NextDeletes(s) : /\ lis' = [lis EXCEPT ![k] = NoListener]
                                    /\ rec' = [rec EXCEPT ![s].del = @ \ {k}]
    BY DEF DeleteListener
  <1>2. rec[s] # NoRec /\ rec[s] \in Recs /\ PlanOK(s, rec[s]) /\ UNCHANGED <<ver, label, removed>>
    BY LocalType DEF DeleteListener, Idle
  <1>3. k \in rec[s].del /\ k \in Keys /\ Asked(s, k)
    BY <1>2 DEF NextDeletes, Recs, ListenerInv, RecOK
  <1> DEFINE r == [rec[s] EXCEPT !.del = @ \ {k}]
  <1>4. rec' = [rec EXCEPT ![s] = r]
    BY <1>1
  <1>5. r \in Recs /\ r.del = rec[s].del \ {k} /\ r.upd = rec[s].upd /\ r.ver = rec[s].ver
        /\ r.new = rec[s].new /\ r.start = rec[s].start
    BY <1>2, <1>3, RecType DEF Recs
  <1> HIDE DEF r
  <1>6. PlanOK(s, r) /\ k \notin DOMAIN r.upd
    BY <1>2, <1>3, <1>5 DEF PlanOK
  <1> QED
    BY <1>1, <1>2, <1>3, <1>4, <1>5, <1>6, CallInv

LEMMA CreateInv ==
    ASSUME ListenerInv, NEW s \in Services, CreateListener(s)
    PROVE  ListenerInv'
  <1>1. PICK k \in NextCreates(s) :
           /\ lis' = [lis EXCEPT ![k] = Created(s, k, Local(s)[k])]
           /\ rec' = [rec EXCEPT ![s].new = @ \ {k}, ![s].start = {k}]
    BY DEF CreateListener
  <1>2. rec[s] # NoRec /\ rec[s] \in Recs /\ PlanOK(s, rec[s]) /\ UNCHANGED <<ver, label, removed>>
    BY LocalType DEF CreateListener, Idle
  <1>3. k \in rec[s].new /\ k \in DOMAIN Local(s) /\ rec[s].del = {}
    BY <1>2 DEF NextCreates, PlanOK, Local
  <1>4. k \in Keys /\ Asked(s, k) /\ Local(s)[k] \in LocalListeners
    BY <1>2, <1>3, LocalType
  <1>5. Created(s, k, Local(s)[k]) \in Listeners /\ Created(s, k, Local(s)[k]).owner = s
    BY <1>4, CreatedType
  <1> DEFINE r == [rec[s] EXCEPT !.new = @ \ {k}, !.start = {k}]
             x == Created(s, k, Local(s)[k])
  <1>6. rec' = [rec EXCEPT ![s] = r]
    BY <1>1
  <1>7. r \in Recs /\ r.del = rec[s].del /\ r.upd = rec[s].upd /\ r.ver = rec[s].ver
        /\ r.new = rec[s].new \ {k} /\ r.start = {k}
    BY <1>2, <1>4, RecType DEF Recs
  <1>8. x \in Listeners /\ x.owner = s /\ lis' = [lis EXCEPT ![k] = x]
    BY <1>1, <1>5
  <1> HIDE DEF r, x
  <1>9. PlanOK(s, r) /\ k \notin DOMAIN r.upd
    BY <1>2, <1>3, <1>7 DEF PlanOK, Local
  <1>10. \A d \in DOMAIN r.upd :
           /\ r.upd[d].fwd = rec[s].upd[d].fwd
           /\ d = k => x # NoListener /\ Exists(k) /\ x.fwd = lis[k].fwd
    BY <1>7, <1>9
  <1>11. r.del \subseteq rec[s].del \ {k} /\ DOMAIN r.upd \subseteq DOMAIN rec[s].upd
    BY <1>3, <1>7
  <1> QED
    BY <1>2, <1>4, <1>6, <1>7, <1>8, <1>9, <1>10, <1>11, CallInv

\* A start changes nothing that a reconcile has read of the listener.
LEMMA Started ==
    ASSUME ListenerInv, NEW k \in Keys, Exists(k)
    PROVE  /\ [lis[k] EXCEPT !.running = TRUE] \in Listeners
           /\ [lis[k] EXCEPT !.running = TRUE].owner = lis[k].owner
           /\ [lis[k] EXCEPT !.running = TRUE].fwd = lis[k].fwd
           /\ [lis[k] EXCEPT !.running = TRUE].running
           /\ [lis EXCEPT ![k].running = TRUE] = [lis EXCEPT ![k] = [lis[k] EXCEPT !.running = TRUE]]
  BY DEF ListenerInv, Exists, Listeners

LEMMA StartInv ==
    ASSUME ListenerInv, NEW s \in Services, StartListener(s)
    PROVE  ListenerInv'
  <1>1. PICK k \in rec[s].start : /\ Exists(k)
                                  /\ lis' = [lis EXCEPT ![k].running = TRUE]
                                  /\ rec' = [rec EXCEPT ![s].start = {}]
    BY DEF StartListener
  <1>2. rec[s] # NoRec /\ rec[s] \in Recs /\ PlanOK(s, rec[s]) /\ UNCHANGED <<ver, label, removed>>
    BY LocalType DEF StartListener, Idle
  <1>3. k \in DOMAIN Local(s)
    BY <1>1, <1>2 DEF PlanOK, Local
  <1>4. k \in Keys /\ Asked(s, k)
    BY <1>2, <1>3, LocalType
  <1> DEFINE r == [rec[s] EXCEPT !.start = {}]
             x == [lis[k] EXCEPT !.running = TRUE]
  <1>5. rec' = [rec EXCEPT ![s] = r]
    BY <1>1
  <1>6. r \in Recs /\ r.del = rec[s].del /\ r.upd = rec[s].upd /\ r.ver = rec[s].ver
        /\ r.new = rec[s].new /\ r.start = {}
    BY <1>2, <1>4, RecType DEF Recs
  <1>7. /\ x \in Listeners /\ x.owner = lis[k].owner /\ x.fwd = lis[k].fwd
        /\ lis' = [lis EXCEPT ![k] = x] /\ x # NoListener
    BY <1>1, <1>4, Started, ListenerIsOne
  <1> HIDE DEF r, x
  <1>8. PlanOK(s, r) /\ k \notin r.del
    BY <1>2, <1>3, <1>6 DEF PlanOK, Local
  <1>9. \A d \in DOMAIN r.upd :
           /\ r.upd[d].fwd = rec[s].upd[d].fwd
           /\ d = k => x # NoListener /\ Exists(k) /\ x.fwd = lis[k].fwd
    BY <1>1, <1>6, <1>7
  <1>10. r.del \subseteq rec[s].del \ {k} /\ DOMAIN r.upd \subseteq DOMAIN rec[s].upd
    BY <1>6, <1>8
  <1> QED
    BY <1>1, <1>2, <1>4, <1>5, <1>6, <1>7, <1>8, <1>9, <1>10, CallInv

LEMMA StartStoppedInv ==
    ASSUME ListenerInv, NEW s \in Services, StartStopped(s)
    PROVE  ListenerInv'
  <1>1. PICK k \in NextUpdates(s) : /\ Exists(k)
                                    /\ lis' = [lis EXCEPT ![k].running = TRUE]
                                    /\ rec' = [rec EXCEPT ![s].upd[k].running = TRUE]
    BY DEF StartStopped
  <1>2. rec[s] # NoRec /\ rec[s] \in Recs /\ PlanOK(s, rec[s]) /\ UNCHANGED <<ver, label, removed>>
    BY LocalType DEF StartStopped, Idle
  <1>3. k \in DOMAIN rec[s].upd /\ k \in DOMAIN Local(s) /\ rec[s].del = {}
    BY <1>1, <1>2 DEF NextUpdates, PlanOK, Local
  <1>4. k \in Keys /\ Asked(s, k)
    BY <1>2, <1>3, LocalType
  <1> DEFINE r == [rec[s] EXCEPT !.upd[k].running = TRUE]
             x == [lis[k] EXCEPT !.running = TRUE]
  <1>5. rec' = [rec EXCEPT ![s] = r]
    BY <1>1
  <1>6. r \in Recs /\ r.del = rec[s].del /\ r.ver = rec[s].ver
        /\ r.new = rec[s].new /\ r.start = rec[s].start
        /\ r.upd = [rec[s].upd EXCEPT ![k].running = TRUE]
    BY <1>2, <1>3, <1>4, RecType DEF Recs
  <1>7. DOMAIN r.upd = DOMAIN rec[s].upd /\ \A d \in DOMAIN r.upd : r.upd[d].fwd = rec[s].upd[d].fwd
    <2>1. PICK D \in SUBSET Keys : rec[s].upd \in [D -> Listeners]
      BY <1>2 DEF Recs
    <2> QED
      BY <1>3, <1>6, <2>1 DEF Listeners
  <1>8. /\ x \in Listeners /\ x.owner = lis[k].owner /\ x.fwd = lis[k].fwd
        /\ lis' = [lis EXCEPT ![k] = x] /\ x # NoListener
    BY <1>1, <1>4, Started, ListenerIsOne
  <1> HIDE DEF r, x
  <1>9. PlanOK(s, r)
    BY <1>2, <1>6, <1>7 DEF PlanOK
  <1>10. \A d \in DOMAIN r.upd :
           /\ r.upd[d].fwd = rec[s].upd[d].fwd
           /\ d = k => x # NoListener /\ Exists(k) /\ x.fwd = lis[k].fwd
    BY <1>1, <1>7, <1>8
  <1>11. r.del \subseteq rec[s].del \ {k} /\ DOMAIN r.upd \subseteq DOMAIN rec[s].upd
    BY <1>3, <1>6, <1>7
  <1>12. r \in Recs
    BY <1>6
  <1> QED
    BY <1>1, <1>2, <1>4, <1>5, <1>8, <1>9, <1>10, <1>11, <1>12, CallInv

LEMMA RecreateInv ==
    ASSUME ListenerInv, NEW s \in Services, RecreateListener(s)
    PROVE  ListenerInv'
  <1>1. PICK k \in NextUpdates(s) : /\ lis' = [lis EXCEPT ![k] = NoListener]
                                    /\ rec' = [rec EXCEPT ![s].upd = Without(@, k), ![s].new = {k}]
    BY DEF RecreateListener
  <1>2. rec[s] # NoRec /\ rec[s] \in Recs /\ PlanOK(s, rec[s]) /\ UNCHANGED <<ver, label, removed>>
    BY LocalType DEF RecreateListener, Idle
  <1>3. k \in DOMAIN rec[s].upd /\ k \in DOMAIN Local(s) /\ rec[s].del = {}
    BY <1>1, <1>2 DEF NextUpdates, PlanOK, Local
  <1>4. k \in Keys /\ Asked(s, k)
    BY <1>2, <1>3, LocalType
  <1> DEFINE r == [rec[s] EXCEPT !.upd = Without(@, k), !.new = {k}]
  <1>5. rec' = [rec EXCEPT ![s] = r]
    BY <1>1
  <1>6. r \in Recs /\ r.del = rec[s].del /\ r.ver = rec[s].ver
        /\ r.new = {k} /\ r.start = rec[s].start /\ r.upd = Without(rec[s].upd, k)
    BY <1>2, <1>4, RecType DEF Recs
  <1> HIDE DEF r
  <1>7. /\ DOMAIN r.upd = DOMAIN rec[s].upd \ {k}
        /\ \A d \in DOMAIN r.upd : r.upd[d] = rec[s].upd[d]
    <2>1. rec[s] \in Recs /\ k \in Keys /\ r.upd = Without(rec[s].upd, k)
      BY <1>2, <1>4, <1>6
    <2>2. /\ DOMAIN Without(rec[s].upd, k) = DOMAIN rec[s].upd \ {k}
          /\ \A d \in DOMAIN rec[s].upd \ {k} : Without(rec[s].upd, k)[d] = rec[s].upd[d]
      BY <2>1, WithoutFacts
    <2> QED
      BY <2>1, <2>2
  <1>8. PlanOK(s, r)
    BY <1>2, <1>3, <1>6, <1>7 DEF PlanOK, Local
  <1> QED
    BY <1>1, <1>2, <1>3, <1>4, <1>5, <1>6, <1>7, <1>8, CallInv

LEMMA SetInv ==
    ASSUME ListenerInv, NEW s \in Services, SetListener(s)
    PROVE  ListenerInv'
  <1> DEFINE U(k) == Update(s, k, Local(s)[k], rec[s].upd[k])
             X(k) == [U(k) EXCEPT !.fwd = lis[k].fwd, !.running = lis[k].running]
             Kept(k) == rec[s].upd[k].fwd # 0 \/ U(k) = rec[s].upd[k]
  <1>1. PICK k \in NextUpdates(s) :
           /\ ~Kept(k) => Exists(k)
           /\ lis' = IF Kept(k) THEN lis ELSE [lis EXCEPT ![k] = X(k)]
           /\ rec' = [rec EXCEPT ![s].upd = Without(@, k)]
    BY DEF SetListener, Settable
  <1>2. rec[s] # NoRec /\ rec[s] \in Recs /\ PlanOK(s, rec[s]) /\ UNCHANGED <<ver, label, removed>>
    BY LocalType DEF SetListener, Idle
  <1>3. k \in DOMAIN rec[s].upd /\ k \in DOMAIN Local(s) /\ rec[s].del = {}
    BY <1>1, <1>2 DEF NextUpdates, PlanOK, Local
  <1>4. k \in Keys /\ Asked(s, k) /\ Local(s)[k] \in LocalListeners
    BY <1>2, <1>3, LocalType
  <1>5. rec[s].upd[k] \in Listeners
    <2>1. PICK D \in SUBSET Keys : rec[s].upd \in [D -> Listeners]
      BY <1>2 DEF Recs
    <2> QED
      BY <1>3, <2>1
  <1>6. U(k) \in Listeners /\ U(k).owner = s
    BY <1>4, <1>5, UpdateType
  <1> DEFINE x == IF Kept(k) THEN lis[k] ELSE X(k)
             r == [rec[s] EXCEPT !.upd = Without(@, k)]
  <1>7. /\ x \in Listeners \cup {NoListener} /\ lis' = [lis EXCEPT ![k] = x]
        /\ x # NoListener => \/ x.owner = s
                             \/ Exists(k) /\ x.owner = lis[k].owner /\ x.fwd = lis[k].fwd
    <2>1. lis \in [Keys -> Listeners \cup {NoListener}]
      BY DEF ListenerInv
    <2>2. CASE Kept(k)
      BY <1>1, <1>4, <2>1, <2>2 DEF Exists
    <2>3. CASE ~Kept(k)
      <3>1. lis[k] \in Listeners
        BY <1>1, <1>4, <2>1, <2>3 DEF Exists
      <3> HIDE DEF U
      <3>2. X(k) \in Listeners /\ X(k).owner = s
        BY <1>6, <3>1 DEF Listeners
      <3> HIDE DEF X
      <3> QED
        BY <1>1, <2>3, <3>2
    <2> QED
      BY <2>2, <2>3
  <1> HIDE DEF x
  <1>8. rec' = [rec EXCEPT ![s] = r]
    BY <1>1
  <1>9. r \in Recs /\ r.del = rec[s].del /\ r.ver = rec[s].ver
        /\ r.new = rec[s].new /\ r.start = rec[s].start /\ r.upd = Without(rec[s].upd, k)
    BY <1>2, <1>4, RecType DEF Recs
  <1> HIDE DEF r, U, X, Kept
  <1>10. /\ DOMAIN r.upd = DOMAIN rec[s].upd \ {k}
         /\ \A d \in DOMAIN r.upd : r.upd[d] = rec[s].upd[d]
    <2>1. rec[s] \in Recs /\ k \in Keys /\ r.upd = Without(rec[s].upd, k)
      BY <1>2, <1>4, <1>9
    <2>2. /\ DOMAIN Without(rec[s].upd, k) = DOMAIN rec[s].upd \ {k}
          /\ \A d \in DOMAIN rec[s].upd \ {k} : Without(rec[s].upd, k)[d] = rec[s].upd[d]
      BY <2>1, WithoutFacts
    <2> QED
      BY <2>1, <2>2
  <1>11. PlanOK(s, r)
    BY <1>2, <1>3, <1>9, <1>10 DEF PlanOK, Local
  <1>12. \A d \in DOMAIN r.upd : d # k /\ r.upd[d].fwd = rec[s].upd[d].fwd
    BY <1>10
  <1>13. r \in Recs /\ r.del \subseteq rec[s].del \ {k} /\ DOMAIN r.upd \subseteq DOMAIN rec[s].upd
    BY <1>3, <1>9, <1>10
  <1> QED
    BY <1>2, <1>4, <1>7, <1>8, <1>11, <1>12, <1>13, CallInv

LEMMA ReturnErrInv ==
    ASSUME ListenerInv, NEW s \in Services, ReturnErr(s)
    PROVE  ListenerInv'
  BY EndInv DEF ReturnErr, ListenerInv

LEMMA FinishInv ==
    ASSUME ListenerInv, NEW s \in Services, Finish(s)
    PROVE  ListenerInv'
  <1>1. rec[s] # NoRec /\ label' = [label EXCEPT ![s] = rec[s].ver]
        /\ rec' = [rec EXCEPT ![s] = NoRec] /\ UNCHANGED <<lis, ver, removed>>
    BY DEF Finish, Idle
  <1>2. rec[s].ver \in 1 .. ver[s] /\ ver[s] \in Nat
    BY <1>1, LocalType DEF PlanOK, ListenerInv
  <1>3. label' \in [Services -> Nat] /\ \A t \in Services : label'[t] \in 0 .. ver[t]
    BY <1>1, <1>2 DEF ListenerInv
  <1> QED
    BY <1>1, <1>3, EndInv

\* A new version only adds to what the service has asked for.
LEMMA EditInv ==
    ASSUME ListenerInv, NEW s \in Services, Edit(s)
    PROVE  ListenerInv'
  <1>1. /\ ver' = [ver EXCEPT ![s] = ver[s] + 1] /\ ver[s] < Len(Plans[s])
        /\ UNCHANGED <<lis, label, rec, removed>>
    BY DEF Edit
  <1>2. \A t \in Services : ver[t] \in Nat /\ Len(Plans[t]) \in Nat /\ label[t] \in 0 .. ver[t]
    BY PlansAssumption DEF ListenerInv
  <1>3. \A t \in Services : ver'[t] \in 0 .. Len(Plans[t]) /\ ver[t] <= ver'[t] /\ ver'[t] \in Nat
    BY <1>1, <1>2 DEF ListenerInv
  <1>4. \A t \in Services : 1 .. ver[t] \subseteq 1 .. ver'[t] /\ label'[t] \in 0 .. ver'[t]
    BY <1>1, <1>2, <1>3
  <1>5. /\ \A t \in Services : \A k : Asked(t, k) => Asked(t, k)'
        /\ \A t \in Services : \A k : Shared(t, k) => Shared(t, k)'
    BY <1>4 DEF Asked, Shared, Want
  <1>6. \A k \in Keys : OwnerOK(k)'
    BY <1>1, <1>5, PlansAssumption DEF ListenerInv, OwnerOK, Exists, Listeners
  <1>7. ASSUME NEW t \in Services, NEW r, RecOK(t, r)
        PROVE  RecOK(t, r)'
    <2>1. PlanOK(t, r)'
      BY <1>4, <1>7 DEF RecOK, PlanOK, Want
    <2>2. /\ \A k \in r.del : FreshDelete(t, k)' /\ Asked(t, k)'
          /\ \A k \in DOMAIN r.upd : FreshUpdate(t, k, r.upd[k])'
      BY <1>1, <1>5, <1>7 DEF RecOK, FreshDelete, FreshUpdate, Exists
    <2> QED
      BY <1>7, <2>1, <2>2 DEF RecOK
  <1>8. \A t \in Services : rec'[t] # NoRec => RecOK(t, rec[t])'
    BY <1>1, <1>7 DEF ListenerInv
  <1> QED
    BY <1>1, <1>3, <1>4, <1>6, <1>8 DEF ListenerInv

\* The user makes a listener where there is none, and deletes one: his own, which no
\* reconcile has found to be its service's and which does not redirect, or that of a
\* service, which is recorded.
LEMMA ConsoleInv ==
    ASSUME ListenerInv, ConsoleCreate \/ ConsoleDelete
    PROVE  ListenerInv'
  <1>1. PICK k \in Keys, x \in Listeners \cup {NoListener} :
           /\ lis' = [lis EXCEPT ![k] = x]
           /\ x # NoListener => x.owner = User /\ x.fwd = 0
           /\ Exists(k) /\ lis[k].owner # User => k \in removed'[lis[k].owner]
           /\ removed' \in [Services -> SUBSET Keys]
           /\ \A t \in Services : removed[t] \subseteq removed'[t]
           /\ UNCHANGED <<ver, label, rec>>
    <2>1. CASE ConsoleCreate
      <3>1. PICK k \in ConsoleKeys : /\ \A j \in Keys : Clash(j, k) => ~Exists(j)
                                     /\ lis' = [lis EXCEPT ![k] = ConsoleListener(k)]
                                     /\ UNCHANGED <<ver, label, rec, removed>>
        BY <2>1 DEF ConsoleCreate
      <3>2. k \in Keys /\ ~Exists(k)
        BY <3>1, PlansAssumption DEF Clash
      <3>3. ConsoleListener(k) \in Listeners
        BY PlansAssumption DEF ConsoleListener, Listeners
      <3>4. ConsoleListener(k).owner = User /\ ConsoleListener(k).fwd = 0
        BY DEF ConsoleListener
      <3> QED
        BY <3>1, <3>2, <3>3, <3>4 DEF ListenerInv
    <2>2. CASE ConsoleDelete
      <3>1. PICK k \in ConsoleKeys :
              /\ Exists(k)
              /\ lis' = [lis EXCEPT ![k] = NoListener]
              /\ removed' = [s \in Services |-> IF lis[k].owner = s THEN removed[s] \cup {k}
                                                ELSE removed[s]]
              /\ UNCHANGED <<ver, label, rec>>
        BY <2>2 DEF ConsoleDelete, Deletable
      <3>2. k \in Keys
        BY <3>1, PlansAssumption
      <3>3. lis[k].owner \in Services \cup {User}
        BY <3>1, <3>2 DEF ListenerInv, Exists, Listeners
      <3> QED
        BY <3>1, <3>2, <3>3 DEF ListenerInv
    <2> QED
      BY <2>1, <2>2
  <1>2. /\ lis' \in [Keys -> Listeners \cup {NoListener}] /\ lis'[k] = x
        /\ \A j \in Keys : j # k => lis'[j] = lis[j]
    BY <1>1 DEF ListenerInv
  <1>3. \A j \in Keys : OwnerOK(j)'
    BY <1>1, <1>2, AskedSame DEF ListenerInv, OwnerOK, Exists
  <1>4. ASSUME NEW t \in Services, NEW r, RecOK(t, r)
        PROVE  RecOK(t, r)'
    <2>1. r.del \subseteq Keys /\ DOMAIN r.upd \subseteq Keys
      BY <1>4 DEF RecOK, Recs
    <2>2. \A d \in r.del : FreshDelete(t, d) => FreshDelete(t, d)'
      BY <1>1, <1>2, <2>1, AskedSame, PlansAssumption DEF FreshDelete, Exists
    <2>3. Exists(k) => \/ lis[k].fwd = 0
                       \/ k \in removed'[t]
                       \/ Shared(t, k)
      <3>1. Exists(k) => lis[k].owner \in Services \cup {User}
        BY DEF ListenerInv, Exists, Listeners
      <3> QED
        BY <1>1, <3>1 DEF ListenerInv, OwnerOK, Shared
    <2>4. \A d \in DOMAIN r.upd : FreshUpdate(t, d, r.upd[d]) => FreshUpdate(t, d, r.upd[d])'
      BY <1>1, <1>2, <2>1, <2>3, AskedSame DEF FreshUpdate, Exists
    <2> QED
      BY <1>1, <1>4, <2>2, <2>4, RecSame
  <1>5. \A t \in Services : rec'[t] # NoRec => RecOK(t, rec[t])'
    BY <1>1, <1>4 DEF ListenerInv
  <1> QED
    BY <1>1, <1>2, <1>3, <1>5 DEF ListenerInv

LEMMA StutterInv == ListenerInv /\ UNCHANGED vars => ListenerInv'
  <1> SUFFICES ASSUME ListenerInv, UNCHANGED vars PROVE ListenerInv'
    OBVIOUS
  <1>1. UNCHANGED <<lis, ver, label, rec, removed>>
    BY DEF vars
  <1>2. \A k \in Keys : OwnerOK(k)'
    BY <1>1, AskedSame DEF ListenerInv, OwnerOK, Exists
  <1>3. ASSUME NEW t \in Services, NEW r, RecOK(t, r)
        PROVE  RecOK(t, r)'
    BY <1>1, <1>3, AskedSame, RecSame DEF FreshDelete, FreshUpdate, Exists
  <1>4. \A t \in Services : rec'[t] # NoRec => RecOK(t, rec[t])'
    BY <1>1, <1>3 DEF ListenerInv
  <1> QED
    BY <1>1, <1>2, <1>4 DEF ListenerInv

LEMMA NextInv == ListenerInv /\ [Next]_vars => ListenerInv'
  <1> SUFFICES ASSUME ListenerInv, [Next]_vars PROVE ListenerInv'
    OBVIOUS
  <1>1. CASE ConsoleCreate \/ ConsoleDelete
    BY <1>1, ConsoleInv
  <1>2. ASSUME NEW s \in Services, Edit(s) \/ Fails(s) \/ Step(s)
        PROVE  ListenerInv'
    <2>1. CASE Edit(s)
      BY <2>1, EditInv
    <2>2. CASE Fails(s) \/ Refused(s)
      BY <2>2, ReturnErrInv DEF Fails, Refused
    <2> QED
      BY <1>2, <2>1, <2>2, BeginInv, DeleteInv, CreateInv, StartInv, StartStoppedInv,
         RecreateInv, SetInv, FinishInv DEF Step
  <1>3. CASE UNCHANGED vars
    BY <1>3, StutterInv
  <1> QED
    BY <1>1, <1>2, <1>3 DEF Next, Disturbance

LEMMA Invariance == Spec => []ListenerInv
  BY InitInv, NextInv, PTL DEF Spec

LEMMA InvType == ListenerInv => TypeOK
  <1> SUFFICES ASSUME ListenerInv PROVE TypeOK
    OBVIOUS
  <1>1. ASSUME NEW s \in Services, rec[s] # NoRec
        PROVE  /\ rec[s].ver \in 1 .. ver[s]
               /\ rec[s].del \subseteq Keys /\ rec[s].new \subseteq Keys /\ rec[s].start \subseteq Keys
               /\ \A k \in DOMAIN rec[s].upd : k \in Keys /\ rec[s].upd[k] \in Listeners
               /\ \A j, k \in rec[s].start : j = k
    <2>1. rec[s] \in Recs /\ PlanOK(s, rec[s])
      BY <1>1, LocalType
    <2>2. PICK D \in SUBSET Keys : rec[s].upd \in [D -> Listeners]
      BY <2>1 DEF Recs
    <2> QED
      BY <2>1, <2>2 DEF Recs, PlanOK
  <1> QED
    BY <1>1 DEF ListenerInv, TypeOK

\* The variables of the listeners hold values of their types, for every plan of the
\* services: no call of applyListeners sends an attribute that is not set.
THEOREM ListenerTypes == Spec => []TypeOK
  BY Invariance, InvType, PTL

-----------------------------------------------------------------------------
\* A reconcile in progress is moved on by its own service only.
LEMMA OwnStep ==
    ASSUME ListenerInv, [Next]_vars, NEW s \in Services, rec[s] # NoRec, rec[s] # rec'[s]
    PROVE  \/ DeleteListener(s) \/ CreateListener(s) \/ StartListener(s) \/ StartStopped(s)
           \/ RecreateListener(s) \/ SetListener(s)
           \/ UNCHANGED lis
  <1>1. ~UNCHANGED rec /\ DOMAIN rec = Services
    BY DEF ListenerInv
  <1>2. ASSUME NEW t \in Services, t # s, Step(t) \/ Edit(t) \/ Fails(t)
        PROVE  FALSE
    <2>1. rec'[s] = rec[s]
      <3> USE <1>1, <1>2
      <3>1. CASE Begin(t)
        BY <3>1 DEF Begin
      <3>2. CASE DeleteListener(t) \/ CreateListener(t)
        BY <3>2 DEF DeleteListener, CreateListener
      <3>3. CASE StartListener(t) \/ StartStopped(t)
        BY <3>3 DEF StartListener, StartStopped
      <3>4. CASE RecreateListener(t) \/ SetListener(t)
        BY <3>4 DEF RecreateListener, SetListener
      <3>5. CASE Refused(t) \/ Fails(t) \/ Finish(t) \/ Edit(t)
        BY <3>5 DEF Refused, Fails, ReturnErr, Finish, Edit
      <3> QED
        BY <3>1, <3>2, <3>3, <3>4, <3>5 DEF Step
    <2> QED
      BY <2>1
  <1>3. ~(ConsoleCreate \/ ConsoleDelete \/ UNCHANGED vars)
    BY <1>1 DEF ConsoleCreate, ConsoleDelete, vars
  <1>4. Step(s) \/ Edit(s) \/ Fails(s)
    BY <1>2, <1>3 DEF Next, Disturbance
  <1> QED
    BY <1>4 DEF Step, Begin, Refused, Fails, ReturnErr, Finish, Edit

\* A created, started or updated listener is there afterwards, and runs if it did.
LEMMA OnlyDeletesDelete ==
    ASSUME ListenerInv, NEW s \in Services, NEW k \in Keys, lis[k] # NoListener,
           CreateListener(s) \/ StartListener(s) \/ StartStopped(s) \/ SetListener(s)
    PROVE  lis'[k] # NoListener /\ (lis[k].running => lis'[k].running)
  <1>1. lis \in [Keys -> Listeners \cup {NoListener}] /\ lis[k] \in Listeners
    BY DEF ListenerInv
  <1>2. CASE CreateListener(s)
    <2>1. PICK j \in NextCreates(s) : /\ Creatable(j, Local(s)[j])
                                      /\ lis' = [lis EXCEPT ![j] = Created(s, j, Local(s)[j])]
      BY <1>2 DEF CreateListener
    <2>2. j # k
      BY <2>1 DEF Creatable, Clash, Exists
    <2> QED
      BY <1>1, <2>1, <2>2
  <1>3. CASE StartListener(s) \/ StartStopped(s)
    <2>1. PICK j : lis' = [lis EXCEPT ![j].running = TRUE]
      BY <1>3 DEF StartListener, StartStopped
    <2>2. CASE j = k
      <3>1. [lis[k] EXCEPT !.running = TRUE] \in Listeners /\ [lis[k] EXCEPT !.running = TRUE].running
        BY <1>1 DEF Listeners
      <3> QED
        BY <1>1, <2>1, <2>2, <3>1, ListenerIsOne
    <2>3. CASE j # k
      BY <1>1, <2>1, <2>3
    <2> QED
      BY <2>2, <2>3
  <1>4. CASE SetListener(s)
    <2> DEFINE U(j) == Update(s, j, Local(s)[j], rec[s].upd[j])
               X(j) == [U(j) EXCEPT !.fwd = lis[j].fwd, !.running = lis[j].running]
    <2>1. PICK j \in NextUpdates(s) : lis' = lis \/ lis' = [lis EXCEPT ![j] = X(j)]
      BY <1>4 DEF SetListener
    <2>2. ASSUME j = k
          PROVE  X(k) \in Listeners /\ X(k).running = lis[k].running
      <3>1. rec[s] # NoRec
        BY <1>4 DEF SetListener, Idle
      <3>2. rec[s] \in Recs /\ k \in DOMAIN rec[s].upd /\ k \in DOMAIN Local(s)
        BY <2>1, <2>2, <3>1, LocalType DEF NextUpdates, PlanOK, Local
      <3>3. PICK D \in SUBSET Keys : rec[s].upd \in [D -> Listeners]
        BY <3>2 DEF Recs
      <3>4. U(k) \in Listeners
        BY <3>1, <3>2, <3>3, LocalType, UpdateType
      <3> HIDE DEF U
      <3> QED
        BY <1>1, <3>4 DEF Listeners
    <2> HIDE DEF X
    <2> QED
      BY <1>1, <2>1, <2>2, ListenerIsOne
  <1> QED
    BY <1>2, <1>3, <1>4

\* "Do not delete any listener that no longer managed by my service": whatever the
\* interleaving, a reconcile of applyListeners that gives a listener up deletes its
\* own, unless another service has asked for the same port and protocol, or the user
\* has deleted it meanwhile.
THEOREM ListenersNoForeignDelete == Spec => NoForeignDelete
  <1>1. ListenerInv /\ [Next]_vars =>
          [\A s \in Services, k \in Keys :
             /\ rec[s] # NoRec /\ rec[s] # rec'[s]
             /\ lis[k] # NoListener /\ lis'[k] = NoListener
             /\ k \in rec[s].del
             => lis[k].owner = s \/ Shared(s, k) \/ k \in removed[s]]_vars
    <2> SUFFICES ASSUME ListenerInv, [Next]_vars, NEW s \in Services, NEW k \in Keys,
                        rec[s] # NoRec, rec[s] # rec'[s], lis[k] # NoListener,
                        lis'[k] = NoListener, k \in rec[s].del
                 PROVE  lis[k].owner = s \/ Shared(s, k) \/ k \in removed[s]
      OBVIOUS
    <2> QED
      BY DEF ListenerInv, RecOK, FreshDelete
  <1> QED
    BY <1>1, Invariance, PTL DEF Spec, NoForeignDelete

\* A listener that the version in work keeps is neither deleted nor stopped by the
\* service's reconcile, however stale what it read, unless its redirect changes or
\* another service has asked for it as well, or the user has deleted it meanwhile.
THEOREM ListenersKeptServe == Spec => KeptListenersServe
  <1>1. ListenerInv /\ [Next]_vars =>
          [\A s \in Services, k \in Keys :
             /\ rec[s] # NoRec /\ rec[s] # rec'[s]
             /\ k \in DOMAIN Local(s)
             /\ lis[k] # NoListener /\ lis[k].running
             /\ lis[k].fwd = Local(s)[k].fwd
             => \/ lis'[k] # NoListener /\ lis'[k].running
                \/ Shared(s, k) \/ k \in removed[s]]_vars
    <2> SUFFICES ASSUME ListenerInv, [Next]_vars, NEW s \in Services, NEW k \in Keys,
                        rec[s] # NoRec, rec[s] # rec'[s], k \in DOMAIN Local(s),
                        ~Shared(s, k), k \notin removed[s], lis[k] # NoListener, lis[k].running,
                        lis[k].fwd = Local(s)[k].fwd
                 PROVE  lis'[k] # NoListener /\ lis'[k].running
      OBVIOUS
    <2>1. rec[s] \in Recs /\ PlanOK(s, rec[s]) /\ lis \in [Keys -> Listeners \cup {NoListener}]
      BY LocalType DEF ListenerInv
    <2>2. CASE DeleteListener(s)
      <3>1. PICK j \in NextDeletes(s) : lis' = [lis EXCEPT ![j] = NoListener]
        BY <2>2 DEF DeleteListener
      <3>2. j # k
        BY <2>1, <3>1 DEF NextDeletes, PlanOK, Local
      <3> QED
        BY <2>1, <3>1, <3>2
    <2>3. CASE RecreateListener(s)
      <3>1. PICK j \in NextUpdates(s) : /\ NeedRecreate(j, Local(s)[j], rec[s].upd[j])
                                        /\ lis' = [lis EXCEPT ![j] = NoListener]
        BY <2>3 DEF RecreateListener
      <3>2. j \in DOMAIN rec[s].upd
        BY <3>1 DEF NextUpdates
      <3>3. FreshUpdate(s, j, rec[s].upd[j])
        BY <3>2 DEF ListenerInv, RecOK
      <3>4. j # k
        BY <3>1, <3>3 DEF FreshUpdate, Exists, NeedRecreate
      <3> QED
        BY <2>1, <3>1, <3>4
    <2> QED
      BY <2>2, <2>3, OwnStep, OnlyDeletesDelete
  <1> QED
    BY <1>1, Invariance, PTL DEF Spec, KeptListenersServe
=============================================================================
