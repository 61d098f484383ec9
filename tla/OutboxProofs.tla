----------------------------- MODULE OutboxProofs -----------------------------
(***************************************************************************)
(* Theorems about Outbox for every value of its constants: the retry       *)
(* delays, the locks, the messages, and the refinement of Feed.            *)
(***************************************************************************)
EXTENDS Outbox, WellFoundedInduction, TLAPS

Settled == {"published", "deleted"}
Unborn  == {"none", "open", "aborted"}

-----------------------------------------------------------------------------
(* Induction over the naturals, said of sets: a set of counterexamples that  *)
(* is not empty has a least one.                                             *)
LEMMA LeastNatural ==
  ASSUME NEW T \in SUBSET Nat, T # {}
  PROVE  \E n \in T : \A m \in T : n <= m
<1> DEFINE less == OpToRel(<, Nat)
<1>1. IsWellFoundedOn(less, Nat)
  BY NatLessThanWellFounded
<1>2. \A m, n \in Nat : m < n => <<m, n>> \in less
  BY DEF OpToRel
<1> HIDE DEF less
<1>3. PICK n \in T : \A m \in T : <<m, n>> \notin less
  BY <1>1, WFMin
<1>4. n \in Nat /\ \A m \in T : m \in Nat /\ ~(m < n)
  BY <1>2, <1>3
<1>5. \A m \in T : n <= m
  BY <1>4
<1> QED
  BY <1>5

(* A function that satisfies the definition of TwoTo exists.                 *)
LEMMA PowersExist ==
  ASSUME NEW k \in Nat
  PROVE  \E f : f = [i \in 0 .. k |-> IF i = 0 THEN 1 ELSE 2 * f[i - 1]]
<1> DEFINE Exists(n) == \E f : f = [i \in 0 .. n |-> IF i = 0 THEN 1 ELSE 2 * f[i - 1]]
           missing == {n \in Nat : ~Exists(n)}
<1> SUFFICES ASSUME missing # {} PROVE FALSE
  OBVIOUS
<1>1. PICK n \in missing : \A m \in missing : n <= m
  BY LeastNatural
<1>2. n \in Nat /\ ~Exists(n)
  OBVIOUS
<1>3. CASE n = 0
  <2> DEFINE f == [i \in 0 .. n |-> 1]
  <2>1. f = [i \in 0 .. n |-> IF i = 0 THEN 1 ELSE 2 * f[i - 1]]
    BY <1>3
  <2> QED
    BY <1>2, <2>1
<1>4. CASE n # 0
  <2>1. n - 1 \in Nat /\ ~(n <= n - 1)
    BY <1>2, <1>4
  <2>2. Exists(n - 1)
    BY <1>1, <2>1
  <2>3. PICK f : f = [i \in 0 .. n - 1 |-> IF i = 0 THEN 1 ELSE 2 * f[i - 1]]
    BY <2>2
  <2> DEFINE g == [i \in 0 .. n |-> IF i = n THEN 2 * f[n - 1] ELSE f[i]]
  <2>4. \A i \in 0 .. n : g[i] = IF i = 0 THEN 1 ELSE 2 * g[i - 1]
    BY <1>2, <1>4, <2>1, <2>3
  <2>5. g = [i \in 0 .. n |-> g[i]]
    OBVIOUS
  <2> HIDE DEF g
  <2>6. [i \in 0 .. n |-> g[i]] = [i \in 0 .. n |-> IF i = 0 THEN 1 ELSE 2 * g[i - 1]]
    BY <2>4
  <2> QED
    BY <1>2, <2>5, <2>6
<1> QED
  BY <1>3, <1>4

LEMMA PowersUnfold ==
  TwoTo = [n \in 0 .. MaxExponent |-> IF n = 0 THEN 1 ELSE 2 * TwoTo[n - 1]]
<1>1. \E f : f = [n \in 0 .. MaxExponent |-> IF n = 0 THEN 1 ELSE 2 * f[n - 1]]
  BY OutboxAssumption, PowersExist
<1> QED
  BY <1>1 DEF TwoTo

LEMMA PowersGrow ==
  ASSUME NEW n \in 0 .. MaxExponent
  PROVE  TwoTo[n] \in Nat /\ n < TwoTo[n]
<1> DEFINE Grows(k) == TwoTo[k] \in Nat /\ k < TwoTo[k]
           small == {k \in 0 .. MaxExponent : ~Grows(k)}
<1> SUFFICES ASSUME small # {} PROVE FALSE
  OBVIOUS
<1>1. MaxExponent \in Nat /\ small \in SUBSET Nat
  BY OutboxAssumption
<1>2. PICK k \in small : \A m \in small : k <= m
  BY <1>1, LeastNatural
<1>3. k \in Nat /\ k \in 0 .. MaxExponent /\ ~Grows(k)
  BY <1>1
<1>4. TwoTo[k] = IF k = 0 THEN 1 ELSE 2 * TwoTo[k - 1]
  BY <1>3, PowersUnfold
<1>5. CASE k = 0
  BY <1>3, <1>4, <1>5
<1>6. CASE k # 0
  <2>1. k - 1 \in 0 .. MaxExponent /\ ~(k <= k - 1)
    BY <1>1, <1>3, <1>6
  <2>2. Grows(k - 1)
    BY <1>2, <2>1
  <2> QED
    BY <1>3, <1>4, <1>6, <2>2
<1> QED
  BY <1>5, <1>6

(* The delay after any number of attempts is at least a second and never     *)
(* longer than the cap.                                                      *)
LEMMA DelayIsBounded ==
  ASSUME NEW attempts \in Nat \ {0}
  PROVE  Delay(attempts) \in 1 .. Cap
<1>1. AtMost(attempts - 1, MaxExponent) \in 0 .. MaxExponent
  BY OutboxAssumption DEF AtMost
<1>2. TwoTo[AtMost(attempts - 1, MaxExponent)] \in Nat \ {0}
  BY <1>1, PowersGrow
<1> QED
  BY <1>2, OutboxAssumption DEF Delay, AtMost

-----------------------------------------------------------------------------
(* Types *)

(* Every transformation of a row yields a row.                               *)
LEMMA RowsStayRows ==
  ASSUME NEW r \in Rows
  PROVE  /\ \A state \in Unborn \cup {"pending"} \cup Settled :
              [r EXCEPT !.state = state] \in Rows /\ [r EXCEPT !.state = state].state = state
         /\ Published(r) \in Rows /\ Published(r).state = "published"
         /\ \A age \in 0 .. Cap : Postponed(r, age) \in Rows /\ Postponed(r, age).state = r.state
         /\ LET aged == [r EXCEPT !.wait = AtLeast(0, @ - 1)] IN aged \in Rows /\ aged.state = r.state
<1>1. r.attempts \in 0 .. MaxExponent + 1 /\ r.wait \in 0 .. Cap
  BY DEF Rows
<1>2. MaxExponent \in Nat /\ Cap \in Nat \ {0}
  BY OutboxAssumption
<1>3. AtMost(r.attempts + 1, MaxExponent + 1) \in 0 .. MaxExponent + 1
  BY <1>1, <1>2 DEF AtMost
<1>4. AtLeast(0, r.wait - 1) \in 0 .. Cap
  BY <1>1, <1>2 DEF AtLeast
<1>5. \A age \in 0 .. Cap : AtLeast(0, Delay(r.attempts + 1) - age) \in 0 .. Cap
  <2>1. Delay(r.attempts + 1) \in 1 .. Cap
    BY <1>1, DelayIsBounded
  <2> QED
    BY <1>2, <2>1 DEF AtLeast
<1>6. \A state \in Unborn \cup {"pending"} \cup Settled :
        [r EXCEPT !.state = state] \in Rows /\ [r EXCEPT !.state = state].state = state
  BY DEF Rows, Unborn, Settled
<1>7. Published(r) \in Rows /\ Published(r).state = "published"
  <2> DEFINE attempts == AtMost(r.attempts + 1, MaxExponent + 1)
             published(a, w) == [r EXCEPT !.state = "published", !.attempts = a, !.wait = w, !.error = FALSE]
  <2>1. ASSUME NEW a \in 0 .. MaxExponent + 1, NEW w \in 0 .. Cap
        PROVE  published(a, w) \in Rows /\ published(a, w).state = "published"
    BY DEF Rows
  <2>2. Published(r) = published(attempts, 0)
    BY DEF Published, Rows
  <2>3. attempts \in 0 .. MaxExponent + 1 /\ 0 \in 0 .. Cap
    BY <1>2, <1>3
  <2> HIDE DEF attempts, published
  <2> QED
    BY <2>1, <2>2, <2>3
<1>8. ASSUME NEW age \in 0 .. Cap
      PROVE  Postponed(r, age) \in Rows /\ Postponed(r, age).state = r.state
  <2> DEFINE attempts == AtMost(r.attempts + 1, MaxExponent + 1)
             wait == AtLeast(0, Delay(r.attempts + 1) - age)
             postponed(a, w) == [r EXCEPT !.attempts = a, !.wait = w, !.error = TRUE]
  <2>1. ASSUME NEW a \in 0 .. MaxExponent + 1, NEW w \in 0 .. Cap
        PROVE  postponed(a, w) \in Rows /\ postponed(a, w).state = r.state
    BY DEF Rows
  <2>2. Postponed(r, age) = postponed(attempts, wait)
    BY DEF Postponed, Rows
  <2>3. attempts \in 0 .. MaxExponent + 1 /\ wait \in 0 .. Cap
    BY <1>3, <1>5
  <2> HIDE DEF attempts, wait, postponed
  <2> QED
    BY <2>1, <2>2, <2>3
<1>9. LET aged == [r EXCEPT !.wait = AtLeast(0, @ - 1)] IN aged \in Rows /\ aged.state = r.state
  <2>1. ASSUME NEW wait \in 0 .. Cap
        PROVE  [r EXCEPT !.wait = wait] \in Rows /\ [r EXCEPT !.wait = wait].state = r.state
    BY DEF Rows
  <2> QED
    BY <1>4, <2>1
<1> QED
  BY <1>6, <1>7, <1>8, <1>9

LEMMA IdleTransactions ==
  /\ Idle \in Transactions
  /\ \A t \in Transactions : /\ t.age \in 0 .. Cap
                             /\ \A todo \in SUBSET Events :
                                  [t EXCEPT !.busy = TRUE, !.todo = todo] \in Transactions
<1>1. Idle \in Transactions
  BY OutboxAssumption DEF Idle, Transactions
<1>2. ASSUME NEW t \in Transactions, NEW todo \in SUBSET Events
      PROVE  t.age \in 0 .. Cap /\ [t EXCEPT !.busy = TRUE, !.todo = todo] \in Transactions
  BY DEF Transactions
<1> QED
  BY <1>1, <1>2

LEMMA TypeInit == Init => TypeOK
<1>1. ASSUME NEW e \in Events
      PROVE  [state |-> "none", attempts |-> 0, wait |-> 0, error |-> FALSE] \in Rows
  BY OutboxAssumption DEF Rows
<1> SUFFICES ASSUME Init PROVE TypeOK
  OBVIOUS
<1>2. row \in [Events -> Rows]
  BY <1>1 DEF Init
<1>3. pub \in [Publishers -> Transactions]
  BY IdleTransactions DEF Init
<1> QED
  BY <1>2, <1>3 DEF Init, TypeOK

LEMMA TypeNext == TypeOK /\ [Next]_vars => TypeOK'
<1> SUFFICES ASSUME TypeOK, [Next]_vars PROVE TypeOK'
  OBVIOUS
<1>0. /\ \A e \in Events : row[e] \in Rows
      /\ \A p \in Publishers : pub[p] \in Transactions /\ pub[p].age \in 0 .. Cap
      /\ Idle \in Transactions
  BY IdleTransactions DEF TypeOK
<1>1. ASSUME NEW e \in Events, Begin(e) \/ End(e) \/ Forget(e)
      PROVE  TypeOK'
  <2>1. PICK state \in Unborn \cup {"pending"} \cup Settled : row' = [row EXCEPT ![e].state = state]
    BY <1>1 DEF Begin, End, Forget, Unborn, Settled
  <2>2. [row[e] EXCEPT !.state = state] \in Rows
    BY <1>0, RowsStayRows
  <2>3. row' \in [Events -> Rows]
    BY <2>1, <2>2 DEF TypeOK
  <2> QED
    BY <1>1, <2>3 DEF Begin, End, Forget, TypeOK
<1>2. ASSUME NEW p \in Publishers, StartBatch(p)
      PROVE  TypeOK'
  <2>1. First(Offer) \subseteq Events
    BY DEF First, Offer
  <2>2. [Idle EXCEPT !.busy = TRUE, !.todo = First(Offer)] \in Transactions
    BY <2>1, IdleTransactions
  <2>3. pub' \in [Publishers -> Transactions]
    BY <1>2, <2>2 DEF StartBatch, TypeOK
  <2> QED
    BY <1>2, <2>3 DEF StartBatch, TypeOK
<1>3. ASSUME NEW p \in Publishers, NEW e \in Events,
             Accept(p, e) \/ Refuse(p, e) \/ LoseReply(p, e)
      PROVE  TypeOK'
  <2>1. pub' \in [Publishers -> Transactions]
    BY <1>3 DEF Accept, Refuse, LoseReply, TypeOK, Transactions
  <2>2. sent' \in [Events -> Nat] /\ faults' \in [Events -> Nat]
    BY <1>3 DEF Accept, Refuse, LoseReply, TypeOK
  <2>3. UNCHANGED row
    BY <1>3 DEF Accept, Refuse, LoseReply
  <2> QED
    BY <2>1, <2>2, <2>3 DEF TypeOK
<1>4. ASSUME NEW p \in Publishers, Commit(p)
      PROVE  TypeOK'
  <2>1. \A e \in Events : Outcome(p, e) \in Rows
    BY <1>0, RowsStayRows DEF Outcome
  <2>2. row' \in [Events -> Rows]
    BY <1>4, <2>1 DEF Commit
  <2> QED
    BY <1>0, <1>4, <2>2 DEF Commit, TypeOK
<1>5. ASSUME NEW p \in Publishers, Crash(p)
      PROVE  TypeOK'
  BY <1>0, <1>5 DEF Crash, TypeOK
<1>6. CASE Tick
  <2>1. row' \in [Events -> Rows]
    BY <1>0, <1>6, RowsStayRows DEF Tick
  <2>2. ASSUME NEW p \in Publishers
        PROVE  [pub[p] EXCEPT !.age = AtMost(Cap, @ + 1)] \in Transactions
    <3>1. AtMost(Cap, pub[p].age + 1) \in 0 .. Cap
      BY <1>0, OutboxAssumption DEF AtMost
    <3>2. \A age \in 0 .. Cap : [pub[p] EXCEPT !.age = age] \in Transactions
      BY <1>0 DEF Transactions
    <3> QED
      BY <3>1, <3>2
  <2>3. pub' \in [Publishers -> Transactions]
    BY <1>0, <1>6, <2>2 DEF Tick
  <2> QED
    BY <1>6, <2>1, <2>3 DEF Tick, TypeOK
<1>7. CASE UNCHANGED vars
  BY <1>7 DEF vars, TypeOK
<1> QED
  BY <1>1, <1>2, <1>3, <1>4, <1>5, <1>6, <1>7 DEF Next, PublishStep

(* Every variable keeps its type, for any cap and any largest exponent: a    *)
(* row that failed never waits longer than the cap.                          *)
THEOREM OutboxTypes == Spec => []TypeOK
BY TypeInit, TypeNext, PTL DEF Spec

-----------------------------------------------------------------------------
(* Locks and messages *)

(* A lock belongs to one publisher, and to one of the three sets it keeps.   *)
LocksInv ==
  /\ \A p \in Publishers : \A e \in Held(p) : row[e].state = "pending" /\ pub[p].busy
  /\ \A p, q \in Publishers : p # q => Held(p) \cap Held(q) = {}
  /\ \A p \in Publishers : pub[p].todo \cap (pub[p].ok \cup pub[p].failed) = {}
                           /\ pub[p].ok \cap pub[p].failed = {}

(* Redis has accepted the event and its publisher may still record it.       *)
Unrecorded(e) == \E p \in Publishers : e \in pub[p].ok

(* The messages of an event are its faults and, perhaps, one recorded send.  *)
CountInv ==
  \A e \in Events :
    /\ row[e].state \in Unborn => sent[e] = 0 /\ faults[e] = 0
    /\ row[e].state = "pending" /\ ~Unrecorded(e) => sent[e] = faults[e]
    /\ row[e].state = "pending" /\ Unrecorded(e) => sent[e] = faults[e] + 1
    /\ row[e].state \in Settled => sent[e] = faults[e] + 1

OutboxInv == TypeOK /\ LocksInv /\ CountInv

LEMMA OutboxInit == Init => OutboxInv
<1> SUFFICES ASSUME Init PROVE OutboxInv
  OBVIOUS
<1>1. \A p \in Publishers : Held(p) = {} /\ pub[p].ok = {} /\ pub[p].todo = {} /\ pub[p].failed = {}
  BY DEF Init, Idle, Held
<1>2. TypeOK
  BY TypeInit
<1>3. \A e \in Events : row[e].state = "none" /\ sent[e] = 0 /\ faults[e] = 0
  BY DEF Init
<1>4. LocksInv
  BY <1>1 DEF LocksInv
<1>5. CountInv
  BY <1>3 DEF CountInv, Unborn, Settled
<1> QED
  BY <1>2, <1>4, <1>5 DEF OutboxInv

(* Steps of mutations, of maintenance and of time leave publishers alone.    *)
LEMMA RowStepsKeepInv ==
  ASSUME OutboxInv, TypeOK', UNCHANGED <<sent, faults>>,
         \A p \in Publishers : /\ pub'[p].todo = pub[p].todo /\ pub'[p].ok = pub[p].ok
                               /\ pub'[p].failed = pub[p].failed /\ pub'[p].busy = pub[p].busy,
         \A e \in Events :
           \/ row'[e].state = row[e].state
           \/ row[e].state \in {"none", "open"} /\ row'[e].state \in Unborn \cup {"pending"}
           \/ row[e].state = "published" /\ row'[e].state = "deleted"
  PROVE  OutboxInv'
<1> USE DEF OutboxInv
<1>1. \A p \in Publishers : Held(p)' = Held(p)
  BY DEF Held
<1>2. \A p \in Publishers : Held(p) \subseteq Events
  BY DEF Held, TypeOK, Transactions
<1>3. \A e \in Events : Unrecorded(e)' <=> Unrecorded(e)
  BY DEF Unrecorded
<1>4. \A e \in Events : Unrecorded(e) => row[e].state = "pending"
  BY DEF Unrecorded, LocksInv, Held
<1>5. LocksInv'
  BY <1>1, <1>2 DEF LocksInv
<1>6. CountInv'
  BY <1>3, <1>4 DEF CountInv, Unborn, Settled
<1> QED
  BY <1>5, <1>6

(* A publisher that offers an event moves it out of its list.                *)
LEMMA OfferKeepsInv ==
  ASSUME OutboxInv, TypeOK', NEW p \in Publishers, NEW e \in Events,
         Accept(p, e) \/ Refuse(p, e) \/ LoseReply(p, e)
  PROVE  OutboxInv'
<1> USE DEF OutboxInv
<1>1. UNCHANGED row /\ e \in pub[p].todo /\ e \in Held(p)
  BY DEF Accept, Refuse, LoseReply, Current, Held
<1>2. /\ pub'[p].todo = pub[p].todo \ {e} /\ pub'[p].busy = pub[p].busy
      /\ \/ /\ pub'[p].ok = pub[p].ok \cup {e} /\ pub'[p].failed = pub[p].failed
            /\ sent'[e] = sent[e] + 1 /\ faults'[e] = faults[e]
         \/ /\ pub'[p].ok = pub[p].ok /\ pub'[p].failed = pub[p].failed \cup {e}
            /\ \/ sent'[e] = sent[e] /\ faults'[e] = faults[e]
               \/ sent'[e] = sent[e] + 1 /\ faults'[e] = faults[e] + 1
  BY DEF Accept, Refuse, LoseReply, TypeOK, Transactions
<1>3. \A q \in Publishers : q # p => pub'[q] = pub[q]
  BY DEF Accept, Refuse, LoseReply, TypeOK, Transactions
<1>4. \A f \in Events : f # e => sent'[f] = sent[f] /\ faults'[f] = faults[f]
  BY DEF Accept, Refuse, LoseReply, TypeOK, Transactions
<1>5. \A q \in Publishers : Held(q)' = Held(q)
  BY <1>1, <1>2, <1>3 DEF Held
<1>6. e \notin pub[p].ok /\ e \notin pub[p].failed /\ row[e].state = "pending"
  BY <1>1 DEF LocksInv
<1>7. ~Unrecorded(e)
  <2>1. ASSUME NEW q \in Publishers, q # p
        PROVE  e \notin pub[q].ok
    BY <1>1, <2>1 DEF LocksInv, Held
  <2> QED
    BY <1>6, <2>1 DEF Unrecorded
<1>8. \A f \in Events : f # e => (Unrecorded(f)' <=> Unrecorded(f))
  BY <1>2, <1>3 DEF Unrecorded
<1>9. Unrecorded(e)' <=> e \in pub'[p].ok
  BY <1>3, <1>7 DEF Unrecorded
<1>10. sent[e] = faults[e]
  BY <1>6, <1>7 DEF CountInv
<1>11. LocksInv'
  <2>1. \A q \in Publishers : \A f \in Held(q)' : row'[f].state = "pending" /\ pub'[q].busy
    BY <1>1, <1>2, <1>3, <1>5 DEF LocksInv
  <2>2. \A q, r \in Publishers : q # r => Held(q)' \cap Held(r)' = {}
    BY <1>5 DEF LocksInv
  <2>3. \A q \in Publishers : pub'[q].todo \cap (pub'[q].ok \cup pub'[q].failed) = {}
                              /\ pub'[q].ok \cap pub'[q].failed = {}
    BY <1>2, <1>3, <1>6 DEF LocksInv
  <2> QED
    BY <2>1, <2>2, <2>3 DEF LocksInv
<1>12. CountInv'
  <2> SUFFICES ASSUME NEW f \in Events
               PROVE  /\ row[f].state \in Unborn => sent'[f] = 0 /\ faults'[f] = 0
                      /\ row[f].state = "pending" /\ ~Unrecorded(f)' => sent'[f] = faults'[f]
                      /\ row[f].state = "pending" /\ Unrecorded(f)' => sent'[f] = faults'[f] + 1
                      /\ row[f].state \in Settled => sent'[f] = faults'[f] + 1
    BY <1>1 DEF CountInv
  <2>1. CASE f # e
    BY <1>4, <1>8, <2>1 DEF CountInv
  <2>2. CASE f = e
    BY <1>2, <1>6, <1>9, <1>10, <2>2 DEF TypeOK, Transactions, Unborn, Settled
  <2> QED
    BY <2>1, <2>2
<1> QED
  BY <1>11, <1>12

LEMMA StartKeepsInv ==
  ASSUME OutboxInv, TypeOK', NEW p \in Publishers, StartBatch(p)
  PROVE  OutboxInv'
<1> USE DEF OutboxInv
<1>1. UNCHANGED <<row, sent, faults>> /\ ~pub[p].busy
  BY DEF StartBatch
<1>2. pub'[p].busy /\ pub'[p].todo = First(Offer) /\ pub'[p].ok = {} /\ pub'[p].failed = {}
  BY DEF StartBatch, Idle, TypeOK, Transactions
<1>3. \A q \in Publishers : q # p => pub'[q] = pub[q]
  BY DEF StartBatch, TypeOK, Transactions
<1>4. Held(p) = {} /\ pub[p].ok = {}
  BY <1>1 DEF LocksInv, Held
<1>5. Held(p)' = First(Offer) /\ \A q \in Publishers : q # p => Held(q)' = Held(q)
  BY <1>2, <1>3 DEF Held
<1>6. \A e \in First(Offer) :
        row[e].state = "pending" /\ \A q \in Publishers : e \notin Held(q)
  BY DEF First, Offer, Due, Locked
<1>7. \A e \in Events : Unrecorded(e)' <=> Unrecorded(e)
  BY <1>2, <1>3, <1>4 DEF Unrecorded
<1>8. LocksInv'
  <2>1. \A q \in Publishers : \A e \in Held(q)' : row'[e].state = "pending" /\ pub'[q].busy
    BY <1>1, <1>2, <1>3, <1>5, <1>6 DEF LocksInv
  <2>2. \A q, r \in Publishers : q # r => Held(q)' \cap Held(r)' = {}
    BY <1>5, <1>6 DEF LocksInv
  <2>3. \A q \in Publishers : pub'[q].todo \cap (pub'[q].ok \cup pub'[q].failed) = {}
                              /\ pub'[q].ok \cap pub'[q].failed = {}
    BY <1>2, <1>3 DEF LocksInv
  <2> QED
    BY <2>1, <2>2, <2>3 DEF LocksInv
<1>9. CountInv'
  BY <1>1, <1>7 DEF CountInv
<1> QED
  BY <1>8, <1>9

(* Commit and crash release every lock of the publisher.                     *)
LEMMA EndingReleases ==
  ASSUME OutboxInv, NEW p \in Publishers, Commit(p) \/ Crash(p)
  PROVE  /\ pub'[p].todo = {} /\ pub'[p].ok = {} /\ pub'[p].failed = {} /\ Held(p)' = {}
         /\ \A q \in Publishers : q # p => pub'[q] = pub[q] /\ Held(q)' = Held(q)
         /\ \A e \in pub[p].ok : ~Unrecorded(e)'
         /\ \A e \in Events \ pub[p].ok : Unrecorded(e)' <=> Unrecorded(e)
<1> USE DEF OutboxInv
<1>1. pub'[p].todo = {} /\ pub'[p].ok = {} /\ pub'[p].failed = {}
  BY DEF Commit, Crash, Idle, TypeOK, Transactions
<1>2. \A q \in Publishers : q # p => pub'[q] = pub[q]
  BY DEF Commit, Crash, TypeOK, Transactions
<1>3. Held(p)' = {} /\ \A q \in Publishers : q # p => Held(q)' = Held(q)
  BY <1>1, <1>2 DEF Held
<1>4. \A e \in pub[p].ok : \A q \in Publishers : q # p => e \notin pub[q].ok
  BY DEF LocksInv, Held
<1>5. \A e \in pub[p].ok : ~Unrecorded(e)'
  BY <1>1, <1>2, <1>4 DEF Unrecorded
<1>6. \A e \in Events \ pub[p].ok : Unrecorded(e)' <=> Unrecorded(e)
  BY <1>1, <1>2 DEF Unrecorded
<1> QED
  BY <1>1, <1>2, <1>3, <1>5, <1>6

(* What a commit does to the states of rows.                                 *)
LEMMA CommitStates ==
  ASSUME OutboxInv, NEW p \in Publishers, Commit(p), NEW e \in Events
  PROVE  /\ e \in pub[p].ok => row[e].state = "pending" /\ row'[e].state = "published"
         /\ e \notin pub[p].ok => row'[e].state = row[e].state
<1> USE DEF OutboxInv
<1>1. row'[e] = Outcome(p, e)
  BY DEF Commit
<1>2. Published(row[e]).state = "published" /\ Postponed(row[e], pub[p].age).state = row[e].state
  BY DEF Published, Postponed, TypeOK, Transactions, Rows
<1>3. e \in pub[p].ok => row[e].state = "pending"
  BY DEF LocksInv, Held
<1> QED
  BY <1>1, <1>2, <1>3 DEF Outcome

LEMMA CommitKeepsInv ==
  ASSUME OutboxInv, TypeOK', NEW p \in Publishers, Commit(p)
  PROVE  OutboxInv'
<1> USE DEF OutboxInv
<1>1. UNCHANGED <<sent, faults>> /\ pub[p].ok \subseteq Held(p)
  BY DEF Commit, Held
<1>2. \A q \in Publishers : q # p => \A e \in Held(q) : e \notin pub[p].ok /\ e \in Events
  BY <1>1 DEF LocksInv, Held, TypeOK, Transactions
<1>3. LocksInv'
  <2>1. \A q \in Publishers : \A e \in Held(q)' : row'[e].state = "pending" /\ pub'[q].busy
    BY <1>2, EndingReleases, CommitStates DEF LocksInv
  <2>2. \A q, r \in Publishers : q # r => Held(q)' \cap Held(r)' = {}
    BY EndingReleases DEF LocksInv
  <2>3. \A q \in Publishers : pub'[q].todo \cap (pub'[q].ok \cup pub'[q].failed) = {}
                              /\ pub'[q].ok \cap pub'[q].failed = {}
    BY EndingReleases DEF LocksInv
  <2> QED
    BY <2>1, <2>2, <2>3 DEF LocksInv
<1>4. \A e \in pub[p].ok : Unrecorded(e)
  BY DEF Unrecorded
<1>5. CountInv'
  <2> SUFFICES ASSUME NEW e \in Events
               PROVE  /\ row'[e].state \in Unborn => sent[e] = 0 /\ faults[e] = 0
                      /\ row'[e].state = "pending" /\ ~Unrecorded(e)' => sent[e] = faults[e]
                      /\ row'[e].state = "pending" /\ Unrecorded(e)' => sent[e] = faults[e] + 1
                      /\ row'[e].state \in Settled => sent[e] = faults[e] + 1
    BY <1>1 DEF CountInv
  <2>1. CASE e \in pub[p].ok
    BY <1>4, <2>1, CommitStates DEF CountInv, Unborn, Settled
  <2>2. CASE e \notin pub[p].ok
    <3>1. row'[e].state = row[e].state /\ (Unrecorded(e)' <=> Unrecorded(e))
      BY <2>2, EndingReleases, CommitStates
    <3> QED
      BY <3>1 DEF CountInv
  <2> QED
    BY <2>1, <2>2
<1> QED
  BY <1>3, <1>5

LEMMA CrashKeepsInv ==
  ASSUME OutboxInv, TypeOK', NEW p \in Publishers, Crash(p)
  PROVE  OutboxInv'
<1> USE DEF OutboxInv
<1>1. UNCHANGED <<row, sent>>
  BY DEF Crash
<1>2. \A e \in Events : faults'[e] = IF e \in pub[p].ok THEN faults[e] + 1 ELSE faults[e]
  BY DEF Crash
<1>3. LocksInv'
  BY <1>1, EndingReleases DEF LocksInv
<1>4. \A e \in pub[p].ok : Unrecorded(e) /\ row[e].state = "pending"
  BY DEF Unrecorded, LocksInv, Held
<1>5. CountInv'
  <2> SUFFICES ASSUME NEW e \in Events
               PROVE  /\ row[e].state \in Unborn => sent[e] = 0 /\ faults'[e] = 0
                      /\ row[e].state = "pending" /\ ~Unrecorded(e)' => sent[e] = faults'[e]
                      /\ row[e].state = "pending" /\ Unrecorded(e)' => sent[e] = faults'[e] + 1
                      /\ row[e].state \in Settled => sent[e] = faults'[e] + 1
    BY <1>1 DEF CountInv
  <2>1. CASE e \in pub[p].ok
    <3>1. ~Unrecorded(e)' /\ sent[e] = faults[e] + 1 /\ faults'[e] = faults[e] + 1
      BY <1>2, <1>4, <2>1, EndingReleases DEF CountInv
    <3> QED
      BY <1>4, <2>1, <3>1 DEF Unborn, Settled
  <2>2. CASE e \notin pub[p].ok
    <3>1. (Unrecorded(e)' <=> Unrecorded(e)) /\ faults'[e] = faults[e]
      BY <1>2, <2>2, EndingReleases
    <3> QED
      BY <3>1 DEF CountInv
  <2> QED
    BY <2>1, <2>2
<1> QED
  BY <1>3, <1>5

LEMMA OutboxNext == OutboxInv /\ [Next]_vars => OutboxInv'
<1> SUFFICES ASSUME OutboxInv, [Next]_vars PROVE OutboxInv'
  OBVIOUS
<1>1. TypeOK /\ TypeOK'
  BY TypeNext DEF OutboxInv
<1>2. ASSUME NEW e \in Events, Begin(e) \/ End(e) \/ Forget(e)
      PROVE  OutboxInv'
  <2>1. \A f \in Events :
          \/ row'[f].state = row[f].state
          \/ row[f].state \in {"none", "open"} /\ row'[f].state \in Unborn \cup {"pending"}
          \/ row[f].state = "published" /\ row'[f].state = "deleted"
    <3>1. PICK state \in Unborn \cup {"pending"} \cup Settled :
            /\ row' = [row EXCEPT ![e].state = state]
            /\ \/ row[e].state \in {"none", "open"} /\ state \in Unborn \cup {"pending"}
               \/ row[e].state = "published" /\ state = "deleted"
      BY <1>2 DEF Begin, End, Forget, Unborn, Settled
    <3>2. [row[e] EXCEPT !.state = state].state = state
      BY <1>1, RowsStayRows DEF TypeOK, Transactions
    <3>3. row'[e].state = state /\ \A f \in Events : f # e => row'[f] = row[f]
      BY <1>1, <3>1, <3>2 DEF TypeOK, Transactions
    <3> QED
      BY <3>1, <3>3
  <2> QED
    BY <1>1, <1>2, <2>1, RowStepsKeepInv DEF Begin, End, Forget
<1>3. CASE Tick
  <2>1. \A f \in Events : row'[f].state = row[f].state
    BY <1>1, <1>3, RowsStayRows DEF Tick, TypeOK, Transactions
  <2>2. \A p \in Publishers : /\ pub'[p].todo = pub[p].todo /\ pub'[p].ok = pub[p].ok
                              /\ pub'[p].failed = pub[p].failed /\ pub'[p].busy = pub[p].busy
    BY <1>1, <1>3 DEF Tick, TypeOK, Transactions
  <2> QED
    BY <1>1, <1>3, <2>1, <2>2, RowStepsKeepInv DEF Tick
<1>4. CASE UNCHANGED vars
  BY <1>1, <1>4, RowStepsKeepInv DEF vars
<1> QED
  BY <1>1, <1>2, <1>3, <1>4, StartKeepsInv, OfferKeepsInv, CommitKeepsInv, CrashKeepsInv
  DEF Next, PublishStep

(* Every message of an event but one is due to a fault, for any number of    *)
(* events and publishers, any batch limit and any delays.                    *)
THEOREM DuplicatesAreFaults == Spec => []OneMessagePerFault
<1>1. Spec => []OutboxInv
  BY OutboxInit, OutboxNext, PTL DEF Spec
<1>2. OutboxInv => OneMessagePerFault
  BY DEF OutboxInv, TypeOK, Rows, CountInv, OneMessagePerFault, Unborn, Settled
<1> QED
  BY <1>1, <1>2, PTL

-----------------------------------------------------------------------------
(* The outbox implements Feed. *)

LEMMA FeedNext ==
  ASSUME OutboxInv, [Next]_vars
  PROVE  [TheFeed!Next]_(TheFeed!vars)
<1> DEFINE phase == [e \in Events |-> PhaseOf(row[e].state)]
<1>1. TypeOK /\ TypeOK' /\ LocksInv /\ CountInv
  BY TypeNext DEF OutboxInv
<1>2. /\ \A state \in Unborn : PhaseOf(state) = "unborn"
      /\ PhaseOf("pending") = "pending"
      /\ \A state \in Settled : PhaseOf(state) = "settled"
  BY DEF PhaseOf, Unborn, Settled
<1>3. ASSUME NEW e \in Events, Begin(e) \/ End(e) \/ Forget(e)
      PROVE  [TheFeed!Next]_(TheFeed!vars)
  <2>1. PICK state \in Unborn \cup {"pending"} \cup Settled :
          /\ row' = [row EXCEPT ![e].state = state]
          /\ \/ row[e].state \in Unborn /\ state \in Unborn \cup {"pending"}
             \/ row[e].state \in Settled /\ state \in Settled
    BY <1>3 DEF Begin, End, Forget, Unborn, Settled
  <2>2. [row[e] EXCEPT !.state = state].state = state
    BY <1>1, RowsStayRows DEF TypeOK, Transactions
  <2>3. phase' = [phase EXCEPT ![e] = PhaseOf(state)]
    <3>1. row'[e].state = state /\ \A f \in Events : f # e => row'[f] = row[f]
      BY <1>1, <2>1, <2>2 DEF TypeOK, Transactions
    <3> QED
      BY <3>1
  <2>4. phase' = phase \/ (phase[e] = "unborn" /\ phase' = [phase EXCEPT ![e] = "pending"])
    BY <1>2, <2>1, <2>3
  <2>5. UNCHANGED sent
    BY <1>3 DEF Begin, End, Forget
  <2> QED
    BY <2>4, <2>5 DEF TheFeed!Next, TheFeed!Appear, TheFeed!vars
<1>4. ASSUME NEW p \in Publishers, NEW e \in Events,
             Accept(p, e) \/ Refuse(p, e) \/ LoseReply(p, e)
      PROVE  [TheFeed!Next]_(TheFeed!vars)
  <2>1. phase' = phase /\ (sent' = sent \/ sent' = [sent EXCEPT ![e] = @ + 1])
    BY <1>4 DEF Accept, Refuse, LoseReply
  <2>2. row[e].state = "pending"
    BY <1>1, <1>4 DEF Accept, Refuse, LoseReply, Current, LocksInv, Held
  <2>3. phase[e] = "pending"
    BY <1>2, <2>2
  <2> QED
    BY <2>1, <2>3 DEF TheFeed!Next, TheFeed!Announce, TheFeed!vars
<1>5. ASSUME NEW p \in Publishers, Commit(p)
      PROVE  [TheFeed!Next]_(TheFeed!vars)
  <2> DEFINE batch == pub[p].ok
  <2>1. \A e \in batch : e \in Events /\ row[e].state = "pending" /\ sent[e] > 0
    <3>1. batch \subseteq Events
      BY <1>1 DEF TypeOK, Transactions
    <3>2. \A e \in batch : row[e].state = "pending" /\ Unrecorded(e)
      BY <1>1 DEF LocksInv, Held, Unrecorded
    <3>3. \A e \in Events :
            row[e].state = "pending" /\ Unrecorded(e) => sent[e] = faults[e] + 1
      BY <1>1 DEF CountInv
    <3>4. \A e \in Events : faults[e] \in Nat
      BY <1>1 DEF TypeOK
    <3>5. \A e \in batch : sent[e] = faults[e] + 1 /\ faults[e] \in Nat
      BY <3>1, <3>2, <3>3, <3>4
    <3> HIDE DEF batch
    <3> QED
      BY <3>1, <3>2, <3>5
  <2>2. \A e \in batch : phase[e] = "pending"
    BY <1>2, <2>1
  <2>3. \A e \in Events : row'[e].state = IF e \in batch THEN "published" ELSE row[e].state
    BY <1>5, CommitStates
  <2>4. PhaseOf("published") = "settled"
    BY <1>2 DEF Settled
  <2>5. phase' = [e \in Events |-> IF e \in batch THEN "settled" ELSE phase[e]]
    BY <2>3, <2>4
  <2>6. UNCHANGED sent
    BY <1>5 DEF Commit
  <2>7. batch \in SUBSET Events
    BY <2>1
  <2> QED
    BY <2>1, <2>2, <2>5, <2>6, <2>7 DEF TheFeed!Next, TheFeed!Settle
<1>6. CASE Tick
  <2>1. \A e \in Events : row'[e].state = row[e].state
    BY <1>1, <1>6, RowsStayRows DEF Tick, TypeOK, Transactions
  <2>2. phase' = phase /\ sent' = sent
    BY <1>6, <2>1 DEF Tick
  <2> QED
    BY <2>2 DEF TheFeed!vars
<1>7. ASSUME NEW p \in Publishers, StartBatch(p) \/ Crash(p)
      PROVE  [TheFeed!Next]_(TheFeed!vars)
  BY <1>7 DEF StartBatch, Crash, TheFeed!vars
<1>8. CASE UNCHANGED vars
  BY <1>8 DEF vars, TheFeed!vars
<1> QED
  BY <1>3, <1>4, <1>5, <1>6, <1>7, <1>8 DEF Next, PublishStep

(* The outbox announces only committed events, each at least once before it  *)
(* is marked published and never after, whatever crashes, retries and        *)
(* overlapping publishers do.                                                *)
THEOREM OutboxKeepsFeed == Spec => KeepsFeed
<1>1. Init => TheFeed!Init
  <2> SUFFICES ASSUME Init PROVE TheFeed!Init
    OBVIOUS
  <2>1. \A e \in Events : PhaseOf(row[e].state) = "unborn"
    BY DEF Init, PhaseOf
  <2> QED
    BY <2>1 DEF Init, TheFeed!Init
<1>2. OutboxInv /\ [Next]_vars => [TheFeed!Next]_(TheFeed!vars)
  BY FeedNext
<1>3. Spec => []OutboxInv
  BY OutboxInit, OutboxNext, PTL DEF Spec
<1> QED
  BY <1>1, <1>2, <1>3, PTL DEF Spec, KeepsFeed, TheFeed!Spec
=============================================================================
