----------------------- MODULE SemesterBilling_proofs -----------------------
(***************************************************************************)
(* Proofs about SemesterBilling for any number of invoices, transactions,  *)
(* workers and webhook requests, either gateway and every bound.  The      *)
(* argument: a transaction never changes the invoice it was opened for, so *)
(* what a worker or a webhook request holds since an earlier step still    *)
(* names one and the same invoice when it is written, however often the    *)
(* row has been rewritten meanwhile.                                       *)
(***************************************************************************)
EXTENDS SemesterBilling, TLAPS

\* There is no row for an invoice being drafted, or of an id not given out.
RowsAreUsed ==
  /\ \A i \in Invoices \ used : status[i] = "absent"
  /\ drafting # None => status[drafting] = "absent"

\* A busy worker has an invoice, has a try left unless it is done, and one that
\* is about to store its transaction has opened it for the row of that invoice.
WorkersAgree ==
  \A w \in Workers :
    /\ phase[w] # "idle" => job[w] \in Invoices
    /\ phase[w] # "ack" => tries[w] < MaxRetries
    /\ phase[w] = "persist" =>
         /\ opened[w] \in Transactions
         /\ issued[opened[w]] = job[w]
         /\ status[job[w]] # "absent"

\* A webhook request carries a paid transaction of the invoice it has loaded.
HooksAgree ==
  \A h \in Hooks :
    hook[h] # None =>
      /\ hook[h] \in charged
      /\ found[h] \in Invoices
      /\ issued[hook[h]] = found[h]
      /\ status[found[h]] # "absent"

IInv ==
  /\ TypeOK
  /\ RowsAreUsed
  /\ WorkersAgree
  /\ HooksAgree
  /\ PaidWasCharged

-----------------------------------------------------------------------------
LEMMA InitIInv == Init => IInv
<1> SUFFICES ASSUME Init PROVE IInv
  OBVIOUS
<1> USE BillingAssumption DEF Init
<1>1. TypeOK
  <2>1. /\ status \in [Invoices -> Statuses \cup {"absent"}]
        /\ \A i \in Invoices : reference[i] = None
        /\ phase \in [Workers -> Phases]
        /\ faults \in 0 .. MaxFaults
        /\ tries \in [Workers -> 0 .. MaxRetries]
    BY DEF Phases
  <2>2. /\ reference \in [Invoices -> Transactions \cup {None}]
        /\ job \in [Workers -> Invoices \cup {None}]
        /\ opened \in [Workers -> Transactions \cup {None}]
        /\ issued \in [Transactions -> Invoices \cup {None}]
        /\ hook \in [Hooks -> Transactions \cup {None}]
        /\ found \in [Hooks -> Invoices \cup {None}]
    OBVIOUS
  <2> QED
    BY <2>1, <2>2 DEF TypeOK
<1>2. RowsAreUsed /\ WorkersAgree /\ HooksAgree /\ PaidWasCharged
  BY DEF RowsAreUsed, WorkersAgree, HooksAgree, PaidWasCharged
<1> QED
  BY <1>1, <1>2 DEF IInv

LEMMA DraftIInv == ASSUME IInv, NEW i \in Invoices, DraftInvoice(i) PROVE IInv'
<1> USE BillingAssumption DEF IInv, DraftInvoice, tables, workers, gateway, hooks, history
<1>1. TypeOK'
  <2>1. used' \subseteq Invoices /\ queue' \subseteq used' /\ drafting' \in used'
    BY DEF TypeOK
  <2> QED
    BY <2>1 DEF TypeOK
<1>2. RowsAreUsed' /\ WorkersAgree' /\ HooksAgree' /\ PaidWasCharged'
  BY DEF TypeOK, RowsAreUsed, WorkersAgree, HooksAgree, PaidWasCharged
<1> QED
  BY <1>1, <1>2

LEMMA CommitInvoiceIInv == ASSUME IInv, CommitInvoice PROVE IInv'
<1> USE BillingAssumption DEF IInv, CommitInvoice, workers, gateway, hooks, history
<1>1. drafting \in Invoices /\ status[drafting] = "absent"
  BY DEF TypeOK, RowsAreUsed
<1>2. TypeOK'
  BY <1>1 DEF TypeOK, Statuses
<1>3. RowsAreUsed'
  BY <1>1 DEF TypeOK, RowsAreUsed
<1>4. WorkersAgree' /\ HooksAgree' /\ PaidWasCharged'
  BY <1>1 DEF TypeOK, WorkersAgree, HooksAgree, PaidWasCharged
<1> QED
  BY <1>2, <1>3, <1>4

LEMMA DropInvoiceIInv == ASSUME IInv, DropInvoice PROVE IInv'
<1> USE BillingAssumption DEF IInv, DropInvoice, tables, workers, gateway, hooks, history
<1>1. TypeOK'
  BY DEF TypeOK
<1>2. RowsAreUsed' /\ WorkersAgree' /\ HooksAgree' /\ PaidWasCharged'
  BY DEF RowsAreUsed, WorkersAgree, HooksAgree, PaidWasCharged
<1> QED
  BY <1>1, <1>2

\* The steps of a worker that touch neither the tables nor the gateway.
LEMMA WorkerIInv ==
  ASSUME IInv, NEW w \in Workers,
         \/ \E i \in Invoices : Take(w, i)
         \/ InvoiceNotFound(w)
         \/ HandlerFails(w)
         \/ Acknowledge(w)
         \/ Crash(w)
  PROVE  IInv'
<1> USE BillingAssumption DEF IInv, tables, gateway, hooks, history
<1>1. UNCHANGED <<tables, gateway, hooks, history, drafting, used>>
  BY DEF Take, InvoiceNotFound, HandlerFails, Acknowledge, Crash, jobs
<1>2. RowsAreUsed' /\ HooksAgree' /\ PaidWasCharged'
  BY <1>1 DEF RowsAreUsed, HooksAgree, PaidWasCharged
<1>3. TypeOK' /\ WorkersAgree'
  <2>1. CASE \E i \in Invoices : Take(w, i)
    BY <2>1, <1>1 DEF Take, TypeOK, WorkersAgree, Phases, jobs
  <2>2. CASE InvoiceNotFound(w)
    BY <2>2, <1>1 DEF InvoiceNotFound, TypeOK, WorkersAgree, Phases, jobs
  <2>3. CASE HandlerFails(w)
    <3>1. faults' \in 0 .. MaxFaults
      BY <2>3 DEF HandlerFails, TypeOK
    <3>2. tries' \in [Workers -> 0 .. MaxRetries]
      BY <2>3 DEF HandlerFails, TypeOK, WorkersAgree
    <3>3. phase' \in [Workers -> Phases] /\ opened' \in [Workers -> Transactions \cup {None}]
      BY <2>3 DEF HandlerFails, TypeOK, Phases
    <3>4. UNCHANGED <<jobs, job>>
      BY <2>3 DEF HandlerFails
    <3>5. TypeOK'
      BY <1>1, <3>1, <3>2, <3>3, <3>4 DEF TypeOK, jobs
    <3>6. WorkersAgree'
      BY <2>3, <1>1, <3>4 DEF HandlerFails, TypeOK, WorkersAgree, Phases
    <3> QED
      BY <3>5, <3>6
  <2>4. CASE Acknowledge(w)
    <3>1. queue' \subseteq used' /\ tries' \in [Workers -> 0 .. MaxRetries]
      BY <2>4, <1>1 DEF Acknowledge, Rest, TypeOK
    <3>2. phase' \in [Workers -> Phases] /\ opened' \in [Workers -> Transactions \cup {None}]
      BY <2>4 DEF Acknowledge, Rest, TypeOK, Phases
    <3>3. job' \in [Workers -> Invoices \cup {None}] /\ faults' = faults
      BY <2>4 DEF Acknowledge, Rest, TypeOK
    <3>4. TypeOK'
      BY <1>1, <3>1, <3>2, <3>3 DEF TypeOK
    <3>5. WorkersAgree'
      BY <2>4, <1>1 DEF Acknowledge, Rest, TypeOK, WorkersAgree
    <3> QED
      BY <3>4, <3>5
  <2>5. CASE Crash(w)
    BY <2>5, <1>1 DEF Crash, Rest, TypeOK, WorkersAgree, Phases, jobs
  <2> QED
    BY <2>1, <2>2, <2>3, <2>4, <2>5
<1> QED
  BY <1>2, <1>3

LEMMA InitiateIInv ==
  ASSUME IInv, NEW w \in Workers, NEW t \in Transactions, Initiate(w, t)
  PROVE  IInv'
<1> USE BillingAssumption DEF IInv, Initiate, tables, jobs, hooks, history
\* What was opened stays opened for the same invoice.
<1>1. \A u \in Transactions : issued[u] # None => issued'[u] = issued[u]
  BY DEF TypeOK
<1>2. TypeOK'
  BY <1>1 DEF TypeOK, WorkersAgree, Phases
<1>3. RowsAreUsed'
  BY DEF RowsAreUsed
<1>4. WorkersAgree'
  BY <1>1 DEF TypeOK, WorkersAgree
<1>5. HooksAgree' /\ PaidWasCharged'
  BY <1>1 DEF TypeOK, HooksAgree, PaidWasCharged
<1> QED
  BY <1>2, <1>3, <1>4, <1>5

LEMMA PersistIInv == ASSUME IInv, NEW w \in Workers, Persist(w) PROVE IInv'
<1> USE BillingAssumption DEF IInv, Persist, jobs, gateway, hooks
<1>1. /\ job[w] \in Invoices
      /\ opened[w] \in Transactions
      /\ issued[opened[w]] = job[w]
      /\ status[job[w]] # "absent"
  BY DEF WorkersAgree
<1>2. TypeOK'
  BY <1>1 DEF TypeOK, Phases
<1>3. RowsAreUsed' /\ WorkersAgree' /\ HooksAgree' /\ PaidWasCharged'
  BY DEF TypeOK, RowsAreUsed, WorkersAgree, HooksAgree, PaidWasCharged
<1> QED
  BY <1>2, <1>3

LEMMA ChargeIInv == ASSUME IInv, NEW t \in Transactions, Charge(t) PROVE IInv'
<1> USE BillingAssumption DEF IInv, Charge, tables, jobs, workers, hooks, history
<1>1. TypeOK'
  BY DEF TypeOK
<1>2. RowsAreUsed' /\ WorkersAgree' /\ HooksAgree' /\ PaidWasCharged'
  BY DEF RowsAreUsed, WorkersAgree, HooksAgree, PaidWasCharged
<1> QED
  BY <1>1, <1>2

LEMMA ReadHookIInv ==
  ASSUME IInv, NEW h \in Hooks, NEW t \in Transactions, ReadHook(h, t)
  PROVE  IInv'
<1> USE BillingAssumption DEF IInv, tables, jobs, workers, history
<1> DEFINE unpaid == {i \in Matching(t) : status[i] # "paid"}
<1>1. UNCHANGED <<tables, jobs, workers, issued, charged, history, faults>>
  BY DEF ReadHook
<1>2. RowsAreUsed' /\ WorkersAgree' /\ PaidWasCharged'
  BY <1>1 DEF RowsAreUsed, WorkersAgree, PaidWasCharged
\* Whatever matches has the transaction as its reference; with Monnify, nothing does.
<1>3. \A i \in Matching(t) : i \in Invoices /\ reference[i] = t
  BY DEF Matching, TypeOK
<1>4. CASE unpaid = {}
  <2>1. answered' = answered \cup {t} /\ UNCHANGED hooks /\ t \in charged
    BY <1>4 DEF ReadHook
  <2> QED
    BY <2>1, <1>1, <1>2 DEF TypeOK, HooksAgree, hooks
<1>5. CASE unpaid # {}
  <2> DEFINE i == CHOOSE j \in unpaid : TRUE
  <2>1. i \in unpaid
    BY <1>5
  <2>2. i \in Invoices /\ reference[i] = t
    BY <2>1, <1>3
  <2>3. issued[t] = i /\ status[i] # "absent"
    BY <2>2 DEF TypeOK
  <2>4. /\ found' = [found EXCEPT ![h] = i]
        /\ hook' = [hook EXCEPT ![h] = t]
        /\ UNCHANGED answered
        /\ t \in charged
    BY <1>5 DEF ReadHook
  <2> HIDE DEF i, unpaid
  <2>5. TypeOK'
    BY <2>2, <2>4, <1>1 DEF TypeOK
  <2>6. HooksAgree'
    BY <2>2, <2>3, <2>4, <1>1 DEF HooksAgree, TypeOK
  <2> QED
    BY <2>5, <2>6, <1>2
<1> QED
  BY <1>4, <1>5

LEMMA CommitHookIInv == ASSUME IInv, NEW h \in Hooks, CommitHook(h) PROVE IInv'
<1> USE BillingAssumption DEF IInv, CommitHook, Answer, jobs, workers
<1>1. /\ hook[h] \in charged
      /\ found[h] \in Invoices
      /\ issued[hook[h]] = found[h]
      /\ status[found[h]] # "absent"
  BY DEF HooksAgree
<1>2. TypeOK'
  BY <1>1 DEF TypeOK, Statuses
<1>3. RowsAreUsed' /\ WorkersAgree'
  BY <1>1 DEF TypeOK, RowsAreUsed, WorkersAgree
<1>4. HooksAgree'
  BY <1>1 DEF TypeOK, HooksAgree
<1>5. PaidWasCharged'
  BY <1>1 DEF TypeOK, PaidWasCharged
<1> QED
  BY <1>2, <1>3, <1>4, <1>5

LEMMA HookFailsIInv == ASSUME IInv, NEW h \in Hooks, HookFails(h) PROVE IInv'
<1> USE BillingAssumption DEF IInv, HookFails, Answer, tables, jobs, workers, gateway, history
<1>1. TypeOK'
  BY DEF TypeOK
<1>2. RowsAreUsed' /\ WorkersAgree' /\ HooksAgree' /\ PaidWasCharged'
  BY DEF TypeOK, RowsAreUsed, WorkersAgree, HooksAgree, PaidWasCharged
<1> QED
  BY <1>1, <1>2

LEMMA SemesterIInv == ASSUME IInv, EndSemester \/ EditSemester PROVE IInv'
<1> USE BillingAssumption
    DEF IInv, EndSemester, EditSemester, jobs, workers, gateway, hooks, history
<1>1. TypeOK'
  <2>1. ended' \in BOOLEAN /\ billed' \in BOOLEAN
    BY ZenonT(30) DEF TypeOK
  <2> QED
    BY <2>1 DEF TypeOK
<1>2. RowsAreUsed' /\ WorkersAgree' /\ HooksAgree'
  BY DEF TypeOK, RowsAreUsed, WorkersAgree, HooksAgree
<1>3. PaidWasCharged'
  BY DEF TypeOK, PaidWasCharged
<1> QED
  BY <1>1, <1>2, <1>3

LEMMA EditInvoiceIInv ==
  ASSUME IInv, NEW i \in Invoices, NEW s \in GivenByHand, EditInvoice(i, s)
  PROVE  IInv'
<1> USE BillingAssumption DEF IInv, EditInvoice, jobs, workers, gateway, hooks
<1>1. TypeOK'
  BY DEF TypeOK, Statuses
<1>2. RowsAreUsed' /\ WorkersAgree' /\ HooksAgree'
  BY DEF TypeOK, RowsAreUsed, WorkersAgree, HooksAgree
<1>3. PaidWasCharged'
  BY DEF TypeOK, PaidWasCharged
<1> QED
  BY <1>1, <1>2, <1>3

LEMMA CreateInvoiceIInv ==
  ASSUME IInv, NEW i \in Invoices, NEW s \in GivenByHand, CreateInvoice(i, s)
  PROVE  IInv'
<1> USE BillingAssumption DEF IInv, CreateInvoice, workers, gateway, hooks
<1>1. status[i] = "absent" /\ drafting # i
  BY DEF TypeOK, RowsAreUsed
<1>2. TypeOK'
  BY <1>1 DEF TypeOK, Statuses
<1>3. RowsAreUsed'
  BY <1>1 DEF TypeOK, RowsAreUsed
<1>4. WorkersAgree' /\ HooksAgree'
  BY <1>1 DEF TypeOK, WorkersAgree, HooksAgree
<1>5. PaidWasCharged'
  BY DEF TypeOK, PaidWasCharged
<1> QED
  BY <1>2, <1>3, <1>4, <1>5

LEMMA NextIInv == IInv /\ [Next]_vars => IInv'
<1> SUFFICES ASSUME IInv, [Next]_vars PROVE IInv'
  OBVIOUS
<1>1. CASE UNCHANGED vars
  BY <1>1 DEF vars, tables, jobs, workers, gateway, hooks, history, IInv, TypeOK,
     RowsAreUsed, WorkersAgree, HooksAgree, PaidWasCharged
<1>2. CASE \E i \in Invoices : DraftInvoice(i)
  BY <1>2, DraftIInv
<1>3. CASE CommitInvoice \/ DropInvoice
  BY <1>3, CommitInvoiceIInv, DropInvoiceIInv
<1>4. ASSUME NEW w \in Workers,
             \/ \E i \in Invoices : Take(w, i)
             \/ InvoiceNotFound(w)
             \/ HandlerFails(w)
             \/ Acknowledge(w)
             \/ Crash(w)
      PROVE  IInv'
  BY <1>4, WorkerIInv
<1>5. ASSUME NEW w \in Workers, NEW t \in Transactions, Initiate(w, t)
      PROVE  IInv'
  BY <1>5, InitiateIInv
<1>6. ASSUME NEW w \in Workers, Persist(w)
      PROVE  IInv'
  BY <1>6, PersistIInv
<1>7. CASE \E t \in Transactions : Charge(t)
  BY <1>7, ChargeIInv
<1>8. ASSUME NEW h \in Hooks, (\E t \in Transactions : ReadHook(h, t)) \/ CommitHook(h) \/ HookFails(h)
      PROVE  IInv'
  BY <1>8, ReadHookIInv, CommitHookIInv, HookFailsIInv
<1>9. CASE EndSemester \/ EditSemester
  BY <1>9, SemesterIInv
<1>10. CASE \E i \in Invoices, s \in GivenByHand : EditInvoice(i, s) \/ CreateInvoice(i, s)
  BY <1>10, EditInvoiceIInv, CreateInvoiceIInv
<1> QED
  BY <1>1, <1>2, <1>3, <1>4, <1>5, <1>6, <1>7, <1>8, <1>9, <1>10 DEF Next

LEMMA Invariance == SafetySpec => []IInv
  BY InitIInv, NextIInv, PTL DEF SafetySpec

\* The state has its type; in particular a stored reference is always one that the
\* gateway gave for that invoice, whichever deliveries wrote it.
THEOREM Typing == SafetySpec => []TypeOK
<1>1. IInv => TypeOK
  BY DEF IInv
<1> QED
  BY <1>1, Invariance, PTL

\* Webhooks (tasks and routes of billing) mark an invoice paid only for a payment of
\* that invoice, and its semester billed with it.
THEOREM PaidIsCharged == SafetySpec => []PaidWasCharged
<1>1. IInv => PaidWasCharged
  BY DEF IInv
<1> QED
  BY <1>1, Invariance, PTL

-----------------------------------------------------------------------------
\* The steps that write Invoice.status, and what they write over.
LEMMA StatusWrites ==
  ASSUME IInv, [Next]_vars, NEW i \in Invoices, status'[i] # status[i]
  PROVE  \/ CommitInvoice /\ i = drafting /\ status[i] = "absent"
         \/ \E h \in Hooks : CommitHook(h) /\ status[i] # "absent" /\ status'[i] = "paid"
         \/ i \in byHand'
<1> USE BillingAssumption DEF IInv
<1>1. CASE CommitInvoice
  BY <1>1 DEF CommitInvoice, RowsAreUsed, TypeOK
<1>2. ASSUME NEW h \in Hooks, CommitHook(h)
      PROVE  status[i] # "absent" /\ status'[i] = "paid"
  BY <1>2 DEF CommitHook, HooksAgree, TypeOK
<1>3. ASSUME NEW j \in Invoices, NEW s \in GivenByHand, EditInvoice(j, s) \/ CreateInvoice(j, s)
      PROVE  i \in byHand'
  BY <1>3 DEF EditInvoice, CreateInvoice, TypeOK
<1>4. \/ CommitInvoice
      \/ \E h \in Hooks : CommitHook(h)
      \/ \E j \in Invoices, s \in GivenByHand : EditInvoice(j, s) \/ CreateInvoice(j, s)
  <2>1. \/ \E j \in Invoices : DraftInvoice(j)
        \/ DropInvoice
        \/ \E w \in Workers :
             \/ \E j \in Invoices : Take(w, j)
             \/ InvoiceNotFound(w)
             \/ \E t \in Transactions : Initiate(w, t)
             \/ Persist(w)
             \/ HandlerFails(w)
             \/ Acknowledge(w)
             \/ Crash(w)
        \/ \E t \in Transactions : Charge(t)
        \/ \E h \in Hooks : (\E t \in Transactions : ReadHook(h, t)) \/ HookFails(h)
        \/ EndSemester
        \/ EditSemester
        \/ UNCHANGED vars
        => status' = status
    BY DEF DraftInvoice, DropInvoice, Take, InvoiceNotFound, Initiate, Persist, HandlerFails,
       Acknowledge, Crash, Charge, ReadHook, HookFails, EndSemester, EditSemester, tables, vars
  <2> QED
    BY <2>1 DEF Next
<1> QED
  BY <1>1, <1>2, <1>3, <1>4

\* No redelivery, retry or overlapping webhook takes a payment back.
THEOREM PaymentStands == SafetySpec => PaidStays
<1>1. IInv /\ [Next]_vars
        => [\A i \in Invoices : (status[i] = "paid" /\ status'[i] # "paid") => i \in byHand']_vars
  BY StatusWrites
<1> QED
  BY <1>1, Invariance, PTL DEF SafetySpec, PaidStays
=============================================================================
