--------------------------- MODULE SemesterBilling ---------------------------
(***************************************************************************)
(* Billing one semester: the hourly job of backend/scheduler.py that       *)
(* creates an invoice and publishes INITIATE_BILLING, the workers that     *)
(* open a transaction with the payment gateway (tasks/billing.py), the     *)
(* gateway's webhooks (routes/billings/webhooks.py) and the administrators *)
(* who write invoices and edit semesters meanwhile.                        *)
(*                                                                         *)
(* The gateway is external: it opens transactions, a school pays the one   *)
(* it was shown, and the webhook is sent until it is answered with 200.    *)
(***************************************************************************)
EXTENDS Integers, FiniteSets

CONSTANTS
  Invoices,         \* invoice ids
  Transactions,     \* transaction references of the gateway
  Workers,          \* worker.py processes
  Hooks,            \* webhook requests that may be handled at once
  None,             \* no invoice, no transaction
  GivenByHand,      \* statuses administrators give an invoice
  Monnify,          \* is Monnify the gateway (no PAYSTACK_SECRET_KEY)?
  MaxRetries,       \* handler runs per delivery, as in TaskDispatch
  MaxFaults         \* bound: crashes, failed gateway calls and requests

ASSUME BillingAssumption ==
  /\ None \notin Invoices \cup Transactions
  /\ Invoices \cap Transactions = {}
  /\ GivenByHand \subseteq {"pending", "paid", "overdue", "cancelled"}
  /\ Monnify \in BOOLEAN
  /\ MaxRetries \in Nat \ {0}
  /\ MaxFaults \in Nat

VARIABLES
  ended,            \* Semester.status is ended and end_date has passed
  billed,           \* Semester.is_billed
  status,           \* Invoice.status; "absent" while there is no committed row
  reference,        \* Invoice.payment_reference
  drafting,         \* the invoice the billing job has flushed and not committed
  used,             \* ids given out, those the job rolled back included
  queue,            \* INITIATE_BILLING events not acknowledged
  phase,            \* where each worker is
  job,              \* the invoice it was handed
  opened,           \* the transaction it has opened for it
  tries,            \* failed runs of this delivery
  issued,           \* the gateway: the invoice of each transaction
  charged,          \* the gateway: transactions that were paid
  answered,         \* the gateway: webhooks answered with 200
  hook,             \* the transaction each webhook request carries
  found,            \* the invoice it loaded
  shown,            \* history: references an invoice has held
  byHand,           \* history: invoices, or None for the semester, written by hand
  faults            \* counts against MaxFaults

tables  == <<ended, billed, status, reference>>
jobs    == <<drafting, used, queue>>
workers == <<phase, job, opened, tries>>
gateway == <<issued, charged, answered>>
hooks   == <<hook, found>>
history == <<shown, byHand>>
vars == <<tables, jobs, workers, gateway, hooks, history, faults>>

Statuses == {"pending", "paid", "overdue", "cancelled"}
Phases   == {"idle", "initiate", "persist", "ack"}

TypeOK ==
  /\ ended \in BOOLEAN
  /\ billed \in BOOLEAN
  /\ status \in [Invoices -> Statuses \cup {"absent"}]
  /\ reference \in [Invoices -> Transactions \cup {None}]
  /\ \A i \in Invoices : reference[i] # None => issued[reference[i]] = i /\ status[i] # "absent"
  /\ drafting \in used \cup {None}
  /\ used \subseteq Invoices
  /\ queue \subseteq used
  /\ phase \in [Workers -> Phases]
  /\ job \in [Workers -> Invoices \cup {None}]
  /\ opened \in [Workers -> Transactions \cup {None}]
  /\ tries \in [Workers -> 0 .. MaxRetries]
  /\ issued \in [Transactions -> Invoices \cup {None}]
  /\ charged \subseteq shown
  /\ answered \subseteq charged
  /\ hook \in [Hooks -> Transactions \cup {None}]
  /\ found \in [Hooks -> Invoices \cup {None}]
  /\ shown \subseteq Transactions
  /\ byHand \subseteq Invoices \cup {None}
  /\ faults \in 0 .. MaxFaults

Init ==
  /\ ended = FALSE
  /\ billed = FALSE
  /\ status = [i \in Invoices |-> "absent"]
  /\ reference = [i \in Invoices |-> None]
  /\ drafting = None
  /\ used = {}
  /\ queue = {}
  /\ phase = [w \in Workers |-> "idle"]
  /\ job = [w \in Workers |-> None]
  /\ opened = [w \in Workers |-> None]
  /\ tries = [w \in Workers |-> 0]
  /\ issued = [t \in Transactions |-> None]
  /\ charged = {}
  /\ answered = {}
  /\ hook = [h \in Hooks |-> None]
  /\ found = [h \in Hooks |-> None]
  /\ shown = {}
  /\ byHand = {}
  /\ faults = 0

-----------------------------------------------------------------------------
(***************************************************************************)
(* The billing job.  APScheduler runs one instance of it at a time.        *)
(***************************************************************************)

\* The semesters _trigger_billing selects.
BillingDue == ended /\ ~billed

\* Select, insert the invoice, flush, publish: the event leaves before the
\* commit, and the job goes on when it cannot be published.
DraftInvoice(i) ==
  /\ drafting = None
  /\ BillingDue
  /\ i \notin used
  /\ drafting' = i
  /\ used' = used \cup {i}
  /\ queue' \in {queue \cup {i}, queue}
  /\ UNCHANGED <<tables, workers, gateway, hooks, history, faults>>

CommitInvoice ==
  /\ drafting # None
  /\ status' = [status EXCEPT ![drafting] = "pending"]
  /\ drafting' = None
  /\ UNCHANGED <<ended, billed, reference, used, queue, workers, gateway, hooks, history, faults>>

\* The job fails or the scheduler dies; the published event stays.
DropInvoice ==
  /\ drafting # None
  /\ faults < MaxFaults
  /\ faults' = faults + 1
  /\ drafting' = None
  /\ UNCHANGED <<tables, used, queue, workers, gateway, hooks, history>>

-----------------------------------------------------------------------------
(***************************************************************************)
(* Workers: handle_initiate_billing, delivered at least once.              *)
(***************************************************************************)

Take(w, i) ==
  /\ phase[w] = "idle"
  /\ i \in queue
  /\ \A v \in Workers : job[v] # i
  /\ phase' = [phase EXCEPT ![w] = "initiate"]
  /\ job' = [job EXCEPT ![w] = i]
  /\ UNCHANGED <<tables, jobs, opened, tries, gateway, hooks, history, faults>>

\* An invoice that is not committed yet, or was rolled back, is "not found": the
\* handler returns and the event is acknowledged.
InvoiceNotFound(w) ==
  /\ phase[w] = "initiate"
  /\ status[job[w]] = "absent"
  /\ phase' = [phase EXCEPT ![w] = "ack"]
  /\ UNCHANGED <<tables, jobs, job, opened, tries, gateway, hooks, history, faults>>

InitiateUnseen(w, t) ==
  /\ phase[w] = "initiate"
  /\ issued[t] = None
  /\ issued' = [issued EXCEPT ![t] = job[w]]
  /\ opened' = [opened EXCEPT ![w] = t]
  /\ phase' = [phase EXCEPT ![w] = "persist"]
  /\ UNCHANGED <<tables, jobs, job, tries, charged, answered, hooks, history, faults>>

\* PaymentGatewayService.initiate, whatever the invoice's status and reference.
Initiate(w, t) ==
  /\ phase[w] = "initiate"
  /\ status[job[w]] # "absent"
  /\ issued[t] = None
  /\ issued' = [issued EXCEPT ![t] = job[w]]
  /\ opened' = [opened EXCEPT ![w] = t]
  /\ phase' = [phase EXCEPT ![w] = "persist"]
  /\ UNCHANGED <<tables, jobs, job, tries, charged, answered, hooks, history, faults>>

PersistReopens(w) ==
  /\ phase[w] = "persist"
  /\ reference' = [reference EXCEPT ![job[w]] = opened[w]]
  /\ status' = [status EXCEPT ![job[w]] = "pending"]
  /\ shown' = shown \cup {opened[w]}
  /\ phase' = [phase EXCEPT ![w] = "ack"]
  /\ UNCHANGED <<ended, billed, jobs, job, opened, tries, gateway, hooks, byHand, faults>>

\* update_payment_details: URL and reference, over those of an earlier delivery.
Persist(w) ==
  /\ phase[w] = "persist"
  /\ reference' = [reference EXCEPT ![job[w]] = opened[w]]
  /\ shown' = shown \cup {opened[w]}
  /\ phase' = [phase EXCEPT ![w] = "ack"]
  /\ UNCHANGED <<ended, billed, status, jobs, job, opened, tries, gateway, hooks,
                 byHand, faults>>

Rest(w) ==
  /\ phase' = [phase EXCEPT ![w] = "idle"]
  /\ job' = [job EXCEPT ![w] = None]
  /\ opened' = [opened EXCEPT ![w] = None]
  /\ tries' = [tries EXCEPT ![w] = 0]

\* The gateway refuses, or the database does after it: the handler is run again
\* with a transaction of its own, or given up.
HandlerFails(w) ==
  /\ phase[w] \in {"initiate", "persist"}
  /\ faults < MaxFaults
  /\ faults' = faults + 1
  /\ tries' = [tries EXCEPT ![w] = @ + 1]
  /\ phase' = [phase EXCEPT ![w] = IF tries[w] + 1 < MaxRetries THEN "initiate" ELSE "ack"]
  /\ opened' = [opened EXCEPT ![w] = None]
  /\ UNCHANGED <<tables, jobs, job, gateway, hooks, history>>

Acknowledge(w) ==
  /\ phase[w] = "ack"
  /\ queue' = queue \ {job[w]}
  /\ Rest(w)
  /\ UNCHANGED <<tables, drafting, used, gateway, hooks, history, faults>>

\* The worker dies, or its commit is refused: the event is delivered again.
Crash(w) ==
  /\ phase[w] # "idle"
  /\ faults < MaxFaults
  /\ faults' = faults + 1
  /\ Rest(w)
  /\ UNCHANGED <<tables, jobs, gateway, hooks, history>>

-----------------------------------------------------------------------------
(***************************************************************************)
(* The gateway and its webhooks.                                           *)
(***************************************************************************)

\* A school pays at a URL it was shown, also a URL that was replaced since.
Charge(t) ==
  /\ t \in shown \ charged
  /\ charged' = charged \cup {t}
  /\ UNCHANGED <<tables, jobs, workers, issued, answered, hooks, history, faults>>

MatchesAnyPending(t) == {i \in Invoices : status[i] = "pending"}

\* get_by_reference.  Paystack sends the reference it gave; Monnify sends the
\* paymentReference it was given, the invoice id, and the row holds Monnify's
\* own transactionReference.
Matching(t) == IF Monnify THEN {i \in Invoices : reference[i] = i}
               ELSE {i \in Invoices : reference[i] = t}

\* Nothing to do for an unknown reference or a paid invoice: 200, in either case.
ReadHook(h, t) ==
  /\ hook[h] = None
  /\ t \in charged \ answered
  /\ LET unpaid == {i \in Matching(t) : status[i] # "paid"} IN
       IF unpaid = {}
         THEN /\ answered' = answered \cup {t}
              /\ UNCHANGED hooks
         ELSE /\ found' = [found EXCEPT ![h] = CHOOSE i \in unpaid : TRUE]
              /\ hook' = [hook EXCEPT ![h] = t]
              /\ UNCHANGED answered
  /\ UNCHANGED <<tables, jobs, workers, issued, charged, history, faults>>

Answer(h) ==
  /\ hook' = [hook EXCEPT ![h] = None]
  /\ found' = [found EXCEPT ![h] = None]

\* Invoice paid and semester billed, in one commit.
CommitHook(h) ==
  /\ hook[h] # None
  /\ status' = [status EXCEPT ![found[h]] = "paid"]
  /\ billed' = TRUE
  /\ answered' = answered \cup {hook[h]}
  /\ Answer(h)
  /\ UNCHANGED <<ended, reference, jobs, workers, issued, charged, shown, byHand, faults>>

HookFailsWith200(h) ==
  /\ hook[h] # None
  /\ faults < MaxFaults
  /\ faults' = faults + 1
  /\ answered' = answered \cup {hook[h]}
  /\ Answer(h)
  /\ UNCHANGED <<tables, jobs, workers, issued, charged, history>>

\* The request fails: no 200, so the gateway sends it again.
HookFails(h) ==
  /\ hook[h] # None
  /\ faults < MaxFaults
  /\ faults' = faults + 1
  /\ Answer(h)
  /\ UNCHANGED <<tables, jobs, workers, gateway, history>>

-----------------------------------------------------------------------------
(***************************************************************************)
(* Administrators.                                                         *)
(***************************************************************************)

\* PUT /billing/semesters/{id} with the new status.
EndSemester ==
  /\ ~ended
  /\ ended' = TRUE
  /\ UNCHANGED <<billed, status, reference, jobs, workers, gateway, hooks, history, faults>>

\* The same request writes any other column, is_billed included.
EditSemester ==
  /\ billed' = ~billed
  /\ byHand' = byHand \cup {None}
  /\ UNCHANGED <<ended, status, reference, jobs, workers, gateway, hooks, shown, faults>>

\* mark_paid, behind three routes, and PUT /billing/invoices/{id}: the invoice
\* alone, and from any status.
EditInvoice(i, s) ==
  /\ status[i] # "absent"
  /\ status' = [status EXCEPT ![i] = s]
  /\ byHand' = byHand \cup {i}
  /\ UNCHANGED <<ended, billed, reference, jobs, workers, gateway, hooks, shown, faults>>

\* POST /billing/invoices: a row of any status, whether the semester is billed or
\* not; no event is published, so no worker opens a transaction for it.
CreateInvoice(i, s) ==
  /\ i \notin used
  /\ used' = used \cup {i}
  /\ status' = [status EXCEPT ![i] = s]
  /\ byHand' = byHand \cup {i}
  /\ UNCHANGED <<ended, billed, reference, drafting, queue, workers, gateway, hooks, shown, faults>>

-----------------------------------------------------------------------------
Step(w) ==
  \/ InvoiceNotFound(w)
  \/ \E t \in Transactions : Initiate(w, t)
  \/ Persist(w)
  \/ Acknowledge(w)

Next ==
  \/ \E i \in Invoices : DraftInvoice(i)
  \/ CommitInvoice
  \/ DropInvoice
  \/ \E w \in Workers :
       \/ \E i \in Invoices : Take(w, i)
       \/ InvoiceNotFound(w)
       \/ \E t \in Transactions : Initiate(w, t)
       \/ Persist(w)
       \/ HandlerFails(w)
       \/ Acknowledge(w)
       \/ Crash(w)
  \/ \E t \in Transactions : Charge(t)
  \/ \E h \in Hooks :
       \/ \E t \in Transactions : ReadHook(h, t)
       \/ CommitHook(h)
       \/ HookFails(h)
  \/ EndSemester
  \/ EditSemester
  \/ \E i \in Invoices, s \in GivenByHand : EditInvoice(i, s) \/ CreateInvoice(i, s)

SafetySpec == Init /\ [][Next]_vars

(***************************************************************************)
(* Workers run what is queued, a request in flight ends, and the gateway   *)
(* sends a webhook again until it is answered with 200.  Schools need not  *)
(* pay and administrators need not act.                                    *)
(***************************************************************************)
Fairness ==
  /\ \A w \in Workers : WF_vars(\E i \in Invoices : Take(w, i)) /\ WF_vars(Step(w))
  /\ \A h \in Hooks : WF_vars(CommitHook(h))
  /\ \A t \in Transactions : WF_vars(\E h \in Hooks : ReadHook(h, t))

Spec == SafetySpec /\ Fairness

-----------------------------------------------------------------------------
(***************************************************************************)
(* Properties.                                                             *)
(***************************************************************************)

\* Nobody's money is made up: an invoice the administrators left alone is paid
\* only if a transaction opened for that very invoice was paid, whatever was
\* redelivered, retried or overwritten, and then its semester is billed.
PaidWasCharged ==
  \A i \in Invoices \ byHand :
    status[i] = "paid" =>
      /\ \E t \in charged : issued[t] = i
      /\ None \notin byHand => billed

\* A paid invoice stays paid: a redelivered INITIATE_BILLING, which reads the
\* invoice before and writes it after the webhook, does not undo the payment.
PaidStays ==
  [][\A i \in Invoices : (status[i] = "paid" /\ status'[i] # "paid") => i \in byHand']_vars

\* A payment is recorded on its invoice, also when the first webhooks fail,
\* unless another delivery has replaced the reference meanwhile (then the
\* webhook finds no invoice, and is answered with 200 all the same) or an
\* administrator has edited the invoice.
ChargeIsRecorded ==
  \A t \in Transactions, i \in Invoices :
    (t \in charged /\ reference[i] = t)
      ~> (status[i] = "paid" \/ reference[i] # t \/ i \in byHand)
=============================================================================
