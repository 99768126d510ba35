-------------------------------- MODULE Sandbox --------------------------------
(***************************************************************************)
(* Sandbox simulations: the requests that create them (handler/sandbox.go),*)
(* the poller that approves their AML tickets (job/aml_poller.go), their   *)
(* two tables (repo/sandbox.go) and UPay's admin API (admin/client.go).    *)
(*                                                                         *)
(* A step is one database statement or one admin call, except that the     *)
(* upserts of one tick are one step.  Only the poller writes tickets, so   *)
(* it visits them as they are instead of keeping a copy of its list.       *)
(*                                                                         *)
(* Abstracted: scenario, amounts and events; the admin token; a payment    *)
(* request of another merchant is one more refusal; the tick's list is     *)
(* worked off in any order.  to_address is required of a request, so the   *)
(* poller's test for a missing one never holds.                            *)
(***************************************************************************)
EXTENDS Naturals, FiniteSets

CONSTANTS
  Sim,        \* simulations
  Address,    \* deposit addresses
  Inspection, \* inspections of deposits, one ticket each
  Client,     \* goroutines serving requests
  None,       \* no simulation, address or inspection
  MaxRetries, \* max_retries of a simulation
  MaxFaults   \* bound on failed statements and calls, and stops

ASSUME NoneAssumption == None \notin Sim \union Address \union Inspection
ASSUME BoundAssumption == MaxRetries \in Nat /\ MaxFaults \in Nat

VARIABLES
  status,   \* sandbox_simulations.status, "NONE" before the row
  retries,  \* sandbox_simulations.retry_count
  addr,     \* sandbox_simulations.to_address
  owner,    \* sandbox_aml_tickets.simulation_id, None before the row
  uuid,     \* tickets with ticket_uuid
  approved, \* tickets with approved_at
  deposit,  \* UPay: the address at which a deposit with this inspection is
  ticketed, \* UPay: inspections with a review ticket
  reviewed, \* UPay: tickets whose review was approved
  proc,     \* the requests: next step and simulation
  todo,     \* what is left of the tick's list, with the status it read
  job,      \* the poller: next step, simulation, status read, ticket, tickets left
  faults    \* failures so far

simVars == <<status, retries, addr>>
ticketVars == <<owner, uuid, approved>>
upayVars == <<deposit, ticketed, reviewed>>
jobVars == <<todo, job>>
vars == <<simVars, ticketVars, upayVars, proc, jobVars, faults>>

Open == {"SIMULATING", "AML_PENDING"}
Status == Open \union {"NONE", "AML_APPROVED", "FAILED"}
JobLabel == {"idle", "incr", "discover", "tickets", "pending", "visit",
             "setUuid", "submit", "mark", "check", "approve"}
At(label, s, was, i, left) ==
  [pc |-> label, s |-> s, was |-> was, i |-> i, left |-> left]
Idle == At("idle", None, "NONE", None, {})
NoRequest == [pc |-> "idle", s |-> None]

TypeOK ==
  /\ status \in [Sim -> Status]
  /\ retries \in [Sim -> 0 .. MaxRetries]
  /\ addr \in [Sim -> Address \union {None}]
  /\ owner \in [Inspection -> Sim \union {None}]
  /\ uuid \subseteq Inspection /\ approved \subseteq Inspection
  /\ deposit \in [Inspection -> Address \union {None}]
  /\ ticketed \subseteq Inspection /\ reviewed \subseteq Inspection
  /\ proc \in [Client -> [pc : {"idle", "verify", "simulate", "fail"},
                          s : Sim \union {None}]]
  /\ todo \subseteq Sim \X Open
  /\ job \in [pc : JobLabel, s : Sim \union {None}, was : Status,
              i : Inspection \union {None}, left : SUBSET Inspection]
  /\ faults \in 0 .. MaxFaults

Init ==
  /\ status = [s \in Sim |-> "NONE"] /\ retries = [s \in Sim |-> 0]
  /\ addr = [s \in Sim |-> None]
  /\ owner = [i \in Inspection |-> None] /\ uuid = {} /\ approved = {}
  /\ deposit = [i \in Inspection |-> None] /\ ticketed = {} /\ reviewed = {}
  /\ proc = [c \in Client |-> NoRequest]
  /\ todo = {} /\ job = Idle /\ faults = 0

Fault == faults < MaxFaults /\ faults' = faults + 1
Goto(label) == job' = [job EXCEPT !.pc = label]
Finish == job' = Idle
\* The poller goes on to its next ticket.
NextTicket == job' = At("visit", job.s, job.was, None, job.left)
Tickets(s) == {i \in Inspection : owner[i] = s}
-------------------------------------------------------------------------------
(* UPay                                                                    *)

DepositArrives(i) ==
  /\ deposit[i] = None
  /\ \E a \in Address : deposit' = [deposit EXCEPT ![i] = a]
  /\ UNCHANGED <<simVars, ticketVars, ticketed, reviewed, proc, jobVars, faults>>

TicketAppears(i) ==
  /\ deposit[i] # None /\ i \notin ticketed
  /\ ticketed' = ticketed \union {i}
  /\ UNCHANGED <<simVars, ticketVars, deposit, reviewed, proc, jobVars, faults>>

\* What ListDeposits answers for a simulation's address
Deposits(s) == {i \in Inspection : deposit[i] = addr[s]}
\* GetAMLTicketByInspectionID: the ticket's number, or nothing yet
HasTicket(i) == i \in ticketed
-------------------------------------------------------------------------------
(* CreateSimulation: the row is there before anything is checked           *)

CreateRow(s, a) ==
  /\ status[s] = "NONE"
  /\ status' = [status EXCEPT ![s] = "SIMULATING"]
  /\ addr' = [addr EXCEPT ![s] = a]

InsertSimulation(c) ==
  /\ proc[c].pc = "idle"
  /\ \E s \in Sim, a \in Address :
       /\ CreateRow(s, a)
       /\ proc' = [proc EXCEPT ![c] = [pc |-> "verify", s |-> s]]
  /\ UNCHANGED <<retries, ticketVars, upayVars, jobVars, faults>>

\* GetPaymentRequestMerchantID: this merchant's, or an error or another's
VerifyOwner(c) ==
  /\ proc[c].pc = "verify"
  /\ \E next \in {"simulate", "fail"} :
       proc' = [proc EXCEPT ![c] = [pc |-> next, s |-> @.s]]
  /\ UNCHANGED <<simVars, ticketVars, upayVars, jobVars, faults>>

SimulateSettlement(c) ==
  /\ proc[c].pc = "simulate"
  /\ \/ proc' = [proc EXCEPT ![c] = NoRequest]
     \/ proc' = [proc EXCEPT ![c] = [pc |-> "fail", s |-> @.s]]
  /\ UNCHANGED <<simVars, ticketVars, upayVars, jobVars, faults>>

\* Whatever the poller has made of the row by now; its error is ignored.
MarkSimulationFailed(c) ==
  /\ proc[c].pc = "fail"
  /\ \/ status' = [status EXCEPT ![proc[c].s] = "FAILED"] /\ UNCHANGED faults
     \/ Fault /\ UNCHANGED status
  /\ proc' = [proc EXCEPT ![c] = NoRequest]
  /\ UNCHANGED <<retries, addr, ticketVars, upayVars, jobVars>>
-------------------------------------------------------------------------------
(* The poller                                                              *)

\* Mutant of PendingSimulations: a spent simulation gets one more turn.
PendingAtLimit == {s \in Sim : status[s] \in Open /\ retries[s] <= MaxRetries}

\* Mutant of PendingSimulations: those with a ticket are taken as done.
PendingFresh == {s \in Sim : status[s] = "SIMULATING" /\ retries[s] < MaxRetries}

\* Mutant of PendingSimulations: only an approved simulation is done with.
PendingUnapproved ==
  {s \in Sim : status[s] \notin {"NONE", "AML_APPROVED"} /\ retries[s] < MaxRetries}

\* ListPendingSimulations
PendingSimulations == {s \in Sim : status[s] \in Open /\ retries[s] < MaxRetries}

Tick ==
  /\ job.pc = "idle" /\ todo = {}
  /\ todo' = {<<s, status[s]>> : s \in PendingSimulations}
  /\ UNCHANGED <<simVars, ticketVars, upayVars, proc, job, faults>>

Process(entry) ==
  /\ job.pc = "idle" /\ entry \in todo
  /\ todo' = todo \ {entry}
  /\ job' = At("incr", entry[1], entry[2], None, {})
  /\ UNCHANGED <<simVars, ticketVars, upayVars, proc, faults>>

IncrSimulationRetry ==
  /\ job.pc = "incr"
  /\ \/ /\ retries' = [retries EXCEPT ![job.s] = @ + 1]
        /\ Goto("discover") /\ UNCHANGED faults
     \/ Finish /\ Fault /\ UNCHANGED retries
  /\ UNCHANGED <<status, addr, ticketVars, upayVars, proc, todo>>

\* An inspection that has a row stays with the simulation that found it first.
UpsertAMLTickets(s, found) ==
  owner' = [i \in Inspection |->
    IF i \in found /\ owner[i] = None THEN s ELSE owner[i]]

\* ListDeposits and UpsertAMLTicket for each; a failed upsert is skipped.
DiscoverTickets ==
  /\ job.pc = "discover"
  /\ \/ Finish /\ Fault /\ UNCHANGED owner
     \/ LET found == Deposits(job.s) IN
        \E got \in SUBSET found :
          /\ IF got = found THEN UNCHANGED faults ELSE Fault
          /\ UpsertAMLTickets(job.s, got)
          /\ Goto("tickets")
  /\ UNCHANGED <<simVars, uuid, approved, upayVars, proc, todo>>

\* ListAMLTickets: none is the end of this simulation's turn.
ListAMLTickets ==
  /\ job.pc = "tickets"
  /\ \/ Finish /\ Fault
     \/ /\ UNCHANGED faults
        /\ IF Tickets(job.s) = {} THEN Finish
           ELSE job' = At(IF job.was = "SIMULATING" THEN "pending" ELSE "visit",
                          job.s, job.was, None, Tickets(job.s))
  /\ UNCHANGED <<simVars, ticketVars, upayVars, proc, todo>>

\* On the status the tick's list had; its error is ignored.
SetPending ==
  /\ job.pc = "pending"
  /\ \/ status' = [status EXCEPT ![job.s] = "AML_PENDING"] /\ UNCHANGED faults
     \/ Fault /\ UNCHANGED status
  /\ Goto("visit")
  /\ UNCHANGED <<retries, addr, ticketVars, upayVars, proc, todo>>

\* The next ticket; one without an id is looked up, an approved one is passed.
VisitTicket ==
  /\ job.pc = "visit"
  /\ IF job.left = {} THEN Goto("check") /\ UNCHANGED faults
     ELSE \E i \in job.left :
       LET go(label) == job' = At(label, job.s, job.was, i, job.left \ {i})
           pass == job' = At("visit", job.s, job.was, None, job.left \ {i}) IN
       IF i \in uuid
       THEN (IF i \in approved THEN pass ELSE go("submit")) /\ UNCHANGED faults
       ELSE \/ HasTicket(i) /\ go("setUuid") /\ UNCHANGED faults
            \/ ~HasTicket(i) /\ pass /\ UNCHANGED faults
            \/ pass /\ Fault
  /\ UNCHANGED <<simVars, ticketVars, upayVars, proc, todo>>

SetAMLTicketUUID ==
  /\ job.pc = "setUuid"
  /\ \/ uuid' = uuid \union {job.i} /\ Goto("submit") /\ UNCHANGED faults
     \/ UNCHANGED uuid /\ NextTicket /\ Fault
  /\ UNCHANGED <<simVars, owner, approved, upayVars, proc, todo>>

\* A review that was approved before may be refused, its answer may be lost.
SubmitAMLReview ==
  /\ job.pc = "submit"
  /\ \/ /\ reviewed' = reviewed \union {job.i}
        /\ \/ Goto("mark") /\ UNCHANGED faults
           \/ NextTicket /\ Fault
     \/ /\ UNCHANGED reviewed /\ NextTicket
        /\ IF job.i \in reviewed THEN UNCHANGED faults ELSE Fault
  /\ UNCHANGED <<simVars, ticketVars, deposit, ticketed, proc, todo>>

MarkAMLTicketApproved ==
  /\ job.pc = "mark"
  /\ \/ approved' = approved \union {job.i} /\ UNCHANGED faults
     \/ UNCHANGED approved /\ Fault
  /\ NextTicket
  /\ UNCHANGED <<simVars, owner, uuid, upayVars, proc, todo>>

\* Mutant of AllApproved: tickets not found at UPay yet are not counted.
AllKnownApproved(s) == Tickets(s) # {} /\ Tickets(s) \intersect uuid \subseteq approved

\* AllAMLTicketsApproved
AllApproved(s) == Tickets(s) # {} /\ Tickets(s) \subseteq approved

CheckApproved ==
  /\ job.pc = "check"
  /\ \/ UNCHANGED faults /\ IF AllApproved(job.s) THEN Goto("approve") ELSE Finish
     \/ Finish /\ Fault
  /\ UNCHANGED <<simVars, ticketVars, upayVars, proc, todo>>

SetApproved ==
  /\ job.pc = "approve"
  /\ \/ status' = [status EXCEPT ![job.s] = "AML_APPROVED"] /\ UNCHANGED faults
     \/ Fault /\ UNCHANGED status
  /\ Finish
  /\ UNCHANGED <<retries, addr, ticketVars, upayVars, proc, todo>>
-------------------------------------------------------------------------------
\* The server stops and is started again.
Crash ==
  /\ Fault
  /\ proc' = [c \in Client |-> NoRequest] /\ todo' = {} /\ job' = Idle
  /\ UNCHANGED <<simVars, ticketVars, upayVars>>

Poll ==
  \/ Tick \/ (\E entry \in todo : Process(entry))
  \/ IncrSimulationRetry \/ DiscoverTickets \/ ListAMLTickets \/ SetPending
  \/ VisitTicket \/ SetAMLTicketUUID \/ SubmitAMLReview \/ MarkAMLTicketApproved
  \/ CheckApproved \/ SetApproved

Next ==
  \/ \E i \in Inspection : DepositArrives(i) \/ TicketAppears(i)
  \/ \E c \in Client : \/ InsertSimulation(c) \/ VerifyOwner(c)
                       \/ SimulateSettlement(c) \/ MarkSimulationFailed(c)
  \/ Poll
  \/ Crash

Spec == Init /\ [][Next]_vars

\* The ticker never stops and the poller runs on; nothing is assumed of UPay.
FairSpec == Spec /\ WF_vars(Poll)
-------------------------------------------------------------------------------
(* Properties                                                              *)

\* "AML_APPROVED" is only shown when there is a ticket and UPay has approved
\* every one of the simulation (repo/sandbox.go:210-227), though answers are
\* lost and tickets are found over several ticks.
ApprovedIsReviewed ==
  \A s \in Sim : status[s] = "AML_APPROVED" =>
    Tickets(s) # {} /\ Tickets(s) \subseteq reviewed

\* A simulation that is settled or has spent its retries, and that nobody is at
\* work on any more, is at rest for good: no tick takes it up again, so it is
\* not revived, gets no ticket of a deposit that comes to an address it shares,
\* and nothing more is approved for it (repo/sandbox.go:106-114; the writes at
\* 139-152 look at no status, so a listing is all that holds them back).
Held(s) ==
  \/ job.s = s
  \/ \E entry \in todo : entry[1] = s
  \/ \E c \in Client : proc[c].s = s
AtRest(s) ==
  /\ \/ status[s] \in {"AML_APPROVED", "FAILED"}
     \/ status[s] \in Open /\ retries[s] = MaxRetries
  /\ ~Held(s)
RestIsFinal ==
  [][\A s \in Sim :
       AtRest(s) =>
         /\ AtRest(s)'
         /\ status'[s] = status[s]
         /\ Tickets(s)' = Tickets(s)
         /\ Tickets(s) \intersect approved' = Tickets(s) \intersect approved]_vars

\* A simulation whose tickets are all at UPay is approved by the poller, if it
\* has one retry more than failures are to come, and unless another simulation
\* shares the address, a deposit without a ticket comes in, or the answer to a
\* review was lost, after which UPay may refuse it for good (job/aml_poller.go:
\* 57-134).
Alone(s) == \A t \in Sim : t # s => addr[t] # addr[s]
Ready(s) ==
  /\ status[s] \in Open /\ \A c \in Client : proc[c].s # s
  /\ Deposits(s) # {} /\ Deposits(s) \subseteq ticketed /\ Alone(s)
  /\ retries[s] + (MaxFaults - faults) < MaxRetries
ReadyIsApproved ==
  \A s \in Sim :
    Ready(s) ~>
      \/ status[s] = "AML_APPROVED"
      \/ ~Alone(s) \/ ~(Deposits(s) \subseteq ticketed)
      \/ \E i \in Tickets(s) : i \in reviewed \ approved /\ job.i # i
===============================================================================
